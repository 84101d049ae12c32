---------------------------- MODULE Desync_proof ----------------------------
(***************************************************************************)
(* From the command line to the Lua functions, for every command line,     *)
(* every set of names, addresses and answers of Lua, and every number of   *)
(* packets.  Behind it, three calls that Lua makes: tls_mod for every fake *)
(* ClientHello, the collection of CRYPTO frames for every list of them, and*)
(* the position markers of every message and every part of it.  In the     *)
(* end, what becomes of the command line against what it says.             *)
(***************************************************************************)
EXTENDS Desync, LuaCalls, FiniteSetTheorems, WellFoundedInduction, TLAPS

-----------------------------------------------------------------------------
(* What the options leave behind                                           *)

IsSeq(s) == \E S : s \in Seq(S)

\* the instances of a profile have ranges
IsLua(q) ==
    /\ IsSeq(q)
    /\ \A k \in DOMAIN q : q[k].in_range \in PacketRanges /\ q[k].out_range \in PacketRanges

IsProfile(d) == "lua" \in DOMAIN d /\ IsLua(d.lua)

InFields == {"payload", "in_range", "out_range"}
IsInProfile(x) ==
    /\ x = [f \in InFields |-> x[f]]
    /\ x.in_range \in PacketRanges /\ x.out_range \in PacketRanges

DefaultProfile == filter_defaults([dp_init EXCEPT !.name = "no_action"])

\* What is left of the command line has its values; the profiles and templates have
\* instances with ranges; the program runs with the default profile as the last.
CfgInv ==
    /\ cmdline \in CommandLines /\ argv \in Seq({cmdline[i] : i \in DOMAIN cmdline})
    /\ IsSeq(profiles) /\ profiles # <<>> /\ \A i \in DOMAIN profiles : IsProfile(profiles[i])
    /\ IsSeq(templates) /\ \A i \in DOMAIN templates : IsProfile(templates[i])
    /\ "in" \in DOMAIN loc /\ IsInProfile(loc.in)
    /\ "ipcache_lifetime" \in DOMAIN glob /\ glob.ipcache_lifetime \in Nat
    /\ "server" \in DOMAIN glob /\ glob.server \in BOOLEAN
    /\ phase = "run" => profiles[Len(profiles)] = DefaultProfile

LEMMA SeqIs == ASSUME NEW s, IsSeq(s) PROVE Len(s) \in Nat /\ DOMAIN s = 1 .. Len(s)
  BY DEF IsSeq

LEMMA EmptyIsSeq == IsSeq(<<>>)
  <1>1. <<>> \in Seq({})
    OBVIOUS
  <1> QED BY <1>1 DEF IsSeq

LEMMA SeqAppend ==
    ASSUME NEW s, IsSeq(s), NEW x
    PROVE  /\ IsSeq(Append(s, x)) /\ Append(s, x) # <<>> /\ Len(Append(s, x)) = Len(s) + 1
           /\ \A i \in DOMAIN Append(s, x) : (i \in DOMAIN s /\ Append(s, x)[i] = s[i])
                                             \/ (i = Len(s) + 1 /\ Append(s, x)[i] = x)
           /\ Append(s, x)[Len(s) + 1] = x
  <1>1. PICK S : s \in Seq(S)
    BY DEF IsSeq
  <1>2. s \in Seq(S \cup {x}) /\ x \in S \cup {x}
    BY <1>1
  <1>3. Append(s, x) \in Seq(S \cup {x})
    BY <1>2
  <1> QED BY <1>2, <1>3 DEF IsSeq

LEMMA SeqConcat ==
    ASSUME NEW s, IsSeq(s), NEW t, IsSeq(t)
    PROVE  /\ IsSeq(s \o t)
           /\ \A i \in DOMAIN (s \o t) : (\E j \in DOMAIN s : (s \o t)[i] = s[j])
                                         \/ (\E j \in DOMAIN t : (s \o t)[i] = t[j])
  <1>1. PICK S : s \in Seq(S)
    BY DEF IsSeq
  <1>2. PICK T : t \in Seq(T)
    BY DEF IsSeq
  <1>3. s \in Seq(S \cup T) /\ t \in Seq(S \cup T)
    BY <1>1, <1>2
  <1>4. s \o t \in Seq(S \cup T)
    BY <1>3
  <1>5. /\ Len(s) \in Nat /\ Len(t) \in Nat
        /\ DOMAIN s = 1 .. Len(s) /\ DOMAIN t = 1 .. Len(t)
        /\ Len(s \o t) = Len(s) + Len(t) /\ DOMAIN (s \o t) = 1 .. Len(s \o t)
        /\ \A i \in 1 .. Len(s \o t) : (s \o t)[i] = IF i <= Len(s) THEN s[i] ELSE t[i - Len(s)]
    BY <1>3, <1>4
  <1>6. \A i \in DOMAIN (s \o t) : (i \in DOMAIN s /\ (s \o t)[i] = s[i])
                                   \/ (i - Len(s) \in DOMAIN t /\ (s \o t)[i] = t[i - Len(s)])
    BY <1>5
  <1> QED BY <1>4, <1>6 DEF IsSeq

LEMMA SeqFront ==
    ASSUME NEW s, IsSeq(s), s # <<>>
    PROVE  /\ IsSeq(Front(s))
           /\ \A i \in DOMAIN Front(s) : i \in DOMAIN s /\ Front(s)[i] = s[i]
  BY DEF IsSeq, Front

LEMMA SeqSet ==
    ASSUME NEW s, IsSeq(s), s # <<>>, NEW x, NEW t, t = [s EXCEPT ![Len(s)] = x]
    PROVE  /\ IsSeq(t) /\ t # <<>> /\ Len(t) = Len(s) /\ Len(s) \in DOMAIN s
           /\ \A i \in DOMAIN t : i \in DOMAIN s /\ (t[i] = s[i] \/ t[i] = x)
  <1>1. PICK S : s \in Seq(S)
    BY DEF IsSeq
  <1>2. s \in Seq(S \cup {x}) /\ x \in S \cup {x} /\ Len(s) \in DOMAIN s
    BY <1>1
  <1>3. t \in Seq(S \cup {x})
    BY <1>2
  <1>4. DOMAIN t = DOMAIN s /\ Len(t) = Len(s)
    BY <1>2, <1>3
  <1> QED BY <1>2, <1>3, <1>4 DEF IsSeq

LEMMA LuaAppend ==
    ASSUME NEW q, IsLua(q), NEW x, x.in_range \in PacketRanges, x.out_range \in PacketRanges
    PROVE  IsLua(Append(q, x))
  BY SeqAppend DEF IsLua

LEMMA LuaConcat ==
    ASSUME NEW q, IsLua(q), NEW r, IsLua(r)
    PROVE  IsLua(q \o r)
  <1>1. IsSeq(q) /\ IsSeq(r)
    BY DEF IsLua
  <1>2. IsSeq(q \o r)
    BY <1>1, SeqConcat
  <1>3. ASSUME NEW i \in DOMAIN (q \o r)
        PROVE  (q \o r)[i].in_range \in PacketRanges /\ (q \o r)[i].out_range \in PacketRanges
    <2>1. (\E j \in DOMAIN q : (q \o r)[i] = q[j]) \/ (\E j \in DOMAIN r : (q \o r)[i] = r[j])
      BY <1>1, SeqConcat, SMTT(30)
    <2> QED BY <2>1 DEF IsLua
  <1> QED BY <1>2, <1>3 DEF IsLua

-----------------------------------------------------------------------------
(* Each option keeps CfgInv                                                *)

ProfilesInv(ps) == IsSeq(ps) /\ ps # <<>> /\ \A i \in DOMAIN ps : IsProfile(ps[i])

LEMMA ProfileAppend ==
    ASSUME NEW ps, IsSeq(ps), \A i \in DOMAIN ps : IsProfile(ps[i]), NEW d, IsProfile(d)
    PROVE  ProfilesInv(Append(ps, d))
  <1>1. IsSeq(Append(ps, d)) /\ Append(ps, d) # <<>>
    BY SeqAppend
  <1>2. ASSUME NEW i \in DOMAIN Append(ps, d) PROVE IsProfile(Append(ps, d)[i])
    <2>1. (i \in DOMAIN ps /\ Append(ps, d)[i] = ps[i]) \/ Append(ps, d)[i] = d
      BY SeqAppend
    <2> QED BY <2>1
  <1> QED BY <1>1, <1>2 DEF ProfilesInv

LEMMA LastProfile == ASSUME CfgInv PROVE IsProfile(dp) /\ ProfilesInv(profiles)
  BY SeqIs DEF CfgInv, dp, ProfilesInv, IsSeq

LEMMA SetDpIs ==
    ASSUME CfgInv, NEW d, IsProfile(d), SetDp(d)
    PROVE  ProfilesInv(profiles')
  BY SeqSet DEF CfgInv, SetDp, ProfilesInv

\* a field other than the instances
LEMMA ProfileField ==
    ASSUME NEW d, IsProfile(d), NEW f, f # "lua", NEW v
    PROVE  IsProfile([d EXCEPT ![f] = v])
  BY DEF IsProfile

LEMMA OptionIs ==
    ASSUME CfgInv, argv # <<>>
    PROVE  \E i \in DOMAIN cmdline : opt = cmdline[i]
  <1>1. Head(argv) \in {cmdline[i] : i \in DOMAIN cmdline}
    BY DEF CfgInv
  <1> QED BY <1>1 DEF opt

LEMMA RestIs ==
    ASSUME CfgInv, argv # <<>>
    PROVE  Tail(argv) \in Seq({cmdline[i] : i \in DOMAIN cmdline})
  BY DEF CfgInv

LEMMA NewProfileIs == IsProfile(dp_init) /\ IsInProfile(InProfile)
  <1>1. IsSeq(<<>>)
    BY DEF IsSeq
  <1>2. IsLua(<<>>)
    BY <1>1 DEF IsLua
  <1>3. InProfile.in_range \in PacketRanges /\ InProfile.out_range \in PacketRanges
    BY DEF InProfile, PacketRanges, RangeBounds, PACKET_RANGE_NEVER, PACKET_RANGE_ALWAYS, Pos
  <1>4. InProfile = [f \in InFields |-> InProfile[f]]
    BY DEF InProfile, InFields
  <1> QED BY <1>2, <1>3, <1>4 DEF IsProfile, dp_init, IsInProfile

LEMMA CopyIs ==
    ASSUME NEW to, IsProfile(to), NEW from, IsProfile(from)
    PROVE  IsProfile(dp_copy(to, from))
  <1>1. DOMAIN dp_copy(to, from) = DOMAIN to
    BY DEF dp_copy
  <1>2. dp_copy(to, from).lua = to.lua \o from.lua
    BY DEF dp_copy, IsProfile
  <1> QED BY <1>1, <1>2, LuaConcat DEF IsProfile

LEMMA DefaultsIs == ASSUME NEW d, IsProfile(d) PROVE IsProfile(filter_defaults(d))
  BY DEF IsProfile, filter_defaults

LEMMA CfgInitInv == CfgInit => CfgInv
  <1> SUFFICES ASSUME CfgInit PROVE CfgInv
    OBVIOUS
  <1>1. cmdline \in CommandLines /\ argv \in Seq({cmdline[i] : i \in DOMAIN cmdline})
    BY ConfigAssumption DEF CfgInit
  <1> DEFINE d == [dp_init EXCEPT !.n = 1]
  <1>2. IsProfile(d) /\ profiles = <<d>>
    BY NewProfileIs DEF IsProfile, dp_init, CfgInit
  <1>3. ProfilesInv(profiles)
    <2> HIDE DEF d
    <2>1. <<d>> \in Seq({d}) /\ <<d>> # <<>> /\ DOMAIN <<d>> = {1} /\ <<d>>[1] = d
      OBVIOUS
    <2> QED BY <1>2, <2>1 DEF ProfilesInv, IsSeq
  <1>4. IsSeq(templates) /\ DOMAIN templates = {}
    BY DEF CfgInit, IsSeq
  <1>5. "in" \in DOMAIN loc /\ IsInProfile(loc.in)
    BY NewProfileIs DEF CfgInit
  <1>6. /\ "ipcache_lifetime" \in DOMAIN glob /\ glob.ipcache_lifetime \in Nat /\ phase = "options"
        /\ "server" \in DOMAIN glob /\ glob.server \in BOOLEAN
    BY ConfigAssumption DEF CfgInit, GlobDefault
  <1> QED BY <1>1, <1>3, <1>4, <1>5, <1>6 DEF CfgInv, ProfilesInv

\* An option that sets one profile and nothing else that CfgInv speaks of.
LEMMA ProfileOption ==
    ASSUME CfgInv, argv # <<>>, phase = "options", Done, UNCHANGED <<templates, loc, glob>>,
           ProfilesInv(profiles')
    PROVE  CfgInv'
  BY RestIs DEF CfgInv, Done, ProfilesInv

LEMMA CfgNextInv ==
    ASSUME CfgInv, CfgNext
    PROVE  CfgInv'
  <1>0. IsProfile(dp) /\ ProfilesInv(profiles)
    BY LastProfile
  <1>1. CASE exit_clean
    BY <1>1 DEF exit_clean, CfgInv
  <1>2. CASE BadOption
    BY <1>1, <1>2 DEF BadOption
  <1>3. CASE GlobalOption
    <2>1. PICK i \in DOMAIN cmdline : opt = cmdline[i]
      BY <1>3, OptionIs DEF GlobalOption, Option
    <2>2. opt.v # Bad /\ cmdline \in CommandLines
      BY <1>3 DEF GlobalOption, Option, CfgInv
    <2>3. (opt.o = "ipcache_lifetime" => opt.v \in Nat) /\ (opt.o = "server" => opt.v \in BOOLEAN)
      BY <2>1, <2>2, ConfigAssumption
    <2>4. /\ "ipcache_lifetime" \in DOMAIN glob' /\ glob'.ipcache_lifetime \in Nat
          /\ "server" \in DOMAIN glob' /\ glob'.server \in BOOLEAN
      BY <1>3, <2>3 DEF GlobalOption, CfgInv
    <2>5. phase = "options" /\ argv # <<>> /\ Done /\ UNCHANGED <<profiles, templates, loc>>
      BY <1>3 DEF GlobalOption, Option
    <2> QED BY <2>4, <2>5, RestIs DEF CfgInv, Done
  <1>4. CASE ListOption
    <2>1. phase = "options" /\ argv # <<>> /\ Done /\ UNCHANGED <<templates, loc, glob>> /\ opt.o \in ListKinds
      BY <1>4 DEF ListOption, Option
    <2>2. opt.o # "lua"
      BY <2>1 DEF ListKinds
    <2>3. \/ UNCHANGED profiles
          \/ SetDp([dp EXCEPT ![opt.o] = @ \cup {opt.v}])
      BY <1>4 DEF ListOption
    <2>4. IsProfile([dp EXCEPT ![opt.o] = @ \cup {opt.v}])
      BY <1>0, <2>2 DEF IsProfile
    <2>5. ProfilesInv(profiles')
      BY <1>0, <2>3, <2>4, SetDpIs
    <2> QED BY <2>1, <2>5, ProfileOption
  <1>5. CASE ItemsOption
    <2> DEFINE kind == ItemKinds[opt.o]
               id == IF loc.anon[kind] = NoList THEN <<"", loc.anons + 1>> ELSE loc.anon[kind]
    <2>1. phase = "options" /\ argv # <<>> /\ Done /\ UNCHANGED <<templates, glob>> /\ opt.o \in DOMAIN ItemKinds
      BY <1>5 DEF ItemsOption, Option
    <2>2. kind # "lua"
      BY <2>1 DEF ItemKinds
    <2>3. \/ UNCHANGED <<profiles, loc>>
          \/ SetDp([dp EXCEPT ![kind] = @ \cup {id}])
             /\ loc' = [loc EXCEPT !.anon[kind] = id, !.anons = IF loc.anon[kind] = NoList THEN @ + 1 ELSE @]
      BY <1>5 DEF ItemsOption
    <2> HIDE DEF kind, id
    <2>4. IsProfile([dp EXCEPT ![kind] = @ \cup {id}])
      BY <1>0, <2>2 DEF IsProfile
    <2>5. ProfilesInv(profiles')
      BY <1>0, <2>3, <2>4, SetDpIs
    <2>6. "in" \in DOMAIN loc' /\ loc'.in = loc.in
      BY <2>3 DEF CfgInv
    <2> QED BY <2>1, <2>5, <2>6, RestIs DEF CfgInv, Done, ProfilesInv
  <1>6. CASE AutoOption
    <2>1. phase = "options" /\ argv # <<>>
      BY <1>6 DEF AutoOption, Option
    <2>2. \/ exit_clean
          \/ Done /\ UNCHANGED <<profiles, templates, loc, glob>>
          \/ Done /\ UNCHANGED <<templates, loc, glob>>
             /\ SetDp([dp EXCEPT !.hostlist_auto = opt.v, !.hl = @ \cup {opt.v}])
      BY <1>6 DEF AutoOption
    <2>3. IsProfile([dp EXCEPT !.hostlist_auto = opt.v, !.hl = @ \cup {opt.v}])
      BY <1>0 DEF IsProfile
    <2> QED BY <1>0, <1>1, <2>1, <2>2, <2>3, SetDpIs, ProfileOption
  <1>7. CASE FailValueOption
    <2>1. IsProfile([dp EXCEPT !.fail = {f \in @ : f.k # opt.v.k} \cup {opt.v}])
      BY <1>0 DEF IsProfile
    <2> QED BY <1>7, <2>1, SetDpIs, ProfileOption DEF FailValueOption, Option
  <1>8. CASE FilterOption
    <2>1. /\ IsProfile([dp EXCEPT !.l3 = @ \cup opt.v, !.b_filter_l3 = TRUE])
          /\ IsProfile([dp EXCEPT !.filter_l7 = opt.v, !.b_filter_l7 = TRUE])
          /\ opt.o # "lua" => IsProfile([dp EXCEPT ![opt.o] = @ \cup opt.v])
      BY <1>0 DEF IsProfile
    <2>2. /\ phase = "options" /\ argv # <<>> /\ Done /\ UNCHANGED <<templates, loc, glob>>
          /\ opt.o # "lua"
      BY <1>8 DEF FilterOption, Option
    <2>3. \/ SetDp([dp EXCEPT !.l3 = @ \cup opt.v, !.b_filter_l3 = TRUE])
          \/ SetDp([dp EXCEPT !.filter_l7 = opt.v, !.b_filter_l7 = TRUE])
          \/ SetDp([dp EXCEPT ![opt.o] = @ \cup opt.v])
      BY <1>8 DEF FilterOption, Option
    <2>4. ProfilesInv(profiles')
      BY <2>1, <2>2, <2>3, SetDpIs
    <2> QED BY <2>2, <2>4, ProfileOption
  <1>9. CASE InProfileOption
    <2>1. PICK i \in DOMAIN cmdline : opt = cmdline[i]
      BY <1>9, OptionIs DEF InProfileOption, Option
    <2>2. /\ opt.v # Bad /\ cmdline \in CommandLines /\ opt.o \in DOMAIN InProfile
          /\ phase = "options" /\ argv # <<>> /\ Done /\ UNCHANGED <<profiles, templates, glob>>
          /\ loc' = [loc EXCEPT !.in[opt.o] = opt.v]
      BY <1>9 DEF InProfileOption, Option, CfgInv
    <2>3. opt.o \in {"in_range", "out_range"} => opt.v \in PacketRanges
      BY <2>1, <2>2, ConfigAssumption
    <2>4. "in" \in DOMAIN loc' /\ loc'.in = [loc.in EXCEPT ![opt.o] = opt.v]
      BY <2>2 DEF CfgInv
    <2>5. IsInProfile(loc'.in)
      <3>1. opt.o \in InFields
        BY <2>2 DEF InFields, InProfile
      <3> QED BY <2>3, <2>4, <3>1 DEF IsInProfile, CfgInv, InFields
    <2> QED BY <2>2, <2>4, <2>5, RestIs DEF CfgInv, Done
  <1>10. CASE LuaDesyncOption
    <2> DEFINE x == Instance(opt.v, loc.in)
    <2>1. x.in_range = loc.in.in_range /\ x.out_range = loc.in.out_range
      BY DEF Instance
    <2>2. x.in_range \in PacketRanges /\ x.out_range \in PacketRanges
      BY <2>1 DEF CfgInv, IsInProfile
    <2> HIDE DEF x
    <2>3. IsProfile([dp EXCEPT !.lua = Append(@, x)])
      <3>1. IsLua(Append(dp.lua, x))
        BY <1>0, <2>2, LuaAppend DEF IsProfile
      <3> QED BY <1>0, <3>1 DEF IsProfile
    <2>4. /\ phase = "options" /\ argv # <<>> /\ Done /\ UNCHANGED <<templates, loc, glob>>
          /\ SetDp([dp EXCEPT !.lua = Append(@, x)])
      BY <1>10 DEF LuaDesyncOption, Option, x
    <2> QED BY <2>3, <2>4, SetDpIs, ProfileOption
  <1>11. CASE NewOption
    <2> DEFINE stays == ~(loc.skip \/ loc.template)
               number == IF stays THEN loc.count + 1 ELSE loc.count
               kept == IF stays THEN profiles ELSE Front(profiles)
               d == [[dp_init EXCEPT !.name = opt.v] EXCEPT !.n = number]
               e == [dp EXCEPT !.n = loc.tcount + 1]
    <2>1. phase = "options" /\ argv # <<>>
      BY <1>11 DEF NewOption, Option
    <2>2. ~exit_clean => /\ profiles' = Append(kept, d)
                         /\ templates' = templates \/ templates' = Append(templates, e)
                         /\ \E tc : loc' = [ResetAtNew(loc) EXCEPT !.count = number, !.tcount = tc]
                         /\ Done /\ UNCHANGED glob
      BY <1>11 DEF NewOption
    <2>3. IsProfile(d)
      BY NewProfileIs DEF IsProfile, dp_init
    <2>4. IsProfile(e)
      BY <1>0 DEF IsProfile
    <2> HIDE DEF stays, number, d, e
    <2>5. IsSeq(kept) /\ \A i \in DOMAIN kept : IsProfile(kept[i])
      BY <1>0, SeqFront DEF ProfilesInv
    <2> HIDE DEF kept
    <2>6. ASSUME ~exit_clean PROVE ProfilesInv(profiles')
      BY <2>2, <2>3, <2>5, <2>6, ProfileAppend DEF ProfilesInv
    <2>7. ASSUME ~exit_clean PROVE IsSeq(templates') /\ \A i \in DOMAIN templates' : IsProfile(templates'[i])
      <3>1. CASE templates' = templates
        BY <3>1 DEF CfgInv
      <3>2. CASE templates' = Append(templates, e)
        BY <2>4, <3>2, ProfileAppend DEF CfgInv, ProfilesInv
      <3> QED BY <2>2, <2>7, <3>1, <3>2
    <2>8. ~exit_clean => "in" \in DOMAIN loc' /\ loc'.in = InProfile
      BY <2>2 DEF CfgInv, ResetAtNew
    <2>9. CASE ~exit_clean
      <3>1. /\ cmdline' = cmdline /\ argv' = Tail(argv) /\ phase' = "options" /\ glob' = glob
        BY <2>1, <2>2, <2>9 DEF Done
      <3>2. cmdline' \in CommandLines /\ argv' \in Seq({cmdline'[i] : i \in DOMAIN cmdline'})
        BY <2>1, <3>1, RestIs DEF CfgInv
      <3>3. IsInProfile(loc'.in) /\ "in" \in DOMAIN loc'
        BY <2>8, <2>9, NewProfileIs
      <3> QED BY <2>6, <2>7, <2>9, <3>1, <3>2, <3>3 DEF CfgInv, ProfilesInv
    <2> QED BY <1>1, <2>9
  <1>12. CASE SkipOption
    <2>1. phase = "options" /\ argv # <<>> /\ Done /\ UNCHANGED <<profiles, templates, glob>>
      BY <1>12 DEF SkipOption, Option
    <2>2. "in" \in DOMAIN loc' /\ loc'.in = loc.in
      BY <1>12 DEF SkipOption, CfgInv
    <2> QED BY <2>1, <2>2, RestIs DEF CfgInv, Done
  <1>13. CASE NameOption
    <2>1. /\ phase = "options" /\ argv # <<>> /\ Done /\ UNCHANGED <<templates, glob>>
          /\ SetDp([dp EXCEPT !.name = IF opt.v = NoName THEN @ ELSE opt.v])
      BY <1>13 DEF NameOption, Option
    <2>2. "in" \in DOMAIN loc' /\ loc'.in = loc.in
      BY <1>13 DEF NameOption, CfgInv
    <2>3. IsProfile([dp EXCEPT !.name = IF opt.v = NoName THEN @ ELSE opt.v])
      BY <1>0 DEF IsProfile
    <2>4. ProfilesInv(profiles')
      BY <2>1, <2>3, SetDpIs
    <2> QED BY <2>1, <2>2, <2>4, RestIs DEF CfgInv, Done, ProfilesInv
  <1>14. CASE ImportOption
    <2> DEFINE from == CHOOSE t \in ToSet(templates) : t.name = opt.v
    <2>1. phase = "options" /\ argv # <<>>
      BY <1>14 DEF ImportOption, Option
    <2>2. \/ exit_clean
          \/ /\ \E t \in ToSet(templates) : t.name = opt.v
             /\ SetDp([dp_copy(dp, from) EXCEPT !.n = loc.count])
             /\ Done /\ UNCHANGED <<templates, loc, glob>>
      BY <1>14 DEF ImportOption
    <2>3. (\E t \in ToSet(templates) : t.name = opt.v) => from \in ToSet(templates)
      OBVIOUS
    <2>4. \A t \in ToSet(templates) : IsProfile(t)
      BY DEF ToSet, CfgInv
    <2> HIDE DEF from
    <2>5. IsProfile(from) => IsProfile([dp_copy(dp, from) EXCEPT !.n = loc.count])
      BY <1>0, CopyIs DEF IsProfile
    <2> QED BY <1>1, <2>1, <2>2, <2>3, <2>4, <2>5, SetDpIs, ProfileOption
  <1>15. CASE EndOfOptions
    <2> DEFINE user == IF loc.skip \/ loc.template THEN Front(profiles) ELSE profiles
               last_ == [dp_init EXCEPT !.name = "no_action"]
               all == Append(user, last_)
    <2>1. ~exit_clean => /\ profiles' = [i \in 1 .. Len(all) |-> filter_defaults(all[i])]
                         /\ templates' = <<>> /\ phase' = "run"
                         /\ UNCHANGED <<cmdline, argv, loc, glob>>
      BY <1>15 DEF EndOfOptions
    <2>2. IsProfile(last_)
      BY NewProfileIs DEF IsProfile, dp_init
    <2> HIDE DEF last_
    <2>3. IsSeq(user) /\ \A i \in DOMAIN user : IsProfile(user[i])
      BY <1>0, SeqFront DEF ProfilesInv
    <2> HIDE DEF user
    <2>4. ProfilesInv(all) /\ all[Len(all)] = last_ /\ Len(all) \in Nat /\ Len(all) > 0
      BY <2>2, <2>3, SeqAppend, SeqIs DEF ProfilesInv
    <2>5. \A i \in 1 .. Len(all) : IsProfile(all[i])
      BY <2>4, SeqIs DEF ProfilesInv
    <2> HIDE DEF all
    <2>6. \A i \in 1 .. Len(all) : IsProfile(filter_defaults(all[i]))
      BY <2>5, DefaultsIs
    <2> DEFINE S == {filter_defaults(all[i]) : i \in 1 .. Len(all)}
    <2>7. ASSUME ~exit_clean PROVE ProfilesInv(profiles') /\ profiles'[Len(profiles')] = DefaultProfile
      <3>1. profiles' \in Seq(S) /\ Len(profiles') = Len(all)
        BY <2>1, <2>4, <2>7
      <3>2. \A i \in 1 .. Len(all) : profiles'[i] = filter_defaults(all[i])
        BY <2>1, <2>7
      <3>3. profiles'[Len(profiles')] = filter_defaults(last_)
        BY <2>4, <3>1, <3>2
      <3>4. IsSeq(profiles') /\ DOMAIN profiles' = 1 .. Len(all) /\ profiles' # <<>>
        <4>1. IsSeq(profiles')
          BY <3>1 DEF IsSeq
        <4>2. DOMAIN profiles' = 1 .. Len(all)
          BY <3>1, <4>1, SeqIs
        <4> QED BY <2>4, <3>1, <4>1, <4>2
      <3>5. ProfilesInv(profiles')
        BY <2>6, <3>2, <3>4 DEF ProfilesInv
      <3> QED BY <3>3, <3>5 DEF DefaultProfile, last_
    <2> QED BY <1>1, <2>1, <2>7, EmptyIsSeq DEF CfgInv, ProfilesInv
  <1> QED BY <1>2, <1>3, <1>4, <1>5, <1>6, <1>7, <1>8, <1>9, <1>10, <1>11, <1>12, <1>13, <1>14, <1>15
          DEF CfgNext

-----------------------------------------------------------------------------
(* Options come first, then packets                                        *)

LEMMA ConfigureFirst == ASSUME Configure PROVE phase # "run"
  <1>1. CASE BadOption
    BY <1>1, SMTT(30) DEF BadOption
  <1>2. CASE GlobalOption \/ ListOption \/ ItemsOption \/ AutoOption
    BY <1>2 DEF GlobalOption, ListOption, ItemsOption, AutoOption, Option
  <1>3. CASE FailValueOption \/ FilterOption \/ InProfileOption \/ LuaDesyncOption
    BY <1>3 DEF FailValueOption, FilterOption, InProfileOption, LuaDesyncOption, Option
  <1>4. CASE NewOption
    BY <1>4 DEF NewOption, Option
  <1>5. CASE SkipOption \/ NameOption
    BY <1>5 DEF SkipOption, NameOption, Option
  <1>6. CASE ImportOption
    BY <1>6 DEF ImportOption, Option
  <1>7. CASE EndOfOptions
    BY <1>7 DEF EndOfOptions
  <1> QED BY <1>1, <1>2, <1>3, <1>4, <1>5, <1>6, <1>7 DEF Configure, CfgNext

QuietInv == phase # "run" => ct = NoEntry /\ held = <<>> /\ replaying = <<>> /\ ~last.missed

LEMMA CfgStep ==
    ASSUME QuietInv, CfgInv, [Next]_vars
    PROVE  /\ QuietInv' /\ CfgInv' /\ (phase = "run" => UNCHANGED cfgVars)
           /\ CfgNext \/ UNCHANGED cfgVars
  <1>1. CASE Configure
    BY <1>1, ConfigureFirst, CfgNextInv DEF Configure, QuietInv, flowVars
  <1>2. CASE ~Configure
    <2>1. UNCHANGED cfgVars /\ (phase = "run" \/ UNCHANGED vars)
      <3>1. ASSUME NEW p, FlowPacket(p) \/ UntrackedPacket(p) PROVE UNCHANGED cfgVars /\ phase = "run"
        BY <3>1 DEF FlowPacket, UntrackedPacket, Arrives, Ready, Counted
      <3>2. ASSUME NEW h, NEW i, HelloPart(h, i) \/ HelloRest(i) PROVE UNCHANGED cfgVars /\ phase = "run"
        BY <3>2 DEF HelloPart, HelloRest, Arrives, Ready, Counted
      <3>3. ASSUME NEW s, RelatedIcmp(s) PROVE UNCHANGED cfgVars /\ phase = "run"
        BY <3>3 DEF RelatedIcmp, OtherArrives, Ready, OtherCounted
      <3>4. ASSUME NEW l4, NEW s, NEW d, NEW dir, OtherPacket(l4, s, d, dir)
            PROVE  UNCHANGED cfgVars /\ phase = "run"
        BY <3>4 DEF OtherPacket, OtherArrives, Ready, OtherCounted
      <3>5. ASSUME NEW h, NEW as, DnsResponse(h, as) PROVE UNCHANGED cfgVars /\ phase = "run"
        BY <3>5 DEF DnsResponse, OtherArrives, Ready, OtherCounted
      <3>6. CASE Replay \/ Tick \/ PurgeEntry
        BY <3>6 DEF Replay, Tick, PurgeEntry, Ready, QuietInv
      <3>7. CASE UNCHANGED vars
        BY <3>7 DEF vars
      <3> QED BY <1>2, <3>1, <3>2, <3>3, <3>4, <3>5, <3>6, <3>7 DEF Next
    <2>2. CfgInv'
      BY <2>1 DEF CfgInv, cfgVars
    <2>3. phase' = phase
      BY <2>1 DEF cfgVars
    <2>4. QuietInv'
      BY <2>1, <2>3 DEF QuietInv, vars, flowVars
    <2> QED BY <2>1, <2>2, <2>4
  <1> QED BY <1>1, <1>2

-----------------------------------------------------------------------------
(* The ip cache                                                            *)

ItemFields == {"last", "host", "is_ip", "ttl"}

\* The cache c at time t, with lifetime life and names kept if on is TRUE: nothing is
\* out of date, and a name is the one that p has for its address, put when p says.
GoodCache(c, p, on, life, t) ==
    /\ \A k \in DOMAIN c :
         /\ DOMAIN c[k] = ItemFields /\ c[k].last \in Nat
         /\ life = 0 \/ t < c[k].last + life
         /\ on \/ c[k].host = NoHost
    /\ \A a \in Addrs : Key(a, NoIface) \in DOMAIN c /\ c[Key(a, NoIface)].host # NoHost =>
         c[Key(a, NoIface)].host = p[a].host /\ c[Key(a, NoIface)].last = p[a].t

Life == glob.ipcache_lifetime
On == glob.ipcache_hostname

\* The cache is good, as of now if it was purged in this second.
CacheInv ==
    /\ now \in Nat /\ purge_prev \in Nat /\ purge_prev <= now
    /\ DOMAIN puts = Addrs
    /\ phase # "run" => ipcache = EmptyCache
    /\ GoodCache(ipcache, puts, On, IF purge_prev = now THEN Life ELSE 0, now)
    /\ last.fresh

LEMMA PurgedIsGood ==
    ASSUME CacheInv, CfgInv
    PROVE  GoodCache(purged, puts, On, Life, now)
  <1>1. CASE purge_prev = now
    BY <1>1 DEF CacheInv, purged
  <1>2. CASE purge_prev # now
    <2>1. GoodCache(ipcache, puts, On, 0, now)
      BY <1>2 DEF CacheInv
    <2> DEFINE keep == {k \in DOMAIN ipcache : now < ipcache[k].last + Life}
    <2>2. purged = IF Life = 0 THEN ipcache ELSE Restrict(ipcache, keep)
      BY <1>2 DEF purged, ipcache_purge, Life
    <2>3. CASE Life = 0
      BY <2>1, <2>2, <2>3
    <2>4. CASE Life # 0
      <3>1. DOMAIN purged = keep /\ \A k \in keep : purged[k] = ipcache[k]
        BY <2>2, <2>4 DEF Restrict
      <3>2. keep \subseteq DOMAIN ipcache /\ \A k \in keep : now < ipcache[k].last + Life
        OBVIOUS
      <3> HIDE DEF keep
      <3> QED BY <2>1, <3>1, <3>2 DEF GoodCache
    <2> QED BY <2>3, <2>4
  <1> QED BY <1>1, <1>2

\* d is c with an item written at w, of the moment t
Written(c, d, w, t) ==
    /\ DOMAIN d = DOMAIN c \cup {w} /\ \A k \in DOMAIN c : k # w => d[k] = c[k]
    /\ DOMAIN d[w] = ItemFields /\ d[w].last = t

\* what q says of the name at w, if it says the same as p of the others
Recorded(d, w, p, q, t) ==
    \A a \in Addrs : /\ Key(a, NoIface) # w => q[a] = p[a]
                     /\ Key(a, NoIface) = w /\ d[w].host # NoHost => d[w].host = q[a].host /\ t = q[a].t

LEMMA WriteIsGood ==
    ASSUME NEW c, NEW p, NEW q, NEW on, NEW life \in Nat, NEW t \in Nat, GoodCache(c, p, on, life, t),
           NEW w, NEW d, Written(c, d, w, t), Recorded(d, w, p, q, t), on \/ d[w].host = NoHost
    PROVE  GoodCache(d, q, on, life, t)
  <1>1. ASSUME NEW k \in DOMAIN d
        PROVE  /\ DOMAIN d[k] = ItemFields /\ d[k].last \in Nat
               /\ life = 0 \/ t < d[k].last + life
               /\ on \/ d[k].host = NoHost
    <2>1. CASE k = w
      BY <2>1 DEF Written
    <2>2. CASE k # w
      BY <2>2 DEF GoodCache, Written
    <2> QED BY <2>1, <2>2
  <1>2. ASSUME NEW a \in Addrs, Key(a, NoIface) \in DOMAIN d, d[Key(a, NoIface)].host # NoHost
        PROVE  d[Key(a, NoIface)].host = q[a].host /\ d[Key(a, NoIface)].last = q[a].t
    <2>1. CASE Key(a, NoIface) = w
      BY <1>2, <2>1 DEF Written, Recorded
    <2>2. CASE Key(a, NoIface) # w
      BY <1>2, <2>2 DEF GoodCache, Written, Recorded
    <2> QED BY <2>1, <2>2
  <1> QED BY <1>1, <1>2 DEF GoodCache

LEMMA FoundItem ==
    ASSUME NEW c, NEW p, NEW on, NEW life, NEW t, GoodCache(c, p, on, life, t), NEW a, NEW i
    PROVE  /\ DOMAIN ipcacheFind(c, a, i) = ItemFields
           /\ on \/ ipcacheFind(c, a, i).host = NoHost
  BY DEF ipcacheFind, GoodCache, ipcache_item_init, ItemFields

\* What a touch leaves.
LEMMA TouchIs ==
    ASSUME NEW c, NEW a, NEW i, NEW t, DOMAIN ipcacheFind(c, a, i) = ItemFields,
           NEW d, d = ipcacheTouch(c, a, i, t), NEW k, k = Key(a, i)
    PROVE  Written(c, d, k, t) /\ d[k].host = ipcacheFind(c, a, i).host
  <1> DEFINE x == ipcacheFind(c, a, i)
  <1>1. d = [j \in DOMAIN c \cup {k} |-> IF j = k THEN [x EXCEPT !.last = t] ELSE c[j]]
    BY DEF ipcacheTouch
  <1> HIDE DEF x
  <1>2. /\ DOMAIN [x EXCEPT !.last = t] = ItemFields
        /\ [x EXCEPT !.last = t].last = t /\ [x EXCEPT !.last = t].host = x.host
    BY DEF ItemFields, x
  <1>3. DOMAIN d = DOMAIN c \cup {k} /\ d[k] = [x EXCEPT !.last = t] /\ \A j \in DOMAIN c : j # k => d[j] = c[j]
    BY <1>1
  <1> QED BY <1>2, <1>3 DEF x, Written

\* ipcache_put_hostname with names kept
PutName(c, a, host, is_ip, t) ==
    LET touched == ipcacheTouch(c, a, NoIface, t)
        k == Key(a, NoIface)
    IN  IF touched[k].host = host THEN touched
        ELSE [touched EXCEPT ![k].host = host, ![k].is_ip = is_ip]

LEMMA PutNameIs ==
    ASSUME NEW c, NEW p, NEW on, NEW life, NEW t, GoodCache(c, p, on, life, t), NEW a, NEW h, NEW ip,
           NEW d, d = PutName(c, a, h, ip, t), NEW k, k = Key(a, NoIface)
    PROVE  Written(c, d, k, t) /\ d[k].host = h
  <1> DEFINE e == ipcacheTouch(c, a, NoIface, t)
  <1>1. DOMAIN ipcacheFind(c, a, NoIface) = ItemFields
    BY FoundItem
  <1>2. Written(c, e, k, t)
    BY <1>1, TouchIs
  <1>3. d = IF e[k].host = h THEN e ELSE [e EXCEPT ![k].host = h, ![k].is_ip = ip]
    BY DEF PutName
  <1> HIDE DEF e
  <1>4. CASE e[k].host = h
    BY <1>2, <1>3, <1>4
  <1>5. CASE e[k].host # h
    <2>1. d = [e EXCEPT ![k] = [e[k] EXCEPT !.host = h, !.is_ip = ip]]
      BY <1>3, <1>5
    <2> DEFINE y == [e[k] EXCEPT !.host = h, !.is_ip = ip]
    <2>2. DOMAIN y = ItemFields /\ y.last = t /\ y.host = h
      BY <1>2 DEF ItemFields, Written
    <2> HIDE DEF y
    <2>3. d = [e EXCEPT ![k] = y]
      BY <2>1 DEF y
    <2>4. DOMAIN e = DOMAIN c \cup {k} /\ \A j \in DOMAIN c : j # k => e[j] = c[j]
      BY <1>2 DEF Written
    <2> QED BY <2>2, <2>3, <2>4 DEF Written
  <1> QED BY <1>4, <1>5

LEMMA PutIsGood ==
    ASSUME NEW c, NEW p, NEW life \in Nat, NEW t \in Nat, NEW on, GoodCache(c, p, on, life, t),
           NEW a \in Addrs, NEW h, NEW ip, DOMAIN p = Addrs
    PROVE  GoodCache(ipcache_put_hostname(c, on, a, h, ip, t), [p EXCEPT ![a] = [host |-> h, t |-> t]], on, life, t)
  <1> DEFINE k == Key(a, NoIface)
             d == ipcache_put_hostname(c, on, a, h, ip, t)
             q == [p EXCEPT ![a] = [host |-> h, t |-> t]]
  <1>1. CASE ~on
    <2>1. d = c
      BY <1>1 DEF ipcache_put_hostname
    <2>2. \A j \in DOMAIN c : c[j].host = NoHost
      BY <1>1 DEF GoodCache
    <2> QED BY <2>1, <2>2 DEF GoodCache
  <1>2. CASE on
    <2>2. q[a].host = h /\ q[a].t = t /\ \A b \in Addrs : b # a => q[b] = p[b]
      OBVIOUS
    <2>3. \A b \in Addrs : Key(b, NoIface) = k => b = a
      BY DEF Key
    <2>4. Written(c, d, k, t) /\ d[k].host = h
      <3>1. d = PutName(c, a, h, ip, t)
        BY <1>2 DEF ipcache_put_hostname, PutName
      <3> QED BY <3>1, PutNameIs
    <2> HIDE DEF d, q
    <2>5. \A b \in Addrs : Key(b, NoIface) # k => q[b] = p[b]
      BY <2>2
    <2> HIDE DEF k
    <2>6. Recorded(d, k, p, q, t)
      BY <2>2, <2>3, <2>4, <2>5 DEF Recorded
    <2>7. GoodCache(d, q, on, life, t)
      BY <1>2, <2>4, <2>6, WriteIsGood
    <2> QED BY <2>7 DEF d, q
  <1> QED BY <1>1, <1>2

LEMMA TtlIsGood ==
    ASSUME NEW c, NEW p, NEW life \in Nat, NEW t \in Nat, NEW on, GoodCache(c, p, on, life, t),
           NEW a, NEW i \in Ifaces, NEW ttl
    PROVE  GoodCache(ipcache_update_ttl(c, a, i, ttl, t), p, on, life, t)
  <1> DEFINE k == Key(a, i)
             x == ipcacheFind(c, a, i)
             e == ipcacheTouch(c, a, i, t)
             d == ipcache_update_ttl(c, a, i, ttl, t)
  <1>1. DOMAIN x = ItemFields /\ (on \/ x.host = NoHost)
    BY FoundItem
  <1>2. Written(c, e, k, t) /\ e[k].host = x.host
    BY <1>1, TouchIs
  <1>3. d = [e EXCEPT ![k].ttl = ttl]
    BY DEF ipcache_update_ttl
  <1>4. \A b \in Addrs : Key(b, NoIface) # k
    BY DesyncAssumption DEF Key
  <1> HIDE DEF e, x, k, d
  <1>5. Written(c, d, k, t) /\ d[k].host = x.host
    BY <1>2, <1>3 DEF ItemFields, Written
  <1>6. GoodCache(d, p, on, life, t)
    <2>1. Recorded(d, k, p, p, t)
      BY <1>4 DEF Recorded
    <2> QED BY <1>1, <1>5, <2>1, WriteIsGood
  <1> QED BY <1>6 DEF d

\* What is asked of a good cache is fresh.
LEMMA FoundIsFresh ==
    ASSUME NEW c, GoodCache(c, puts, On, Life, now), NEW a \in Addrs
    PROVE  IsFresh(ipcache_get_hostname(c, glob.ipcache_hostname, a), a)
  <1>1. CASE On /\ Key(a, NoIface) \in DOMAIN c
    BY <1>1 DEF IsFresh, ipcache_get_hostname, ipcacheFind, GoodCache, On, Life
  <1>2. CASE ~(On /\ Key(a, NoIface) \in DOMAIN c)
    <2>1. ipcache_get_hostname(c, glob.ipcache_hostname, a) = ipcache_item_init(0)
      BY <1>2 DEF ipcache_get_hostname, ipcacheFind, On
    <2> QED BY <2>1 DEF IsFresh, ipcache_item_init
  <1> QED BY <1>1, <1>2

LEMMA DnsIsGood ==
    ASSUME NEW h, NEW as \in SUBSET Addrs, CacheInv, CfgInv, DnsResponse(h, as)
    PROVE  GoodCache(ipcache', puts', On, Life, now)
  <1> DEFINE K == {Key(a, NoIface) : a \in as}
             put(a) == ipcache_put_hostname(purged, On, a, h, FALSE, now)
  <1>1. /\ ipcache' = [k \in DOMAIN purged \cup K |-> IF k \in K THEN put(k[1])[k] ELSE purged[k]]
        /\ puts' = [a \in Addrs |-> IF a \in as THEN [host |-> h, t |-> now] ELSE puts[a]]
        /\ On
    BY DEF DnsResponse, On
  <1>2. GoodCache(purged, puts, On, Life, now) /\ now \in Nat /\ Life \in Nat
    BY PurgedIsGood DEF CacheInv, CfgInv, Life
  <1>3. ASSUME NEW a \in as PROVE Written(purged, put(a), Key(a, NoIface), now) /\ put(a)[Key(a, NoIface)].host = h
    <2> DEFINE no == FALSE
               d == PutName(purged, a, h, no, now)
               k == Key(a, NoIface)
    <2>1. put(a) = d
      BY <1>1 DEF ipcache_put_hostname, PutName
    <2> HIDE DEF no
    <2>2. Written(purged, d, k, now) /\ d[k].host = h
      BY <1>2, PutNameIs
    <2> QED BY <2>1, <2>2
  <1>4. \A a \in as : /\ DOMAIN put(a)[Key(a, NoIface)] = ItemFields
                      /\ put(a)[Key(a, NoIface)].last = now /\ put(a)[Key(a, NoIface)].host = h
    BY <1>3 DEF Written
  <1>5. \A a \in as : Key(a, NoIface) \in K /\ Key(a, NoIface)[1] = a
    BY DEF Key
  <1>6. \A k \in K : \E a \in as : k = Key(a, NoIface) /\ k[1] = a
    BY <1>5
  <1>7. \A a \in Addrs : Key(a, NoIface) \in K => a \in as
    BY DEF Key
  <1> HIDE DEF put, K
  <1>8. \A k \in K : ipcache'[k] = put(k[1])[k]
    BY <1>1
  <1>9. \A k \in K : DOMAIN ipcache'[k] = ItemFields /\ ipcache'[k].last = now /\ ipcache'[k].host = h
    <2> SUFFICES ASSUME NEW k \in K
                 PROVE  DOMAIN ipcache'[k] = ItemFields /\ ipcache'[k].last = now /\ ipcache'[k].host = h
      OBVIOUS
    <2>1. PICK a \in as : k = Key(a, NoIface) /\ k[1] = a
      BY <1>6
    <2>2. ipcache'[k] = put(a)[Key(a, NoIface)]
      BY <1>8, <2>1
    <2> QED BY <1>4, <2>2
  <1>10. \A k \in DOMAIN purged : k \notin K => ipcache'[k] = purged[k]
    BY <1>1
  <1>11. DOMAIN ipcache' = DOMAIN purged \cup K
    BY <1>1
  <1>12. \A a \in Addrs : IF a \in as THEN puts'[a].host = h /\ puts'[a].t = now ELSE puts'[a] = puts[a]
    BY <1>1
  <1>13. \A a \in Addrs : Key(a, NoIface) \in K <=> a \in as
    BY <1>5, <1>7
  <1>14. ASSUME NEW k \in DOMAIN ipcache'
         PROVE  /\ DOMAIN ipcache'[k] = ItemFields /\ ipcache'[k].last \in Nat
                /\ Life = 0 \/ now < ipcache'[k].last + Life
                /\ On \/ ipcache'[k].host = NoHost
    <2>1. CASE k \in K
      BY <1>1, <1>2, <1>9, <2>1
    <2>2. CASE k \notin K
      BY <1>2, <1>10, <1>11, <2>2 DEF GoodCache
    <2> QED BY <2>1, <2>2
  <1>15. ASSUME NEW a \in Addrs, Key(a, NoIface) \in DOMAIN ipcache', ipcache'[Key(a, NoIface)].host # NoHost
         PROVE  ipcache'[Key(a, NoIface)].host = puts'[a].host /\ ipcache'[Key(a, NoIface)].last = puts'[a].t
    <2>1. CASE a \in as
      BY <1>9, <1>12, <1>13, <2>1
    <2>2. CASE a \notin as
      BY <1>2, <1>10, <1>11, <1>12, <1>13, <1>15, <2>2 DEF GoodCache
    <2> QED BY <2>1, <2>2
  <1> QED BY <1>14, <1>15 DEF GoodCache

LEMMA CacheHostGood ==
    ASSUME NEW c, NEW life \in Nat, GoodCache(c, puts, On, life, now), now \in Nat, DOMAIN puts = Addrs, NEW e, NEW h
    PROVE  GoodCache(CacheHost(c, e, h), PutHost(e, h), On, life, now) /\ DOMAIN PutHost(e, h) = Addrs
  <1>1. CASE h.name # NoHost /\ ~e.hostdisc
    <2>1. GoodCache(ipcache_put_hostname(c, On, Target, h.name, h.is_ip, now),
                    [puts EXCEPT ![Target] = [host |-> h.name, t |-> now]], On, life, now)
      BY PutIsGood, DesyncAssumption
    <2> QED BY <1>1, <2>1 DEF CacheHost, PutHost, On
  <1>2. CASE ~(h.name # NoHost /\ ~e.hostdisc)
    BY <1>2 DEF CacheHost, PutHost
  <1> QED BY <1>1, <1>2

LEMMA CacheTtlGood ==
    ASSUME CacheInv, CfgInv, NEW c, NEW p, p.iface \in Ifaces
    PROVE  GoodCache(CacheTtl(c, p), puts, On, Life, now)
  <1>1. GoodCache(purged, puts, On, Life, now) /\ now \in Nat /\ Life \in Nat
    BY PurgedIsGood DEF CacheInv, CfgInv, Life
  <1>2. GoodCache(ipcache_update_ttl(purged, Target, p.iface, c.ttl, now), puts, On, Life, now)
    BY <1>1, TtlIsGood
  <1> QED BY <1>1, <1>2 DEF CacheTtl

\* What a packet leaves: the cache as of now.
LEMMA PacketCache ==
    ASSUME CacheInv, CfgInv, phase = "run", UNCHANGED <<cfgVars, now>>, purge_prev' = now, DOMAIN puts' = Addrs,
           GoodCache(ipcache', puts', On, Life, now), last'.fresh
    PROVE  CacheInv'
  <1>1. On' = On /\ Life' = Life /\ now' = now /\ phase' = "run"
    BY DEF On, Life, cfgVars
  <1>2. GoodCache(ipcache', puts', On', Life', now')
    BY <1>1
  <1>3. now' \in Nat /\ purge_prev' \in Nat /\ purge_prev' <= now' /\ purge_prev' = now'
    BY <1>1 DEF CacheInv
  <1>4. (GoodCache(ipcache, puts, On, IF purge_prev = now THEN Life ELSE 0, now))'
    BY <1>2, <1>3
  <1> QED BY <1>1, <1>3, <1>4 DEF CacheInv

LEMMA RunIsFresh ==
    ASSUME NEW c, NEW d, NEW dir, NEW pos, NEW pl, NEW late, NEW fresh, RunDesync(c, d, dir, pos, pl, late, fresh)
    PROVE  last'.fresh = fresh
  BY DEF RunDesync

LEMMA RediscoveredIsFresh ==
    ASSUME NEW c, NEW d, NEW h, NEW dir, NEW pos, NEW pl, NEW late, NEW fresh,
           Rediscovered(c, d, h, dir, pos, pl, late, fresh)
    PROVE  last'.fresh = fresh /\ puts' = PutHost(c, h)
  BY RunIsFresh DEF Rediscovered

LEMMA CacheStep ==
    ASSUME CacheInv, QuietInv, CfgInv, [Next]_vars
    PROVE  CacheInv'
  <1>0. /\ now \in Nat /\ Life \in Nat /\ DOMAIN puts = Addrs /\ GoodCache(purged, puts, On, Life, now)
    BY PurgedIsGood DEF CacheInv, CfgInv, Life
  <1>1. CASE UNCHANGED vars
    BY <1>1 DEF vars, cfgVars, flowVars, CacheInv, On, Life
  <1>2. CASE Configure
    <2>1. phase # "run"
      BY <1>2, ConfigureFirst
    <2>2. ipcache = EmptyCache /\ UNCHANGED <<ipcache, purge_prev, now, puts, last>>
      BY <1>2, <2>1 DEF Configure, CacheInv
    <2>3. DOMAIN ipcache' = {}
      BY <2>2 DEF EmptyCache
    <2>4. (GoodCache(ipcache, puts, On, IF purge_prev = now THEN Life ELSE 0, now))'
      BY <2>3 DEF GoodCache
    <2> QED BY <2>2, <2>4 DEF CacheInv
  <1>3. ASSUME NEW p \in FlowPackets, FlowPacket(p)
        PROVE  CacheInv'
    <2> DEFINE c == play_prolog(Fed(p), p)
               c2 == [c EXCEPT !.l7 = Probe(@, p.pl)]
               c3 == dp_rediscovery(c2, p.h)
               fresh == Cached(Fed(p), p) => IsFresh(ipcache_get_hostname(purged, glob.ipcache_hostname, Target), Target)
    <2>1. /\ phase = "run" /\ UNCHANGED <<cfgVars, now>> /\ purge_prev' = now
          /\ Rediscovered(c2, c3, p.h, Dir(p.side), PosOf(c, p.side), p.pl, FALSE, fresh)
          /\ ipcache' = CacheHost(CacheTtl(c, p), c2, p.h)
      BY <1>3 DEF FlowPacket, PlayTcp, Arrives, Ready, Counted
    <2>2. fresh
      BY <1>0, FoundIsFresh, DesyncAssumption
    <2>3. p.iface \in Ifaces
      BY DEF FlowPackets, Pkt
    <2> HIDE DEF c, c2, c3, fresh
    <2>4. GoodCache(CacheTtl(c, p), puts, On, Life, now)
      BY <2>3, CacheTtlGood
    <2> DEFINE k == CacheTtl(c, p)
    <2> HIDE DEF k
    <2>5. GoodCache(CacheHost(k, c2, p.h), PutHost(c2, p.h), On, Life, now) /\ DOMAIN PutHost(c2, p.h) = Addrs
      BY <1>0, <2>4, CacheHostGood DEF k
    <2>6. last'.fresh /\ puts' = PutHost(c2, p.h)
      BY <2>1, <2>2, RediscoveredIsFresh
    <2>7. GoodCache(ipcache', puts', On, Life, now) /\ DOMAIN puts' = Addrs
      BY <2>1, <2>5, <2>6 DEF k
    <2> QED BY <2>1, <2>6, <2>7, PacketCache
  <1>4. ASSUME NEW p \in FlowPackets, UntrackedPacket(p)
        PROVE  CacheInv'
    <2> DEFINE c1 == [NoEntry EXCEPT !.dp = Find(NoHost, FALSE, "unknown"), !.l7 = Probe("unknown", p.pl)]
               c2 == dp_rediscovery(c1, p.h)
    <2>1. /\ phase = "run" /\ UNCHANGED <<cfgVars, now, puts>> /\ purge_prev' = now /\ ipcache' = purged
          /\ \/ last' = [missed |-> FALSE, fresh |-> TRUE]
             \/ RunDesync(c2, c2.dp, Dir(p.side), NoPos, p.pl, FALSE, TRUE)
      BY <1>4 DEF UntrackedPacket, Arrives, Ready, Counted
    <2> HIDE DEF c1, c2
    <2>2. last'.fresh
      <3>1. CASE RunDesync(c2, c2.dp, Dir(p.side), NoPos, p.pl, FALSE, TRUE)
        BY <3>1 DEF RunDesync
      <3>2. CASE last' = [missed |-> FALSE, fresh |-> TRUE]
        BY <3>2
      <3> QED BY <2>1, <3>1, <3>2
    <2> QED BY <1>0, <2>1, <2>2, PacketCache
  <1>5. ASSUME NEW h \in Hosts, NEW i \in Ifaces, HelloPart(h, i)
        PROVE  CacheInv'
    <2>1. \E p, c : /\ phase = "run" /\ UNCHANGED <<cfgVars, now, puts>> /\ purge_prev' = now
                    /\ ipcache' = CacheTtl(c, p) /\ p.iface = i
                    /\ last' = [missed |-> FALSE, fresh |-> TRUE]
      BY <1>5 DEF HelloPart, Arrives, Ready, Counted, Pkt
    <2>2. GoodCache(ipcache', puts', On, Life, now)
      BY <2>1, CacheTtlGood
    <2> QED BY <1>0, <2>1, <2>2, PacketCache
  <1>6. ASSUME NEW i \in Ifaces, HelloRest(i)
        PROVE  CacheInv'
    <2>1. \E p, c : /\ phase = "run" /\ UNCHANGED <<cfgVars, now, puts>> /\ purge_prev' = now
                    /\ ipcache' = CacheTtl(c, p) /\ p.iface = i
                    /\ last' = [missed |-> FALSE, fresh |-> TRUE]
      BY <1>6 DEF HelloRest, Arrives, Ready, Counted, Pkt
    <2>2. GoodCache(ipcache', puts', On, Life, now)
      BY <2>1, CacheTtlGood
    <2> QED BY <1>0, <2>1, <2>2, PacketCache
  <1>7. CASE Replay
    <2> DEFINE q == Head(replaying)
               d == dp_rediscovery(ct, hello)
               life == IF purge_prev = now THEN Life ELSE 0
    <2>1. /\ UNCHANGED <<cfgVars, now, purge_prev>>
          /\ Rediscovered(ct, d, hello, Dir("client"), q, "tls_client_hello", q.late, TRUE)
          /\ ipcache' = CacheHost(ipcache, ct, hello)
      BY <1>7 DEF Replay
    <2> HIDE DEF q, d
    <2>2. life \in Nat /\ GoodCache(ipcache, puts, On, life, now)
      BY <1>0 DEF CacheInv
    <2> HIDE DEF life
    <2>3. GoodCache(CacheHost(ipcache, ct, hello), PutHost(ct, hello), On, life, now) /\ DOMAIN PutHost(ct, hello) = Addrs
      BY <1>0, <2>2, CacheHostGood
    <2>4. last'.fresh /\ puts' = PutHost(ct, hello)
      BY <2>1, RediscoveredIsFresh
    <2>5. GoodCache(ipcache', puts', On, life, now) /\ DOMAIN puts' = Addrs
      BY <2>1, <2>3, <2>4
    <2>6. On' = On /\ Life' = Life /\ now' = now /\ purge_prev' = purge_prev /\ phase' = phase
      BY <2>1 DEF On, Life, cfgVars
    <2>7. (GoodCache(ipcache, puts, On, IF purge_prev = now THEN Life ELSE 0, now))'
      BY <2>5, <2>6 DEF life
    <2>8. phase = "run"
      BY <1>7 DEF QuietInv, Replay
    <2> QED BY <2>4, <2>5, <2>6, <2>7, <2>8 DEF CacheInv
  <1>8. ASSUME NEW s \in Sides, RelatedIcmp(s)
        PROVE  CacheInv'
    <2> DEFINE other == CHOOSE x \in Sides : x # s
    <2>1. /\ phase = "run" /\ UNCHANGED <<cfgVars, now, puts>> /\ purge_prev' = now /\ ipcache' = purged
          /\ RunDesync(ct, ct.dp, Dir(other), PosOf(ct, other), "ipv4", FALSE, TRUE)
      BY <1>8 DEF RelatedIcmp, OtherArrives, Ready, OtherCounted
    <2> HIDE DEF other
    <2>2. last'.fresh
      BY <2>1, RunIsFresh
    <2> QED BY <1>0, <2>1, <2>2, PacketCache
  <1>9. ASSUME NEW l4 \in {"icmp", "gre"}, NEW s \in Addrs, NEW d \in Addrs, NEW dir \in Dirs,
               OtherPacket(l4, s, d, dir)
        PROVE  CacheInv'
    <2> DEFINE at(x) == ipcache_get_hostname(purged, glob.ipcache_hostname, x)
               a == IF at(d).host # NoHost THEN d ELSE s
               e == dp_find(lists, profiles,
                      [l3 |-> "ip4", l4 |-> l4, addrs |-> {s, d}, port |-> 0,
                       type |-> IF l4 = "icmp" THEN 8 ELSE 255, code |-> IF l4 = "icmp" THEN 0 ELSE 255,
                       host |-> at(a).host, nosub |-> at(a).is_ip, l7 |-> "unknown"])
               pl == IF l4 = "icmp" THEN "icmp" ELSE "unknown"
               no == FALSE
    <2>1. phase = "run" /\ UNCHANGED <<cfgVars, now, puts>> /\ purge_prev' = now /\ ipcache' = purged
      BY <1>9 DEF OtherPacket, OtherArrives, Ready, OtherCounted
    <2>2. RunDesync(NoEntry, e, dir, NoPos, pl, no, IsFresh(at(a), a))
      BY <1>9 DEF OtherPacket
    <2>3. a \in Addrs
      OBVIOUS
    <2> HIDE DEF a, e, pl, no
    <2>4. IsFresh(at(a), a)
      BY <1>0, <2>3, FoundIsFresh
    <2> DEFINE fresh == IsFresh(at(a), a)
    <2>5. RunDesync(NoEntry, e, dir, NoPos, pl, no, fresh) /\ fresh
      BY <2>2, <2>4
    <2> HIDE DEF at, fresh
    <2>6. last'.fresh
      BY <2>5, RunIsFresh
    <2> QED BY <1>0, <2>1, <2>6, PacketCache
  <1>10. ASSUME NEW h, NEW as \in SUBSET Addrs, DnsResponse(h, as)
         PROVE  CacheInv'
    <2>1. phase = "run" /\ UNCHANGED <<cfgVars, now, last>> /\ purge_prev' = now /\ DOMAIN puts' = Addrs
      BY <1>10 DEF DnsResponse, OtherArrives, Ready, OtherCounted
    <2>2. GoodCache(ipcache', puts', On, Life, now)
      BY <1>10, DnsIsGood
    <2>3. last'.fresh
      BY <2>1 DEF CacheInv
    <2> QED BY <2>1, <2>2, <2>3, PacketCache
  <1>11. CASE Tick
    <2>1. phase = "run" /\ now' = now + 1 /\ UNCHANGED <<cfgVars, ipcache, purge_prev, puts, last>>
      BY <1>11 DEF Tick
    <2>2. now' \in Nat /\ purge_prev' \in Nat /\ purge_prev' <= now' /\ purge_prev' # now'
      BY <2>1 DEF CacheInv
    <2>3. GoodCache(ipcache, puts, On, 0, now + 1)
      BY DEF CacheInv, GoodCache
    <2>4. On' = On /\ phase' = "run"
      BY <2>1 DEF On, cfgVars
    <2>5. (GoodCache(ipcache, puts, On, IF purge_prev = now THEN Life ELSE 0, now))'
      BY <2>1, <2>2, <2>3, <2>4
    <2> QED BY <2>1, <2>2, <2>4, <2>5 DEF CacheInv
  <1>12. CASE PurgeEntry
    <2>1. phase = "run" /\ UNCHANGED <<cfgVars, now, puts, last>> /\ purge_prev' = now /\ ipcache' = purged
      BY <1>12 DEF PurgeEntry, Ready
    <2>2. last'.fresh
      BY <2>1 DEF CacheInv
    <2> QED BY <1>0, <2>1, <2>2, PacketCache
  <1> QED BY <1>1, <1>2, <1>3, <1>4, <1>5, <1>6, <1>7, <1>8, <1>9, <1>10, <1>11, <1>12 DEF Next

LEMMA CacheStart ==
    ASSUME Init
    PROVE  CfgInv /\ QuietInv /\ CacheInv
  <1>1. CfgInv
    BY CfgInitInv DEF Init
  <1>2. QuietInv
    BY DEF Init, QuietInv
  <1>3. CacheInv
    BY DEF Init, CacheInv, GoodCache, EmptyCache
  <1> QED BY <1>1, <1>2, <1>3

\* A name that a packet takes from the ip cache is the one that was put last for the
\* address, and it was put less than the lifetime ago: a purge once in a second, and
\* packets that only refresh a TTL, keep no old name alive (ipcache_purge, ipcacheTouch).
THEOREM NamesAreFresh == Spec => []CacheIsFresh
  <1> DEFINE Inv == CfgInv /\ QuietInv /\ CacheInv
  <1>1. Init => Inv
    BY CacheStart
  <1>2. Inv /\ [Next]_vars => Inv'
    BY CfgStep, CacheStep
  <1>3. Inv => CacheIsFresh
    BY DEF CacheInv, CacheIsFresh
  <1> QED BY <1>1, <1>2, <1>3, PTL DEF Spec

-----------------------------------------------------------------------------
(* The search of a profile                                                 *)

LEMMA DefaultMatches ==
    ASSUME NEW q, q.l3 \in {"ip4", "ip6"}
    PROVE  dp_match(lists, DefaultProfile, q)
  <1> DEFINE d == DefaultProfile
  <1>1. /\ d.l3 = {"ip4", "ip6"} /\ d.pf_tcp = {} /\ d.pf_udp = {} /\ d.icf = {} /\ d.ipf = {}
        /\ d.filter_l7 = {} /\ d.hl = {} /\ d.hl_exclude = {} /\ d.ips = {} /\ d.ips_exclude = {}
    BY DEF DefaultProfile, filter_defaults, dp_init
  <1> HIDE DEF d
  <1>2. PROFILE_HOSTLISTS_EMPTY(lists, d) /\ IpsetCheck(lists, d, q.addrs)
    BY <1>1 DEF PROFILE_HOSTLISTS_EMPTY, IpsetCheck, AllEmpty
  <1>3. l4_match(d, q)
    BY <1>1 DEF l4_match, filters_match
  <1>4. q.l3 \in d.l3 /\ l7_match(q.l7, d.filter_l7)
    BY <1>1 DEF l7_match
  <1>5. dp_match(lists, d, q)
    BY <1>2, <1>3, <1>4 DEF dp_match
  <1> QED BY <1>5 DEF d

LEMMA LeastIs ==
    ASSUME NEW n \in Nat, NEW S, S \subseteq 1 .. n, S # {}
    PROVE  (CHOOSE i \in S : \A j \in S : i <= j) \in S
  <1> DEFINE R == OpToRel(<, Nat)
  <1>1. IsWellFoundedOn(R, Nat)
    BY ONLY NatLessThanWellFounded, Zenon
  <1>2. \A x, y \in Nat : x < y => <<x, y>> \in R
    BY DEF OpToRel
  <1> HIDE DEF R
  <1>3. S \subseteq Nat
    OBVIOUS
  <1>4. PICK x \in S : \A y \in S : ~(<<y, x>> \in R)
    BY <1>1, <1>3, WFMin
  <1>5. ASSUME NEW y \in S PROVE x <= y
    <2>1. x \in Nat /\ y \in Nat /\ ~(<<y, x>> \in R)
      BY <1>3, <1>4
    <2>2. ~(y < x)
      BY <1>2, <2>1, Zenon
    <2> QED BY <2>1, <2>2
  <1>6. \E i \in S : \A j \in S : i <= j
    BY <1>5
  <1> QED BY <1>6

\* While the program runs a search finds a profile, and that matches.
LEMMA FindIs ==
    ASSUME CfgInv, phase = "run", NEW q, q.l3 \in {"ip4", "ip6"}, NEW i, i = dp_find(lists, profiles, q)
    PROVE  i \in 1 .. Len(profiles) /\ dp_match(lists, profiles[i], q)
  <1> DEFINE match == {j \in 1 .. Len(profiles) : dp_match(lists, profiles[j], q)}
  <1>1. Len(profiles) \in Nat /\ Len(profiles) \in 1 .. Len(profiles)
    BY SeqIs DEF CfgInv, IsSeq
  <1>2. Len(profiles) \in match
    BY <1>1, DefaultMatches DEF CfgInv
  <1>3. i \in match
    BY <1>1, <1>2, LeastIs DEF dp_find
  <1> QED BY <1>3

-----------------------------------------------------------------------------
(* The profile of the entry                                                *)

TrackFields ==
    {"live", "st", "dp", "l7", "l7disc", "host", "is_ip", "hostdisc", "chk", "cutoff", "icut", "n", "d",
     "ttl", "idle", "script", "cached"}

\* what dp_find and the checks of hostlists go by, and what they found
SameCore(c, e) ==
    /\ e.dp = c.dp /\ e.l7 = c.l7 /\ e.host = c.host /\ e.is_ip = c.is_ip /\ e.hostdisc = c.hostdisc
    /\ e.chk = c.chk /\ e.cached = c.cached /\ (e.l7disc <=> c.l7disc)

\* An entry with a profile: a protocol was discovered before a hostname, and after
\* a hostname only a profile without hostlists has not been checked.
Based(c) ==
    /\ DOMAIN c = TrackFields /\ c.live
    /\ c.dp \in 1 .. Len(profiles)
    /\ c.l7disc => c.l7 # "unknown"
    /\ c.hostdisc => c.l7disc
    /\ c.hostdisc /\ c.chk = "none" => PROFILE_HOSTLISTS_EMPTY(lists, profiles[c.dp])

\* the profile is the one for what is known
Settled(c) ==
    ~c.cached =>
       /\ c.dp = Find(c.host, c.is_ip, c.l7)
       /\ c.chk # "none" => (c.chk = "pos") = HostlistCheck(lists, profiles[c.dp], c.host, c.is_ip)

\* a protocol is known that no search has been made for
Unsearched(c) == ~c.l7disc /\ c.l7 # "unknown"

ProfileInv ==
    /\ ct.live => Based(ct) /\ (Settled(ct) \/ (Unsearched(ct) /\ (held # <<>> \/ replaying # <<>>)))
    /\ held # <<>> \/ replaying # <<>> => ct.live /\ ct.l7 # "unknown"

LEMMA NewTrackIs ==
    /\ DOMAIN NewTrack = TrackFields /\ NewTrack.live /\ NewTrack.dp = 0 /\ NewTrack.l7 = "unknown"
    /\ ~NewTrack.l7disc /\ ~NewTrack.hostdisc /\ NewTrack.chk = "none" /\ ~NewTrack.cached
    /\ NewTrack.host = NoHost /\ NewTrack.is_ip = FALSE
  BY DEF NewTrack, TrackFields

LEMMA CoreKeeps ==
    ASSUME NEW c, NEW e, SameCore(c, e), DOMAIN e = TrackFields, e.live, Based(c)
    PROVE  Based(e) /\ (Settled(c) => Settled(e)) /\ (Unsearched(c) => Unsearched(e)) /\ e.l7 = c.l7
  <1>1. Based(e)
    BY DEF SameCore, Based
  <1>2. Settled(c) => Settled(e)
    BY DEF SameCore, Settled
  <1> QED BY <1>1, <1>2 DEF SameCore, Unsearched

\* A name that is no IP is searched as one that is none.
LEMMA FindNoIp ==
    ASSUME NEW h, NEW x, ~x, NEW l7
    PROVE  Find(h, x, l7) = Find(h, FALSE, l7)
  <1> DEFINE q == Query(h, x, l7)
             r == Query(h, FALSE, l7)
  <1>1. /\ q.l3 = r.l3 /\ q.l4 = r.l4 /\ q.addrs = r.addrs /\ q.port = r.port /\ q.type = r.type /\ q.code = r.code
        /\ q.host = r.host /\ q.l7 = r.l7 /\ (q.nosub <=> r.nosub)
    BY DEF Query
  <1> HIDE DEF q, r
  <1>2. ASSUME NEW d PROVE l4_match(d, q) <=> l4_match(d, r)
    BY <1>1 DEF l4_match
  <1>3. ASSUME NEW hl PROVE SearchHostList(hl, q.host, q.nosub) <=> SearchHostList(hl, r.host, r.nosub)
    BY <1>1 DEF SearchHostList
  <1>4. ASSUME NEW d PROVE HostlistCheck(lists, d, q.host, q.nosub) <=> HostlistCheck(lists, d, r.host, r.nosub)
    BY <1>3 DEF HostlistCheck, Excluded
  <1>5. ASSUME NEW d PROVE dp_match(lists, d, q) <=> dp_match(lists, d, r)
    BY <1>1, <1>2, <1>4 DEF dp_match
  <1>6. {i \in 1 .. Len(profiles) : dp_match(lists, profiles[i], q)}
        = {i \in 1 .. Len(profiles) : dp_match(lists, profiles[i], r)}
    BY <1>5
  <1>7. dp_find(lists, profiles, q) = dp_find(lists, profiles, r)
    <2> DEFINE first(S) == IF S = {} THEN 0 ELSE CHOOSE i \in S : \A j \in S : i <= j
               matches(k) == {i \in 1 .. Len(profiles) : dp_match(lists, profiles[i], k)}
    <2>1. dp_find(lists, profiles, q) = first(matches(q)) /\ dp_find(lists, profiles, r) = first(matches(r))
      BY DEF dp_find
    <2>2. matches(q) = matches(r)
      BY <1>6
    <2> HIDE DEF first, matches
    <2> QED BY <2>1, <2>2
  <1> QED BY <1>7 DEF Find, q, r

LEMMA QueryIs == \A h, x, l7 : Query(h, x, l7).l3 \in {"ip4", "ip6"} /\ Query(h, x, l7).host = h
                               /\ Query(h, x, l7).nosub = x
  BY DEF Query

\* The check that dp_find has done was of the hostlists of the profile it found.
LEMMA CheckDone ==
    ASSUME NEW q, NEW d, dp_match(lists, d, q), check_done(lists, d, q)
    PROVE  HostlistCheck(lists, d, q.host, q.nosub)
  BY DEF dp_match, check_done

-----------------------------------------------------------------------------
(* dp_rediscovery                                                          *)

\* A search for what is known leaves the profile for it.
LEMMA ResearchedIs ==
    ASSUME CfgInv, phase = "run", NEW c, DOMAIN c = TrackFields, c.live,
           NEW e, e = Researched(c, Query(c.host, c.is_ip, c.l7))
    PROVE  /\ DOMAIN e = TrackFields /\ e.live /\ e.dp \in 1 .. Len(profiles) /\ e.dp = Find(c.host, c.is_ip, c.l7)
           /\ e.l7 = c.l7 /\ e.l7disc = c.l7disc /\ e.host = c.host /\ e.is_ip = c.is_ip
           /\ e.hostdisc = c.hostdisc /\ e.cached = c.cached
           /\ e.chk = "none" \/ (e.chk = "pos" /\ HostlistCheck(lists, profiles[e.dp], c.host, c.is_ip))
  <1> DEFINE q == Query(c.host, c.is_ip, c.l7)
             found == dp_find(lists, profiles, q)
             b == IF found # c.dp THEN dp_changed(c) ELSE c
             chk == IF check_done(lists, profiles[found], q) THEN "pos" ELSE "none"
  <1>1. found = Find(c.host, c.is_ip, c.l7) /\ q.host = c.host /\ q.nosub = c.is_ip /\ q.l3 \in {"ip4", "ip6"}
    BY QueryIs DEF Find
  <1>2. found \in 1 .. Len(profiles) /\ dp_match(lists, profiles[found], q)
    BY <1>1, FindIs
  <1>3. e = [b EXCEPT !.dp = found, !.chk = chk]
    BY DEF Researched
  <1>4. chk = "none" \/ (chk = "pos" /\ HostlistCheck(lists, profiles[found], c.host, c.is_ip))
    <2> HIDE DEF q, found
    <2>1. CASE check_done(lists, profiles[found], q)
      BY <1>1, <1>2, <2>1, CheckDone
    <2>2. CASE ~check_done(lists, profiles[found], q)
      BY <2>2
    <2> QED BY <2>1, <2>2
  <1> HIDE DEF q, found, chk
  <1>5. /\ DOMAIN b = TrackFields /\ b.live = c.live
        /\ b.l7 = c.l7 /\ b.l7disc = c.l7disc /\ b.host = c.host /\ b.is_ip = c.is_ip
        /\ b.hostdisc = c.hostdisc /\ b.cached = c.cached
    <2>1. CASE found # c.dp
      <3>1. b = [c EXCEPT !.script = None(Dirs), !.cutoff = None(Dirs)]
        BY <2>1 DEF dp_changed
      <3> HIDE DEF b
      <3> QED BY <3>1 DEF TrackFields
    <2>2. CASE found = c.dp
      BY <2>2
    <2> QED BY <2>1, <2>2
  <1> HIDE DEF b
  <1>6. /\ DOMAIN e = TrackFields /\ e.live = b.live /\ e.dp = found /\ e.chk = chk
        /\ e.l7 = b.l7 /\ e.l7disc = b.l7disc /\ e.host = b.host /\ e.is_ip = b.is_ip
        /\ e.hostdisc = b.hostdisc /\ e.cached = b.cached
    BY <1>3, <1>5 DEF TrackFields
  <1> QED BY <1>1, <1>2, <1>4, <1>5, <1>6

\* e is c after the check of the hostlists for h
CheckedFrom(c, h, e) ==
    /\ DOMAIN e = TrackFields /\ e.live = c.live
    /\ e.dp = c.dp /\ e.l7 = c.l7 /\ e.l7disc = c.l7disc /\ e.host = c.host /\ e.is_ip = c.is_ip
    /\ e.hostdisc = c.hostdisc /\ e.cached = c.cached
    /\ \/ /\ h.name # NoHost /\ c.chk = "none" /\ ~PROFILE_HOSTLISTS_EMPTY(lists, profiles[c.dp])
          /\ e.chk = IF HostlistCheck(lists, profiles[c.dp], h.name, h.is_ip) THEN "pos" ELSE "neg"
       \/ /\ ~(h.name # NoHost /\ c.chk = "none" /\ ~PROFILE_HOSTLISTS_EMPTY(lists, profiles[c.dp]))
          /\ e = c

LEMMA HostCheckedIs ==
    ASSUME NEW c, DOMAIN c = TrackFields, NEW h
    PROVE  CheckedFrom(c, h, HostChecked(c, h))
  <1> DEFINE e == HostChecked(c, h)
  <1> DEFINE due == h.name # NoHost /\ ~PROFILE_HOSTLISTS_EMPTY(lists, profiles[c.dp]) /\ c.chk = "none"
             chk == IF HostlistCheck(lists, profiles[c.dp], h.name, h.is_ip) THEN "pos" ELSE "neg"
  <1>1. e = IF due THEN [c EXCEPT !.chk = chk] ELSE c
    BY DEF HostChecked
  <1> HIDE DEF chk, e
  <1>2. CASE due
    <2>1. e = [c EXCEPT !.chk = chk]
      BY <1>1, <1>2
    <2>2. /\ DOMAIN e = TrackFields /\ e.live = c.live /\ e.chk = chk
          /\ e.dp = c.dp /\ e.l7 = c.l7 /\ e.l7disc = c.l7disc /\ e.host = c.host /\ e.is_ip = c.is_ip
          /\ e.hostdisc = c.hostdisc /\ e.cached = c.cached
      BY <2>1 DEF TrackFields
    <2>3. CheckedFrom(c, h, e)
      BY <1>2, <2>2 DEF chk, CheckedFrom
    <2> QED BY <2>3 DEF e
  <1>3. CASE ~due
    <2>1. CheckedFrom(c, h, e)
      BY <1>1, <1>3 DEF CheckedFrom
    <2> QED BY <2>1 DEF e
  <1> QED BY <1>2, <1>3

LEMMA RediscoveryIs ==
    ASSUME CfgInv, phase = "run", NEW c, Based(c), Settled(c) \/ Unsearched(c), NEW h,
           h.name # NoHost => c.l7 # "unknown", NEW e, e = dp_rediscovery(c, h)
    PROVE  Based(e) /\ Settled(e) /\ e.l7 = c.l7
  <1> DEFINE newl7 == ~c.l7disc /\ c.l7 # "unknown"
             newhost == h.name # NoHost /\ ~c.hostdisc
             c0 == IF newhost THEN Discovered(c, h) ELSE c
             c1 == [c0 EXCEPT !.l7disc = @ \/ newl7]
  <1>1. e = HostChecked(IF newl7 \/ newhost THEN Researched(c1, Query(c1.host, c1.is_ip, c1.l7)) ELSE c1, h)
    BY DEF dp_rediscovery, SearchAgain
  <1>2. DOMAIN c = TrackFields /\ c.live
    BY DEF Based
  <1>3. /\ DOMAIN c0 = TrackFields /\ c0.live /\ c0.dp = c.dp /\ c0.l7 = c.l7 /\ c0.l7disc = c.l7disc /\ c0.chk = c.chk
        /\ newhost => c0.host = h.name /\ c0.is_ip = h.is_ip /\ ~c0.cached /\ c0.hostdisc
        /\ ~newhost => c0 = c
    <2>1. CASE newhost
      BY <1>2, <2>1 DEF Discovered, TrackFields
    <2>2. CASE ~newhost
      BY <1>2, <2>2
    <2> QED BY <2>1, <2>2
  <1>4. /\ DOMAIN c1 = TrackFields /\ c1.live /\ c1.dp = c.dp /\ c1.l7 = c.l7 /\ c1.chk = c.chk
        /\ c1.l7disc = (c.l7disc \/ newl7)
        /\ c1.host = c0.host /\ c1.is_ip = c0.is_ip /\ c1.cached = c0.cached /\ c1.hostdisc = c0.hostdisc
    <2> HIDE DEF c0, newl7
    <2> QED BY <1>3 DEF TrackFields
  <1> HIDE DEF c0, c1
  <1>5. CASE newl7 \/ newhost
    <2> DEFINE r == Researched(c1, Query(c1.host, c1.is_ip, c1.l7))
    <2>1. /\ DOMAIN r = TrackFields /\ r.live /\ r.dp \in 1 .. Len(profiles) /\ r.dp = Find(c1.host, c1.is_ip, c1.l7)
          /\ r.l7 = c1.l7 /\ r.l7disc = c1.l7disc /\ r.host = c1.host /\ r.is_ip = c1.is_ip
          /\ r.hostdisc = c1.hostdisc /\ r.cached = c1.cached
          /\ r.chk = "none" \/ (r.chk = "pos" /\ HostlistCheck(lists, profiles[r.dp], c1.host, c1.is_ip))
      BY <1>4, ResearchedIs
    <2>2. e = HostChecked(r, h)
      BY <1>1, <1>5
    <2> HIDE DEF r
    <2>3. /\ DOMAIN e = TrackFields /\ e.live = r.live
          /\ e.dp = r.dp /\ e.l7 = r.l7 /\ e.l7disc = r.l7disc /\ e.host = r.host /\ e.is_ip = r.is_ip
          /\ e.hostdisc = r.hostdisc /\ e.cached = r.cached
          /\ \/ /\ h.name # NoHost /\ r.chk = "none" /\ ~PROFILE_HOSTLISTS_EMPTY(lists, profiles[r.dp])
                /\ e.chk = IF HostlistCheck(lists, profiles[r.dp], h.name, h.is_ip) THEN "pos" ELSE "neg"
             \/ /\ ~(h.name # NoHost /\ r.chk = "none" /\ ~PROFILE_HOSTLISTS_EMPTY(lists, profiles[r.dp]))
                /\ e = r
      <3>1. CheckedFrom(r, h, e)
        BY <2>1, <2>2, HostCheckedIs
      <3> QED BY <3>1 DEF CheckedFrom
    <2>4. h.name # NoHost => newhost
      BY <1>5 DEF Based
    <2>5. newhost => e.host = h.name /\ e.is_ip = h.is_ip /\ ~e.cached /\ e.hostdisc
      BY <1>3, <1>4, <2>1, <2>3
    <2>6. ~newhost => e.hostdisc = c.hostdisc
      BY <1>3, <1>4, <2>1, <2>3
    <2>7. e.l7 = c.l7 /\ (e.l7disc <=> (c.l7disc \/ newl7)) /\ e.dp \in 1 .. Len(profiles)
      BY <1>4, <2>1, <2>3
    <2>8. e.l7disc => e.l7 # "unknown"
      BY <2>7 DEF Based
    <2>9. e.hostdisc => e.l7disc
      BY <2>4, <2>6, <2>7 DEF Based
    <2>10. e.hostdisc /\ e.chk = "none" => PROFILE_HOSTLISTS_EMPTY(lists, profiles[e.dp])
      <3>1. e.hostdisc => newhost
        BY <1>5, <2>6 DEF Based
      <3> QED BY <2>3, <3>1
    <2>11. e.dp = Find(e.host, e.is_ip, e.l7)
      BY <2>1, <2>3
    <2>12. e.chk # "none" => (e.chk = "pos") = HostlistCheck(lists, profiles[e.dp], e.host, e.is_ip)
      <3>1. CASE e = r
        BY <2>1, <3>1 DEF HostlistCheck
      <3>2. CASE h.name # NoHost /\ e.chk = IF HostlistCheck(lists, profiles[r.dp], h.name, h.is_ip) THEN "pos" ELSE "neg"
        <4>1. e.host = h.name /\ e.is_ip = h.is_ip /\ e.dp = r.dp
          BY <2>3, <2>4, <2>5, <3>2
        <4>2. e.chk = IF HostlistCheck(lists, profiles[e.dp], e.host, e.is_ip) THEN "pos" ELSE "neg"
          BY <3>2, <4>1
        <4> QED BY <4>2 DEF HostlistCheck
      <3> QED BY <2>3, <3>1, <3>2
    <2> QED BY <2>1, <2>3, <2>7, <2>8, <2>9, <2>10, <2>11, <2>12 DEF Based, Settled
  <1>6. CASE ~(newl7 \/ newhost)
    <2>1. e = HostChecked(c1, h)
      BY <1>1, <1>6
    <2>2. SameCore(c, c1)
      <3>1. c1.l7disc <=> c.l7disc
        BY <1>4, <1>6
      <3> QED BY <1>3, <1>4, <1>6, <3>1 DEF SameCore
    <2>3. Based(c1) /\ (Settled(c) => Settled(c1))
      BY <1>4, <2>2, CoreKeeps
    <2>4. h.name # NoHost => c1.hostdisc
      BY <1>3, <1>4, <1>6
    <2>5. e = c1
      <3>1. CheckedFrom(c1, h, e)
        BY <1>4, <2>1, HostCheckedIs
      <3> QED BY <2>3, <2>4, <3>1 DEF CheckedFrom, Based
    <2>6. Settled(c)
      BY <1>6 DEF Unsearched
    <2> QED BY <1>4, <2>3, <2>5, <2>6
  <1> QED BY <1>5, <1>6

-----------------------------------------------------------------------------
(* What a packet does to the entry before and after dp_rediscovery         *)

\* A SYN on a connection that is past its SYN starts the entry anew.
Restarts(p) == p.flag = "SYN" /\ ct.st # "syn"

\* c is a live entry that knows what e knows
Alike(e, c) == DOMAIN c = TrackFields /\ c.live /\ SameCore(e, c)

LEMMA CountedIs ==
    ASSUME NEW c, DOMAIN c = TrackFields, c.live, NEW p, NEW e, e = Feed(c, p), ~(p.flag = "SYN" /\ c.st # "syn")
    PROVE  Alike(c, e)
  <1> DEFINE b == [c EXCEPT !.n[p.side] = @ + 1, !.d[p.side] = @ + (IF p.pl = "empty" THEN 0 ELSE 1)]
  <1>1. e = b \/ e = [b EXCEPT !.st = "est", !.idle = FALSE]
    BY DEF Feed
  <1>2. Alike(c, b)
    BY DEF Alike, SameCore, TrackFields
  <1> HIDE DEF b
  <1>3. Alike(c, [b EXCEPT !.st = "est", !.idle = FALSE])
    BY <1>2 DEF Alike, SameCore, TrackFields
  <1> QED BY <1>1, <1>2, <1>3

LEMMA FedIs ==
    ASSUME ProfileInv, NEW p
    PROVE  \/ ct.live /\ ~Restarts(p) /\ Alike(ct, Fed(p))
           \/ (~ct.live \/ Restarts(p)) /\ Alike(NewTrack, Fed(p))
  <1>1. Alike(NewTrack, NewTrack) /\ NewTrack.st = "syn" /\ DOMAIN NewTrack = TrackFields /\ NewTrack.live
    BY NewTrackIs DEF Alike, SameCore, NewTrack
  <1>2. CASE ct.live /\ ~Restarts(p)
    <2>1. Fed(p) = Feed(ct, p) /\ DOMAIN ct = TrackFields
      BY <1>2 DEF Fed, ProfileInv, Based
    <2> QED BY <1>2, <2>1, CountedIs DEF Restarts
  <1>3. CASE ct.live /\ Restarts(p)
    <2>1. Fed(p) = NewTrack
      BY <1>3 DEF Fed, Feed, Restarts
    <2> QED BY <1>1, <1>3, <2>1
  <1>4. CASE ~ct.live
    <2>1. Fed(p) = Feed(NewTrack, p)
      BY <1>4 DEF Fed
    <2> QED BY <1>1, <1>4, <2>1, CountedIs
  <1> QED BY <1>2, <1>3, <1>4

LEMMA FirstSearchIs ==
    ASSUME CfgInv, phase = "run", NEW f, Alike(NewTrack, f), NEW p, NEW c, c = FirstSearch(f, p)
    PROVE  Based(c) /\ Settled(c) /\ c.l7 = "unknown"
  <1>1. /\ DOMAIN f = TrackFields /\ f.live /\ f.dp = 0 /\ f.l7 = "unknown" /\ ~f.l7disc /\ ~f.hostdisc
        /\ f.chk = "none" /\ ~f.cached /\ f.is_ip = FALSE
    BY NewTrackIs DEF Alike, SameCore
  <1>2. CASE Cached(f, p)
    <2> DEFINE item == ipcache_get_hostname(purged, glob.ipcache_hostname, Target)
               d == Find(item.host, item.is_ip, f.l7)
    <2>1. c = [f EXCEPT !.host = item.host, !.dp = d, !.cached = item.is_ip]
      BY <1>1, <1>2 DEF FirstSearch
    <2>2. d \in 1 .. Len(profiles)
      BY FindIs, QueryIs DEF Find
    <2>3. ~item.is_ip => d = Find(item.host, FALSE, f.l7)
      BY FindNoIp
    <2> HIDE DEF item, d
    <2>4. /\ DOMAIN c = TrackFields /\ c.live /\ c.dp = d /\ c.host = item.host /\ c.is_ip = FALSE
          /\ c.cached = item.is_ip /\ c.l7 = f.l7 /\ ~c.l7disc /\ ~c.hostdisc /\ c.chk = "none"
      BY <1>1, <2>1 DEF TrackFields
    <2> QED BY <1>1, <2>2, <2>3, <2>4 DEF Based, Settled
  <1>3. CASE ~Cached(f, p)
    <2> DEFINE d == Find(f.host, f.is_ip, f.l7)
    <2>1. c = [f EXCEPT !.dp = d]
      BY <1>1, <1>3 DEF FirstSearch
    <2>2. d \in 1 .. Len(profiles)
      BY FindIs, QueryIs DEF Find
    <2> HIDE DEF d
    <2>3. /\ DOMAIN c = TrackFields /\ c.live /\ c.dp = d /\ c.host = f.host /\ c.is_ip = f.is_ip
          /\ c.l7 = f.l7 /\ ~c.l7disc /\ ~c.hostdisc /\ c.chk = "none"
      BY <1>1, <2>1 DEF TrackFields
    <2> QED BY <1>1, <2>2, <2>3 DEF Based, Settled, d
  <1> QED BY <1>2, <1>3

LEMMA TtlAlike ==
    ASSUME NEW c, DOMAIN c = TrackFields, c.live, NEW p
    PROVE  Alike(c, WithTtl(c, p))
  <1>1. WithTtl(c, p) = c \/ \E x : WithTtl(c, p) = [c EXCEPT !.ttl = x]
    BY DEF WithTtl
  <1>2. Alike(c, c) /\ \A x : Alike(c, [c EXCEPT !.ttl = x])
    BY DEF Alike, SameCore, TrackFields
  <1> QED BY <1>1, <1>2

\* After play_prolog the entry has a profile.
LEMMA PrologIs ==
    ASSUME CfgInv, phase = "run", ProfileInv, NEW p, NEW c, c = play_prolog(Fed(p), p)
    PROVE  /\ Based(c)
           /\ \/ ct.live /\ ~Restarts(p) /\ Alike(ct, c)
              \/ (~ct.live \/ Restarts(p)) /\ Settled(c) /\ c.l7 = "unknown"
  <1> DEFINE f == Fed(p)
             e == FirstSearch(f, p)
  <1>1. c = WithTtl(e, p)
    BY DEF play_prolog
  <1>2. CASE ct.live /\ ~Restarts(p)
    <2>1. Alike(ct, f)
      BY <1>2, FedIs
    <2>2. Based(ct) /\ f.dp # 0
      BY <1>2, <2>1 DEF ProfileInv, Based, Alike, SameCore
    <2>3. e = f
      BY <2>2 DEF FirstSearch
    <2> HIDE DEF e, f
    <2>4. Alike(e, c)
      BY <1>1, <2>1, <2>3, TtlAlike DEF Alike
    <2>5. Alike(ct, c)
      BY <2>1, <2>3, <2>4 DEF Alike, SameCore
    <2>6. Based(c)
      BY <2>2, <2>5, CoreKeeps DEF Alike
    <2> QED BY <1>2, <2>5, <2>6
  <1>3. CASE ~ct.live \/ Restarts(p)
    <2>1. Alike(NewTrack, f)
      BY <1>3, FedIs
    <2> HIDE DEF f
    <2>2. Based(e) /\ Settled(e) /\ e.l7 = "unknown"
      BY <2>1, FirstSearchIs
    <2> HIDE DEF e
    <2>3. Alike(e, c)
      BY <1>1, <2>2, TtlAlike DEF Based
    <2>4. Based(c) /\ Settled(c) /\ c.l7 = "unknown"
      BY <2>2, <2>3, CoreKeeps DEF Alike
    <2> QED BY <1>3, <2>4
  <1> QED BY <1>2, <1>3

\* The protocol of a payload: what was known stays, what is new has not been searched for.
LEMMA ProbeIs ==
    ASSUME NEW c, Based(c), Settled(c) \/ Unsearched(c), NEW pl, NEW e, e = [c EXCEPT !.l7 = Probe(@, pl)]
    PROVE  /\ Based(e) /\ (Settled(e) \/ Unsearched(e)) /\ (c.l7 # "unknown" => e.l7 = c.l7 /\ SameCore(c, e))
           /\ pl \in {"http_req", "tls_client_hello"} => e.l7 # "unknown"
  <1>1. /\ DOMAIN e = TrackFields /\ e.live /\ e.dp = c.dp /\ e.host = c.host /\ e.is_ip = c.is_ip
        /\ e.hostdisc = c.hostdisc /\ e.chk = c.chk /\ e.cached = c.cached /\ e.l7disc = c.l7disc
        /\ e.l7 = Probe(c.l7, pl)
    BY DEF TrackFields, Based
  <1>2. /\ c.l7 # "unknown" => Probe(c.l7, pl) = c.l7
        /\ Probe(c.l7, pl) = c.l7 \/ (c.l7 = "unknown" /\ Probe(c.l7, pl) # "unknown")
        /\ pl \in {"http_req", "tls_client_hello"} => Probe(c.l7, pl) # "unknown"
    BY DEF Probe, ProtoOf
  <1>3. CASE e.l7 = c.l7
    <2>1. Alike(c, e)
      BY <1>1, <1>3 DEF Alike, SameCore
    <2>2. Based(e) /\ (Settled(c) => Settled(e)) /\ (Unsearched(c) => Unsearched(e))
      BY <1>1, <2>1, CoreKeeps, ZenonT(30) DEF Alike
    <2> QED BY <1>1, <1>2, <1>3, <2>1, <2>2 DEF Alike
  <1>4. CASE c.l7 = "unknown" /\ e.l7 # "unknown"
    <2>1. ~e.l7disc
      BY <1>1, <1>4 DEF Based
    <2> QED BY <1>1, <1>2, <1>4, <2>1 DEF Based, Unsearched
  <1> QED BY <1>1, <1>2, <1>3, <1>4

LEMMA RunAlike ==
    ASSUME NEW c, DOMAIN c = TrackFields, NEW d, NEW dir, NEW pos, NEW pl, NEW late, NEW fresh,
           RunDesync(c, d, dir, pos, pl, late, fresh)
    PROVE  (c.live => Alike(c, ct')) /\ (~c.live => ct' = ct)
  <1>1. CASE c.live
    <2>1. \E x, y, z : ct' = [c EXCEPT !.icut = x, !.cutoff = y, !.script = z]
      BY <1>1 DEF RunDesync, AfterCalls
    <2> QED BY <1>1, <2>1, SMTT(30) DEF Alike, SameCore, TrackFields
  <1>2. CASE ~c.live
    BY <1>2 DEF RunDesync
  <1> QED BY <1>1, <1>2

-----------------------------------------------------------------------------
(* Each step keeps ProfileInv                                              *)

Waits == held # <<>> \/ replaying # <<>>

\* The settings do not change while the program runs: an entry is judged by them as
\* they are now.
LEMMA EntryStep ==
    ASSUME UNCHANGED cfgVars, Based(ct'), Settled(ct') \/ (Unsearched(ct') /\ Waits'), Waits' => ct'.l7 # "unknown"
    PROVE  ProfileInv'
  <1>1. lists' = lists /\ profiles' = profiles
    BY DEF cfgVars
  <1>2. (Based(ct))'
    BY <1>1 DEF Based
  <1>3. Settled(ct') => (Settled(ct))'
    BY <1>1 DEF Settled, Find, Query
  <1>4. Unsearched(ct') => (Unsearched(ct))'
    BY DEF Unsearched
  <1>5. ct'.live
    BY DEF Based
  <1> QED BY <1>2, <1>3, <1>4, <1>5 DEF ProfileInv, Waits

\* An entry that knows the same, with the same packets waiting or more.
LEMMA AlikeStep ==
    ASSUME ProfileInv, UNCHANGED cfgVars, ct.live, Alike(ct, ct'), Waits => Waits', Waits' => ct.l7 # "unknown"
    PROVE  ProfileInv'
  <1>1. Based(ct) /\ (Settled(ct) \/ (Unsearched(ct) /\ Waits))
    BY DEF ProfileInv, Waits
  <1>2. Based(ct') /\ (Settled(ct) => Settled(ct')) /\ (Unsearched(ct) => Unsearched(ct')) /\ ct'.l7 = ct.l7
    BY <1>1, CoreKeeps DEF Alike
  <1> QED BY <1>1, <1>2, EntryStep

LEMMA StutterStep ==
    ASSUME ProfileInv, UNCHANGED <<cfgVars, ct, held, replaying>>
    PROVE  ProfileInv'
  BY DEF ProfileInv, cfgVars, Based, Settled, Unsearched, Find, Query

LEMMA NoEntryIs == DOMAIN NoEntry = TrackFields /\ ~NoEntry.live
  BY DEF NoEntry, NewTrack, TrackFields

\* dp_rediscovery keeps an entry one, and no entry none
LEMMA RediscoveryKeeps ==
    ASSUME NEW c, DOMAIN c = TrackFields, NEW h
    PROVE  DOMAIN dp_rediscovery(c, h) = TrackFields /\ dp_rediscovery(c, h).live = c.live
  <1> DEFINE newl7 == ~c.l7disc /\ c.l7 # "unknown"
             newhost == h.name # NoHost /\ ~c.hostdisc
             c0 == IF newhost THEN Discovered(c, h) ELSE c
             c1 == [c0 EXCEPT !.l7disc = @ \/ newl7]
             r == Researched(c1, Query(c1.host, c1.is_ip, c1.l7))
             c2 == IF newl7 \/ newhost THEN r ELSE c1
  <1>1. dp_rediscovery(c, h) = HostChecked(c2, h)
    BY DEF dp_rediscovery, SearchAgain
  <1>2. DOMAIN c0 = TrackFields /\ c0.live = c.live
    BY DEF Discovered, TrackFields
  <1> HIDE DEF c0
  <1>3. DOMAIN c1 = TrackFields /\ c1.live = c.live
    BY <1>2 DEF TrackFields
  <1> HIDE DEF c1
  <1>4. DOMAIN r = TrackFields /\ r.live = c.live
    <2> DEFINE found == dp_find(lists, profiles, Query(c1.host, c1.is_ip, c1.l7))
               b == IF found # c1.dp THEN dp_changed(c1) ELSE c1
               x == IF check_done(lists, profiles[found], Query(c1.host, c1.is_ip, c1.l7)) THEN "pos" ELSE "none"
    <2>1. r = [b EXCEPT !.dp = found, !.chk = x]
      BY DEF Researched
    <2>2. DOMAIN b = TrackFields /\ b.live = c.live
      BY <1>3 DEF dp_changed, TrackFields
    <2> HIDE DEF r, b, found, x
    <2> QED BY <2>1, <2>2 DEF TrackFields
  <1> HIDE DEF r
  <1>5. DOMAIN c2 = TrackFields /\ c2.live = c.live
    BY <1>3, <1>4
  <1> HIDE DEF c2
  <1> DEFINE e == dp_rediscovery(c, h)
  <1>6. e = HostChecked(c2, h)
    BY <1>1
  <1> HIDE DEF e
  <1>7. CheckedFrom(c2, h, e)
    BY <1>5, <1>6, HostCheckedIs
  <1>8. DOMAIN e = TrackFields /\ e.live = c.live
    BY <1>5, <1>7 DEF CheckedFrom
  <1> QED BY <1>8 DEF e

\* What dp_rediscovery and desync() leave of an entry.
LEMMA RediscoveredStep ==
    ASSUME CfgInv, phase = "run", UNCHANGED cfgVars, NEW c, Based(c), Settled(c) \/ Unsearched(c), NEW h,
           h.name # NoHost => c.l7 # "unknown", NEW dir, NEW pos, NEW pl, NEW late, NEW fresh,
           Rediscovered(c, dp_rediscovery(c, h), h, dir, pos, pl, late, fresh), Waits' => c.l7 # "unknown"
    PROVE  ProfileInv'
  <1> DEFINE d == dp_rediscovery(c, h)
  <1>1. Based(d) /\ Settled(d) /\ d.l7 = c.l7
    BY RediscoveryIs
  <1> HIDE DEF d
  <1>2. Alike(d, ct')
    <2>1. CASE ct' = d
      BY <1>1, <2>1 DEF Alike, SameCore, Based
    <2>2. CASE RunDesync(d, d.dp, dir, pos, pl, late, fresh)
      BY <1>1, <2>2, RunAlike DEF Based
    <2> QED BY <2>1, <2>2 DEF Rediscovered, d
  <1>3. Based(ct') /\ Settled(ct') /\ ct'.l7 = c.l7
    BY <1>1, <1>2, CoreKeeps DEF Alike
  <1> QED BY <1>3, EntryStep

LEMMA ProfileFlowPacket ==
    ASSUME CfgInv, ProfileInv, NEW p \in FlowPackets, FlowPacket(p)
    PROVE  ProfileInv'
  <1> DEFINE c == play_prolog(Fed(p), p)
             c2 == [c EXCEPT !.l7 = Probe(@, p.pl)]
             c3 == dp_rediscovery(c2, p.h)
             fresh == Cached(Fed(p), p) => IsFresh(ipcache_get_hostname(purged, glob.ipcache_hostname, Target), Target)
  <1>1. /\ phase = "run" /\ UNCHANGED <<cfgVars, replaying>> /\ replaying = <<>>
        /\ Rediscovered(c2, c3, p.h, Dir(p.side), PosOf(c, p.side), p.pl, FALSE, fresh)
        /\ held' = IF c3.chk = "neg" \/ Restarts(p) THEN <<>> ELSE Overtaken(held)
    BY DEF FlowPacket, PlayTcp, Arrives, Ready, Counted, Restarts
  <1>2. /\ Based(c)
        /\ \/ ct.live /\ ~Restarts(p) /\ Alike(ct, c)
           \/ (~ct.live \/ Restarts(p)) /\ Settled(c) /\ c.l7 = "unknown"
    BY <1>1, PrologIs
  <1>3. p.h.name # NoHost => p.pl \in {"http_req", "tls_client_hello"}
    BY DEF FlowPackets, Pkt, NoHostname
  <1> HIDE DEF c, c3, fresh
  <1>4. Settled(c) \/ Unsearched(c)
    BY <1>2, CoreKeeps DEF ProfileInv, Alike
  <1>5. /\ Based(c2) /\ (Settled(c2) \/ Unsearched(c2)) /\ (c.l7 # "unknown" => c2.l7 = c.l7)
        /\ p.h.name # NoHost => c2.l7 # "unknown"
    BY <1>2, <1>3, <1>4, ProbeIs
  <1> HIDE DEF c2
  <1>6. Waits' => c2.l7 # "unknown"
    <2>1. Waits' => held # <<>> /\ ~Restarts(p)
      BY <1>1 DEF Waits, Overtaken
    <2>2. held # <<>> => ct.live /\ ct.l7 # "unknown"
      BY DEF ProfileInv
    <2> QED BY <1>2, <1>5, <2>1, <2>2 DEF Alike, SameCore
  <1>7. Rediscovered(c2, dp_rediscovery(c2, p.h), p.h, Dir(p.side), PosOf(c, p.side), p.pl, FALSE, fresh)
    BY <1>1 DEF c3
  <1> DEFINE no == FALSE
  <1>8. Rediscovered(c2, dp_rediscovery(c2, p.h), p.h, Dir(p.side), PosOf(c, p.side), p.pl, no, fresh)
    BY <1>7
  <1> HIDE DEF no
  <1> QED BY <1>1, <1>5, <1>6, <1>8, RediscoveredStep

LEMMA ProfileHello ==
    ASSUME CfgInv, ProfileInv, NEW h, NEW i, HelloPart(h, i) \/ HelloRest(i)
    PROVE  ProfileInv'
  <1>1. CASE HelloPart(h, i)
    <2> DEFINE p == Pkt("client", "ACK", "tls_client_hello", h, i)
               c == play_prolog(Fed(p), p)
    <2>1. /\ phase = "run" /\ UNCHANGED cfgVars /\ ct.live
          /\ ct' = [c EXCEPT !.l7 = Probe(@, "tls_client_hello")] /\ held' = <<Queued(c)>>
      BY <1>1 DEF HelloPart, Arrives, Ready, Counted, Pkt
    <2>2. ~Restarts(p)
      BY DEF Restarts, Pkt
    <2>3. Based(c) /\ Alike(ct, c)
      BY <2>1, <2>2, PrologIs
    <2> HIDE DEF c
    <2>4. Settled(c) \/ Unsearched(c)
      BY <2>1, <2>3, CoreKeeps DEF ProfileInv, Alike
    <2>5. Based(ct') /\ (Settled(ct') \/ Unsearched(ct')) /\ ct'.l7 # "unknown"
      BY <2>1, <2>3, <2>4, ProbeIs
    <2>6. Waits'
      BY <2>1 DEF Waits
    <2> QED BY <2>1, <2>5, <2>6, EntryStep
  <1>2. CASE HelloRest(i)
    <2> DEFINE p == Pkt("client", "ACK", "tls_client_hello", hello, i)
               c == play_prolog(Fed(p), p)
    <2>1. phase = "run" /\ UNCHANGED cfgVars /\ held # <<>> /\ ct' = c /\ replaying' = Append(held, Queued(c))
      BY <1>2 DEF HelloRest, Arrives, Ready, Counted
    <2>2. ~Restarts(p)
      BY DEF Restarts, Pkt
    <2>3. ct.live /\ ct.l7 # "unknown"
      BY <2>1 DEF ProfileInv
    <2>4. Alike(ct, c)
      BY <2>1, <2>2, <2>3, PrologIs
    <2> HIDE DEF c
    <2>5. Waits'
      BY <2>1 DEF Waits
    <2> QED BY <2>1, <2>3, <2>4, <2>5, AlikeStep
  <1> QED BY <1>1, <1>2

\* A packet of another flow is handled without an entry.
LEMMA OtherRuns ==
    ASSUME NEW l4, NEW s, NEW d, NEW dir, OtherPacket(l4, s, d, dir)
    PROVE  /\ UNCHANGED <<cfgVars, held, replaying>>
           /\ \E e, pl, late, fresh : RunDesync(NoEntry, e, dir, NoPos, pl, late, fresh)
  <1> DEFINE at(x) == ipcache_get_hostname(purged, glob.ipcache_hostname, x)
             a == IF at(d).host # NoHost THEN d ELSE s
             e == dp_find(lists, profiles,
                    [l3 |-> "ip4", l4 |-> l4, addrs |-> {s, d}, port |-> 0,
                     type |-> IF l4 = "icmp" THEN 8 ELSE 255, code |-> IF l4 = "icmp" THEN 0 ELSE 255,
                     host |-> at(a).host, nosub |-> at(a).is_ip, l7 |-> "unknown"])
             pl == IF l4 = "icmp" THEN "icmp" ELSE "unknown"
             late == FALSE
             fresh == IsFresh(at(a), a)
  <1>1. UNCHANGED <<cfgVars, held, replaying>>
    BY DEF OtherPacket, OtherCounted
  <1>2. RunDesync(NoEntry, e, dir, NoPos, pl, late, fresh)
    BY DEF OtherPacket
  <1> HIDE DEF e, pl, late, fresh
  <1> QED BY <1>1, <1>2

LEMMA ProfileStep ==
    ASSUME CfgInv, QuietInv, ProfileInv, [Next]_vars
    PROVE  ProfileInv'
  <1>1. CASE UNCHANGED vars
    BY <1>1, StutterStep DEF vars, flowVars
  <1>2. CASE Configure
    <2>1. ct = NoEntry /\ held = <<>> /\ replaying = <<>> /\ UNCHANGED flowVars
      BY <1>2, ConfigureFirst DEF QuietInv, Configure
    <2> QED BY <2>1, NoEntryIs DEF ProfileInv, flowVars
  <1>3. ASSUME NEW p \in FlowPackets, FlowPacket(p)
        PROVE  ProfileInv'
    BY <1>3, ProfileFlowPacket
  <1>4. ASSUME NEW p \in FlowPackets, UntrackedPacket(p)
        PROVE  ProfileInv'
    <2> DEFINE c1 == [NoEntry EXCEPT !.dp = Find(NoHost, FALSE, "unknown"), !.l7 = Probe("unknown", p.pl)]
               c2 == dp_rediscovery(c1, p.h)
    <2>1. /\ UNCHANGED <<cfgVars, held, replaying>>
          /\ \/ ct' = ct
             \/ RunDesync(c2, c2.dp, Dir(p.side), NoPos, p.pl, FALSE, TRUE)
      BY <1>4 DEF UntrackedPacket, Counted
    <2>2. DOMAIN c1 = TrackFields /\ ~c1.live
      BY NoEntryIs DEF TrackFields
    <2> HIDE DEF c1
    <2>3. DOMAIN c2 = TrackFields /\ ~c2.live
      BY <2>2, RediscoveryKeeps
    <2> HIDE DEF c2
    <2>4. ct' = ct
      <3>1. CASE RunDesync(c2, c2.dp, Dir(p.side), NoPos, p.pl, FALSE, TRUE)
        BY <2>3, <3>1 DEF RunDesync
      <3> QED BY <2>1, <3>1
    <2> QED BY <2>1, <2>4, StutterStep
  <1>5. ASSUME NEW h \in Hosts, NEW i \in Ifaces, HelloPart(h, i)
        PROVE  ProfileInv'
    BY <1>5, ProfileHello
  <1>6. ASSUME NEW i \in Ifaces, HelloRest(i)
        PROVE  ProfileInv'
    BY <1>6, ProfileHello
  <1>7. CASE Replay
    <2> DEFINE q == Head(replaying)
    <2>1. /\ replaying # <<>> /\ UNCHANGED cfgVars
          /\ Rediscovered(ct, dp_rediscovery(ct, hello), hello, Dir("client"), q, "tls_client_hello", q.late, TRUE)
      BY <1>7 DEF Replay
    <2>2. phase = "run" /\ ct.live /\ ct.l7 # "unknown" /\ Based(ct) /\ (Settled(ct) \/ Unsearched(ct))
      BY <2>1 DEF QuietInv, ProfileInv
    <2> HIDE DEF q
    <2> DEFINE yes == TRUE
               pl == "tls_client_hello"
               late == q.late
               dir == Dir("client")
    <2>3. Rediscovered(ct, dp_rediscovery(ct, hello), hello, dir, q, pl, late, yes)
      BY <2>1
    <2> HIDE DEF yes, pl, late, dir
    <2> QED BY <2>1, <2>2, <2>3, RediscoveredStep
  <1>8. ASSUME NEW s \in Sides, RelatedIcmp(s)
        PROVE  ProfileInv'
    <2> DEFINE other == CHOOSE x \in Sides : x # s
    <2>1. /\ UNCHANGED <<cfgVars, replaying>> /\ ct.live /\ held' = Overtaken(held)
          /\ RunDesync(ct, ct.dp, Dir(other), PosOf(ct, other), "ipv4", FALSE, TRUE)
      BY <1>8 DEF RelatedIcmp, OtherCounted
    <2> HIDE DEF other
    <2>2. DOMAIN ct = TrackFields
      BY <2>1 DEF ProfileInv, Based
    <2>3. Alike(ct, ct')
      <3>1. \E x, y, z : ct' = [ct EXCEPT !.icut = x, !.cutoff = y, !.script = z]
        BY <2>1 DEF RunDesync, AfterCalls
      <3> QED BY <2>1, <2>2, <3>1 DEF Alike, SameCore, TrackFields
    <2>4. held' # <<>> <=> held # <<>>
      BY <2>1 DEF Overtaken
    <2> QED BY <2>1, <2>3, <2>4, AlikeStep DEF ProfileInv, Waits
  <1>9. ASSUME NEW l4 \in {"icmp", "gre"}, NEW s \in Addrs, NEW d \in Addrs, NEW dir \in Dirs,
               OtherPacket(l4, s, d, dir)
        PROVE  ProfileInv'
    <2>1. /\ UNCHANGED <<cfgVars, held, replaying>>
          /\ \E e, pl, late, fresh : RunDesync(NoEntry, e, dir, NoPos, pl, late, fresh)
      BY <1>9, OtherRuns
    <2>2. ct' = ct
      BY <2>1, NoEntryIs, RunAlike
    <2> QED BY <2>1, <2>2, StutterStep
  <1>10. ASSUME NEW h, NEW as \in SUBSET Addrs, DnsResponse(h, as)
         PROVE  ProfileInv'
    BY <1>10, StutterStep DEF DnsResponse, OtherCounted
  <1>11. CASE Tick
    <2>1. UNCHANGED <<cfgVars, held, replaying>> /\ ct' = [ct EXCEPT !.idle = TRUE]
      BY <1>11 DEF Tick
    <2>2. CASE ct.live
      <3>1. Alike(ct, ct')
        BY <2>1, <2>2 DEF Alike, SameCore, TrackFields, ProfileInv, Based
      <3> QED BY <2>1, <2>2, <3>1, AlikeStep DEF Waits, ProfileInv
    <2>3. CASE ~ct.live
      <3>1. ~ct'.live
        BY <2>1, <2>3
      <3> QED BY <2>1, <2>3, <3>1 DEF ProfileInv
    <2> QED BY <2>2, <2>3
  <1>12. CASE PurgeEntry
    <2>1. ct' = NoEntry /\ held' = <<>> /\ replaying' = <<>>
      BY <1>12 DEF PurgeEntry, Ready
    <2> QED BY <2>1, NoEntryIs DEF ProfileInv
  <1> QED BY <1>1, <1>2, <1>3, <1>4, <1>5, <1>6, <1>7, <1>8, <1>9, <1>10, <1>11, <1>12 DEF Next

\* The profile of an entry is the one a search finds for what is known of the flow
\* now, and a check of hostlists that is kept is what the lists say of its hostname
\* (dp_find, dp_rediscovery): for every command line, whatever packets come.
THEOREM SearchedForWhatIsKnown == Spec => []ProfileIsCurrent
  <1> DEFINE Inv == CfgInv /\ QuietInv /\ ProfileInv
  <1>1. Init => Inv
    <2>1. Init => ProfileInv
      BY NoEntryIs DEF Init, ProfileInv
    <2> QED BY <2>1, CacheStart
  <1>2. Inv /\ [Next]_vars => Inv'
    BY CfgStep, ProfileStep
  <1>3. Inv => ProfileIsCurrent
    BY DEF ProfileInv, Settled, ProfileIsCurrent
  <1> QED BY <1>1, <1>2, <1>3, PTL DEF Spec

-----------------------------------------------------------------------------
(* Cutoffs                                                                 *)

\* a position with conntrack, and one that does not come before another
IsPos(q) == q.tracked /\ q.n \in Nat /\ q.d \in Nat
Upto(p, q) == p.n <= q.n /\ p.d <= q.d

HeldFields == {"tracked", "n", "d", "over", "late"}

Counts(c) == c.n \in [Sides -> Nat] /\ c.d \in [Sides -> Nat]

\* A flag that Lua did not ask for stands for instances that are all cut off.
CutOk(c) ==
    \A s \in Sides :
       /\ c.script[Dir(s)] => c.cutoff[Dir(s)]
       /\ c.cutoff[Dir(s)] /\ ~c.script[Dir(s)] => AllCut(c, c.dp, Dir(s), PosOf(c, s))

\* The packets that are held, oldest first: the flag covers them too, or they know
\* that it was set by a later one.
QueueOk(c, qs) ==
    /\ IsSeq(qs)
    /\ \A i \in DOMAIN qs :
         /\ IsPos(qs[i]) /\ Upto(qs[i], PosOf(c, "client")) /\ DOMAIN qs[i] = HeldFields
         /\ c.cutoff[Dir("client")] /\ ~c.script[Dir("client")] => qs[i].late \/ AllCut(c, c.dp, Dir("client"), qs[i])
    /\ \A i, j \in DOMAIN qs : i <= j => Upto(qs[i], qs[j])

CutInv ==
    /\ ct.live => Counts(ct) /\ CutOk(ct) /\ QueueOk(ct, held) /\ QueueOk(ct, replaying)
    /\ replaying # <<>> => held = <<>>
    /\ ~last.missed

LEMMA PosOfIs ==
    ASSUME NEW c, Counts(c), NEW s \in Sides
    PROVE  IsPos(PosOf(c, s)) /\ PosOf(c, s).n = c.n[s] /\ PosOf(c, s).d = c.d[s]
  BY DEF IsPos, PosOf, Counts

\* What is past the end of a range stays past it.
LEMMA CutoffGrows ==
    ASSUME NEW r \in PacketRanges, NEW p, IsPos(p), NEW q, IsPos(q), Upto(p, q), check_pos_cutoff(p, r)
    PROVE  check_pos_cutoff(q, r)
  <1>1. r.to.mode \in {"x", "a", "n", "d"} /\ r.to.pos \in Nat
    BY DEF PacketRanges, RangeBounds
  <1>2. ~check_pos_to(p, r)
    BY DEF check_pos_cutoff, IsPos
  <1>3. CASE r.to.mode = "x"
    BY <1>3 DEF check_pos_cutoff, check_pos_to
  <1>4. CASE r.to.mode = "a"
    BY <1>2, <1>4 DEF check_pos_to, pos_overflow
  <1>5. CASE r.to.mode = "n"
    <2>1. ~(p.n < r.to.pos \/ (~r.upper_cutoff /\ p.n = r.to.pos))
      BY <1>2, <1>5 DEF check_pos_to, pos_overflow, IsPos
    <2>2. ~(q.n < r.to.pos \/ (~r.upper_cutoff /\ q.n = r.to.pos))
      BY <1>1, <2>1 DEF IsPos, Upto
    <2> QED BY <1>5, <2>2 DEF check_pos_cutoff, check_pos_to
  <1>6. CASE r.to.mode = "d"
    <2>1. ~(p.d < r.to.pos \/ (~r.upper_cutoff /\ p.d = r.to.pos))
      BY <1>2, <1>6 DEF check_pos_to, pos_overflow, IsPos
    <2>2. ~(q.d < r.to.pos \/ (~r.upper_cutoff /\ q.d = r.to.pos))
      BY <1>1, <2>1 DEF IsPos, Upto
    <2> QED BY <1>6, <2>2 DEF check_pos_cutoff, check_pos_to
  <1> QED BY <1>1, <1>3, <1>4, <1>5, <1>6

LEMMA RangesAre ==
    ASSUME CfgInv, NEW d \in 1 .. Len(profiles), NEW k \in DOMAIN profiles[d].lua, NEW dir
    PROVE  Ranges(k, d, dir) \in PacketRanges
  <1>1. IsProfile(profiles[d])
    BY SeqIs DEF CfgInv
  <1> QED BY <1>1 DEF IsProfile, IsLua, Ranges

LEMMA AllCutGrows ==
    ASSUME CfgInv, NEW d \in 1 .. Len(profiles), NEW dir, NEW c, NEW e, c.live, e.live, c.icut \subseteq e.icut,
           NEW p, IsPos(p), NEW q, IsPos(q), Upto(p, q), AllCut(c, d, dir, p)
    PROVE  AllCut(e, d, dir, q)
  <1> SUFFICES ASSUME NEW k \in DOMAIN profiles[d].lua
               PROVE  InstanceCut(e, k, d, dir) \/ check_pos_cutoff(q, Ranges(k, d, dir))
    BY DEF AllCut
  <1>1. InstanceCut(c, k, d, dir) \/ check_pos_cutoff(p, Ranges(k, d, dir))
    BY DEF AllCut
  <1>2. Ranges(k, d, dir) \in PacketRanges
    BY RangesAre
  <1>3. InstanceCut(c, k, d, dir) => InstanceCut(e, k, d, dir)
    BY DEF InstanceCut
  <1> QED BY <1>1, <1>2, <1>3, CutoffGrows

-----------------------------------------------------------------------------
(* No instance is wanted where all are cut off or none takes the payload   *)

LEMMA NoneLeft ==
    ASSUME NEW s, NEW drop, \A i \in DOMAIN s : s[i] \in drop
    PROVE  Without(s, drop) = <<>>
  <1>1. Kept(s, drop) = {}
    BY DEF Kept
  <1>2. Cardinality(Kept(s, drop)) = 0
    BY <1>1, FS_EmptySet
  <1> QED BY <1>2 DEF Without

LEMMA NotWanted ==
    ASSUME NEW c, NEW d, NEW dir, NEW pos, NEW pl, AllCut(c, d, dir, pos) \/ Unwanted(d, pl)
    PROVE  Wanted(c, d, dir, pos, pl) = <<>>
  <1> DEFINE K == DOMAIN profiles[d].lua
             s == [k \in K |-> k]
             drop == {k \in K : \/ InstanceCut(c, k, d, dir)
                                \/ ~check_pos_range(pos, Ranges(k, d, dir))
                                \/ ~l7_match(pl, profiles[d].lua[k].payload)}
  <1>1. Wanted(c, d, dir, pos, pl) = Without(s, drop)
    BY DEF Wanted
  <1>2. \A k \in K : check_pos_cutoff(pos, Ranges(k, d, dir)) => ~check_pos_range(pos, Ranges(k, d, dir))
    BY DEF check_pos_cutoff, check_pos_range
  <1>3. \A k \in K : k \in drop
    BY <1>2 DEF AllCut, Unwanted
  <1>4. \A i \in DOMAIN s : s[i] \in drop
    BY <1>3
  <1> HIDE DEF s, drop
  <1> QED BY <1>1, <1>4, NoneLeft

-----------------------------------------------------------------------------
(* What the calls leave of the flags                                       *)

\* e is d after the calls for a packet at pos in the direction dir
CutFrom(d, e, dir, pos) ==
    /\ e.dp = d.dp /\ e.n = d.n /\ e.d = d.d /\ d.icut \subseteq e.icut
    /\ \A x \in Dirs :
         /\ d.script[x] => e.script[x]
         /\ d.cutoff[x] => e.cutoff[x]
         /\ e.script[x] => e.cutoff[x] \/ d.script[x]
         /\ e.cutoff[x] /\ ~e.script[x] => (d.cutoff[x] /\ ~d.script[x]) \/ (x = dir /\ AllCut(d, d.dp, dir, pos))

LEMMA DirIs == \A s \in Sides : Dir(s) \in Dirs
  BY DEF Dir, Dirs

LEMMA DirsDiffer == ASSUME CfgInv, NEW s \in Sides, NEW t \in Sides, Dir(s) = Dir(t) PROVE s = t
  BY DEF CfgInv, Dir, Sides

LEMMA CallsCut ==
    ASSUME NEW c, DOMAIN c = TrackFields, c.live, NEW dir, NEW pos, NEW pl, NEW late, NEW fresh,
           RunDesync(c, c.dp, dir, pos, pl, late, fresh)
    PROVE  CutFrom(c, ct', dir, pos)
  <1>1. PICK called, rs : ct' = AfterCalls(c, c.dp, dir, pos, called, rs)
    BY DEF RunDesync
  <1> DEFINE script(x) == \E k \in ToSet(called) : x \in rs[k].cutoff
             all == profiles[c.dp].lua # <<>> /\ ~c.cutoff[dir] /\ AllCut(c, c.dp, dir, pos)
             icut == c.icut \cup UNION {{<<profiles[c.dp].n, k, x>> : x \in rs[k].icut} : k \in ToSet(called)}
             cutoff == [x \in Dirs |-> c.cutoff[x] \/ script(x) \/ (x = dir /\ all)]
             scr == [x \in Dirs |-> c.script[x] \/ script(x)]
  <1>2. ct' = [c EXCEPT !.icut = icut, !.cutoff = cutoff, !.script = scr]
    BY <1>1 DEF AfterCalls
  <1>3. /\ c.icut \subseteq icut
        /\ \A x \in Dirs : /\ cutoff[x] <=> c.cutoff[x] \/ script(x) \/ (x = dir /\ all)
                           /\ scr[x] <=> c.script[x] \/ script(x)
        /\ all => AllCut(c, c.dp, dir, pos)
    OBVIOUS
  <1> HIDE DEF icut, cutoff, scr, script, all
  <1>4. /\ ct'.dp = c.dp /\ ct'.n = c.n /\ ct'.d = c.d /\ ct'.icut = icut
        /\ ct'.cutoff = cutoff /\ ct'.script = scr
    BY <1>2 DEF TrackFields
  <1> QED BY <1>3, <1>4 DEF CutFrom

\* The packet misses nothing if the flag covers it.
LEMMA CallsMissNothing ==
    ASSUME NEW c, NEW d, NEW dir, NEW pos, NEW pl, NEW late, NEW fresh, RunDesync(c, d, dir, pos, pl, late, fresh),
           c.live => (c.script[dir] => c.cutoff[dir])
                     /\ (c.cutoff[dir] /\ ~c.script[dir] => late \/ AllCut(c, d, dir, pos))
    PROVE  ~last'.missed
  <1> DEFINE plan == Plan(c, d, dir, pos, pl)
             wanted == Wanted(c, d, dir, pos, pl)
             due == IF c.live /\ c.script[dir] THEN <<>> ELSE wanted
  <1>1. last' = [missed |-> due # plan /\ ~late, fresh |-> fresh]
    BY DEF RunDesync
  <1>2. AllCut(c, d, dir, pos) \/ Unwanted(d, pl) => wanted = <<>>
    BY NotWanted
  <1>3. plan = IF (c.live /\ c.cutoff[dir]) \/ AllCut(c, d, dir, pos) \/ Unwanted(d, pl) THEN <<>> ELSE wanted
    BY DEF Plan
  <1> HIDE DEF plan, wanted
  <1>4. late \/ due = plan
    BY <1>2, <1>3
  <1> HIDE DEF due
  <1> QED BY <1>1, <1>4

LEMMA SameCut ==
    ASSUME NEW c, NEW dir, NEW pos, \A x \in Dirs : c.script[x] => c.cutoff[x]
    PROVE  CutFrom(c, c, dir, pos)
  BY DEF CutFrom

LEMMA CutsStayOk ==
    ASSUME CfgInv, NEW c, Based(c), Counts(c), CutOk(c), NEW s \in Sides, NEW pos, IsPos(pos), Upto(pos, PosOf(c, s)),
           NEW e, e.live, CutFrom(c, e, Dir(s), pos)
    PROVE  Counts(e) /\ CutOk(e)
  <1>1. Counts(e)
    BY DEF Counts, CutFrom
  <1> SUFFICES ASSUME NEW t \in Sides
               PROVE  /\ e.script[Dir(t)] => e.cutoff[Dir(t)]
                      /\ e.cutoff[Dir(t)] /\ ~e.script[Dir(t)] => AllCut(e, e.dp, Dir(t), PosOf(e, t))
    BY <1>1 DEF CutOk
  <1>2. Dir(t) \in Dirs
    BY DirIs
  <1>3. e.script[Dir(t)] => e.cutoff[Dir(t)]
    BY <1>2 DEF CutFrom, CutOk
  <1>4. ASSUME e.cutoff[Dir(t)], ~e.script[Dir(t)]
        PROVE  AllCut(e, e.dp, Dir(t), PosOf(e, t))
    <2>1. PosOf(e, t) = PosOf(c, t) /\ e.dp = c.dp /\ c.icut \subseteq e.icut /\ c.live
      BY DEF PosOf, CutFrom, Based
    <2>2. IsPos(PosOf(c, t)) /\ Upto(PosOf(c, t), PosOf(c, t)) /\ c.dp \in 1 .. Len(profiles)
      BY PosOfIs DEF IsPos, Upto, Based
    <2>3. CASE c.cutoff[Dir(t)] /\ ~c.script[Dir(t)]
      <3>1. AllCut(c, c.dp, Dir(t), PosOf(c, t))
        BY <2>3 DEF CutOk
      <3> QED BY <2>1, <2>2, <3>1, AllCutGrows
    <2>4. CASE Dir(t) = Dir(s) /\ AllCut(c, c.dp, Dir(s), pos)
      <3>1. t = s
        BY <2>4, DirsDiffer
      <3> QED BY <2>1, <2>2, <2>4, <3>1, AllCutGrows
    <2> QED BY <1>2, <1>4, <2>3, <2>4 DEF CutFrom
  <1> QED BY <1>3, <1>4

-----------------------------------------------------------------------------
(* What happens to the flags before the calls                              *)

\* e has the flags of c, at a position that does not come before
Advanced(c, e) ==
    /\ e.cutoff = c.cutoff /\ e.script = c.script /\ e.icut = c.icut /\ e.dp = c.dp
    /\ \A s \in Sides : Upto(PosOf(c, s), PosOf(e, s))

\* no flag is set
Clear(c) == \A x \in Dirs : ~c.cutoff[x] /\ ~c.script[x]

LEMMA ClearIsOk == ASSUME NEW c, Clear(c) PROVE CutOk(c)
  BY DirIs DEF CutOk, Clear

LEMMA AdvancedIsOk ==
    ASSUME CfgInv, NEW c, Based(c), Counts(c), CutOk(c), NEW e, e.live, Counts(e), Advanced(c, e)
    PROVE  CutOk(e)
  <1> SUFFICES ASSUME NEW t \in Sides
               PROVE  /\ e.script[Dir(t)] => e.cutoff[Dir(t)]
                      /\ e.cutoff[Dir(t)] /\ ~e.script[Dir(t)] => AllCut(e, e.dp, Dir(t), PosOf(e, t))
    BY DEF CutOk
  <1>1. c.script[Dir(t)] => c.cutoff[Dir(t)]
    BY DEF CutOk
  <1>2. ASSUME c.cutoff[Dir(t)], ~c.script[Dir(t)]
        PROVE  AllCut(e, c.dp, Dir(t), PosOf(e, t))
    <2>1. AllCut(c, c.dp, Dir(t), PosOf(c, t))
      BY <1>2 DEF CutOk
    <2>2. IsPos(PosOf(c, t)) /\ IsPos(PosOf(e, t)) /\ Upto(PosOf(c, t), PosOf(e, t))
      BY PosOfIs DEF Advanced
    <2>3. c.live /\ c.icut \subseteq e.icut /\ c.dp \in 1 .. Len(profiles)
      BY DEF Based, Advanced
    <2> QED BY <2>1, <2>2, <2>3, AllCutGrows
  <1> QED BY <1>1, <1>2 DEF Advanced

LEMMA CountedAdvances ==
    ASSUME NEW c, DOMAIN c = TrackFields, Counts(c), NEW p, p.side \in Sides, NEW e, e = Feed(c, p),
           ~(p.flag = "SYN" /\ c.st # "syn")
    PROVE  Counts(e) /\ Advanced(c, e)
  <1> DEFINE n == [c.n EXCEPT ![p.side] = @ + 1]
             d == [c.d EXCEPT ![p.side] = @ + (IF p.pl = "empty" THEN 0 ELSE 1)]
             b == [c EXCEPT !.n = n, !.d = d]
  <1>0. b = [c EXCEPT !.n[p.side] = @ + 1, !.d[p.side] = @ + (IF p.pl = "empty" THEN 0 ELSE 1)]
    BY DEF TrackFields
  <1>1. e = b \/ e = [b EXCEPT !.st = "est", !.idle = FALSE]
    BY <1>0 DEF Feed
  <1>2. n \in [Sides -> Nat] /\ d \in [Sides -> Nat] /\ \A s \in Sides : c.n[s] <= n[s] /\ c.d[s] <= d[s]
    BY DEF Counts
  <1> HIDE DEF n, d
  <1>3. /\ DOMAIN b = TrackFields /\ b.n = n /\ b.d = d /\ b.cutoff = c.cutoff /\ b.script = c.script
        /\ b.icut = c.icut /\ b.dp = c.dp
    BY DEF TrackFields
  <1> HIDE DEF b
  <1>4. e.n = n /\ e.d = d /\ e.cutoff = c.cutoff /\ e.script = c.script /\ e.icut = c.icut /\ e.dp = c.dp
    <2>1. CASE e = b
      BY <1>3, <2>1
    <2>2. CASE e = [b EXCEPT !.st = "est", !.idle = FALSE]
      BY <1>3, <2>2 DEF TrackFields
    <2> QED BY <1>1, <2>1, <2>2
  <1> QED BY <1>2, <1>4 DEF Counts, Advanced, Upto, PosOf

LEMMA NewTrackClear == Counts(NewTrack) /\ Clear(NewTrack)
  BY DEF Counts, Clear, NewTrack, None, Dirs, Sides

LEMMA FedAdvances ==
    ASSUME CfgInv, ProfileInv, CutInv, NEW p, p.side \in Sides
    PROVE  /\ Counts(Fed(p))
           /\ ct.live /\ ~Restarts(p) => Advanced(ct, Fed(p))
           /\ ~ct.live \/ Restarts(p) => Clear(Fed(p))
  <1>1. CASE ct.live /\ ~Restarts(p)
    <2>1. Fed(p) = Feed(ct, p) /\ DOMAIN ct = TrackFields /\ Counts(ct)
      BY <1>1 DEF Fed, ProfileInv, CutInv, Based
    <2> QED BY <1>1, <2>1, CountedAdvances DEF Restarts
  <1>2. CASE ct.live /\ Restarts(p)
    <2>1. Fed(p) = NewTrack
      BY <1>2 DEF Fed, Feed, Restarts
    <2> QED BY <1>2, <2>1, NewTrackClear
  <1>3. CASE ~ct.live
    <2>1. Fed(p) = Feed(NewTrack, p) /\ NewTrack.st = "syn" /\ DOMAIN NewTrack = TrackFields
      BY <1>3, NewTrackIs DEF Fed, NewTrack
    <2>2. Counts(Fed(p)) /\ Advanced(NewTrack, Fed(p))
      BY <2>1, NewTrackClear, CountedAdvances
    <2> QED BY <1>3, <2>2, NewTrackClear DEF Clear, Advanced
  <1> QED BY <1>1, <1>2, <1>3

\* play_prolog leaves the flags and counters alone
LEMMA PrologFlags ==
    ASSUME NEW f, DOMAIN f = TrackFields, NEW p, NEW c, c = play_prolog(f, p)
    PROVE  /\ c.cutoff = f.cutoff /\ c.script = f.script /\ c.icut = f.icut /\ c.n = f.n /\ c.d = f.d
           /\ f.dp # 0 => c.dp = f.dp
  <1> DEFINE e == FirstSearch(f, p)
  <1>1. /\ DOMAIN e = TrackFields
        /\ e.cutoff = f.cutoff /\ e.script = f.script /\ e.icut = f.icut /\ e.n = f.n /\ e.d = f.d
        /\ f.dp # 0 => e.dp = f.dp
    <2>1. \/ e = f
          \/ f.dp = 0 /\ \E x, y, z : e = [f EXCEPT !.host = x, !.dp = y, !.cached = z]
          \/ f.dp = 0 /\ \E y : e = [f EXCEPT !.dp = y]
      BY DEF FirstSearch
    <2> HIDE DEF e
    <2> QED BY <2>1 DEF TrackFields
  <1>2. c = WithTtl(e, p)
    BY DEF play_prolog
  <1> HIDE DEF e
  <1>3. c = e \/ \E x : c = [e EXCEPT !.ttl = x]
    BY <1>2 DEF WithTtl
  <1> QED BY <1>1, <1>3 DEF TrackFields

LEMMA PrologCut ==
    ASSUME CfgInv, phase = "run", ProfileInv, CutInv, NEW p, p.side \in Sides, NEW c, c = play_prolog(Fed(p), p)
    PROVE  Counts(c) /\ CutOk(c) /\ (ct.live /\ ~Restarts(p) => Advanced(ct, c))
  <1> DEFINE f == Fed(p)
  <1>1. /\ DOMAIN f = TrackFields
        /\ ct.live /\ ~Restarts(p) => SameCore(ct, f)
    BY FedIs DEF Alike
  <1>2. /\ Counts(f)
        /\ ct.live /\ ~Restarts(p) => Advanced(ct, f)
        /\ ~ct.live \/ Restarts(p) => Clear(f)
    BY FedAdvances
  <1> HIDE DEF f
  <1>3. /\ c.cutoff = f.cutoff /\ c.script = f.script /\ c.icut = f.icut /\ c.n = f.n /\ c.d = f.d
        /\ f.dp # 0 => c.dp = f.dp
    BY <1>1, PrologFlags DEF f
  <1>4. Counts(c)
    BY <1>2, <1>3 DEF Counts
  <1>5. CASE ct.live /\ ~Restarts(p)
    <2>1. Based(ct) /\ Counts(ct) /\ CutOk(ct)
      BY <1>5 DEF ProfileInv, CutInv
    <2>2. f.dp # 0
      BY <1>1, <1>5, <2>1 DEF SameCore, Based
    <2>3. Advanced(ct, c)
      BY <1>2, <1>3, <1>5, <2>2 DEF Advanced, PosOf
    <2>4. c.live
      BY PrologIs DEF Based
    <2> QED BY <1>4, <2>1, <2>3, <2>4, AdvancedIsOk
  <1>6. CASE ~ct.live \/ Restarts(p)
    <2>1. Clear(c)
      BY <1>2, <1>3, <1>6 DEF Clear
    <2> QED BY <1>4, <1>6, <2>1, ClearIsOk
  <1> QED BY <1>5, <1>6

\* dp_rediscovery keeps the flags with the profile, and clears them with it
Switched(c, e) ==
    /\ e.icut = c.icut /\ e.n = c.n /\ e.d = c.d
    /\ \/ e.dp = c.dp /\ e.cutoff = c.cutoff /\ e.script = c.script
       \/ e.dp # c.dp /\ e.cutoff = None(Dirs) /\ e.script = None(Dirs)

LEMMA RediscoverySwitches ==
    ASSUME NEW c, DOMAIN c = TrackFields, NEW h, NEW e, e = dp_rediscovery(c, h)
    PROVE  Switched(c, e)
  <1> DEFINE newl7 == ~c.l7disc /\ c.l7 # "unknown"
             newhost == h.name # NoHost /\ ~c.hostdisc
             c0 == IF newhost THEN Discovered(c, h) ELSE c
             c1 == [c0 EXCEPT !.l7disc = @ \/ newl7]
             r == Researched(c1, Query(c1.host, c1.is_ip, c1.l7))
             c2 == IF newl7 \/ newhost THEN r ELSE c1
  <1>1. e = HostChecked(c2, h)
    BY DEF dp_rediscovery, SearchAgain
  <1>2. /\ DOMAIN c0 = TrackFields /\ c0.dp = c.dp /\ c0.n = c.n /\ c0.d = c.d
        /\ c0.icut = c.icut /\ c0.cutoff = c.cutoff /\ c0.script = c.script
    BY DEF Discovered, TrackFields
  <1> HIDE DEF c0
  <1>3. /\ DOMAIN c1 = TrackFields /\ c1.dp = c.dp /\ c1.n = c.n /\ c1.d = c.d
        /\ c1.icut = c.icut /\ c1.cutoff = c.cutoff /\ c1.script = c.script
    BY <1>2 DEF TrackFields
  <1> HIDE DEF c1
  <1>4. DOMAIN r = TrackFields /\ Switched(c, r)
    <2> DEFINE found == dp_find(lists, profiles, Query(c1.host, c1.is_ip, c1.l7))
    <2>1. CASE found # c1.dp
      <3> DEFINE none == None(Dirs)
                 b == [c1 EXCEPT !.script = none, !.cutoff = none]
      <3>1. \E x : r = [b EXCEPT !.dp = found, !.chk = x]
        BY <2>1 DEF Researched, dp_changed
      <3> HIDE DEF r, found, none
      <3>2. /\ DOMAIN b = TrackFields /\ b.n = c.n /\ b.d = c.d /\ b.icut = c.icut
            /\ b.cutoff = none /\ b.script = none
        BY <1>3 DEF TrackFields
      <3> HIDE DEF b
      <3>3. /\ DOMAIN r = TrackFields /\ r.n = c.n /\ r.d = c.d /\ r.icut = c.icut
            /\ r.cutoff = none /\ r.script = none /\ r.dp = found
        BY <3>1, <3>2 DEF TrackFields
      <3> QED BY <1>3, <2>1, <3>3 DEF Switched, none
    <2>2. CASE found = c1.dp
      <3>1. \E x : r = [c1 EXCEPT !.dp = found, !.chk = x]
        BY <2>2 DEF Researched
      <3> HIDE DEF r, found
      <3> QED BY <1>3, <2>2, <3>1 DEF Switched, TrackFields
    <2> QED BY <2>1, <2>2
  <1> HIDE DEF r
  <1>5. DOMAIN c2 = TrackFields /\ Switched(c, c2)
    BY <1>3, <1>4 DEF Switched
  <1> HIDE DEF c2
  <1>6. \/ e = c2
        \/ \E x : e = [c2 EXCEPT !.chk = x]
    BY <1>1 DEF HostChecked
  <1> QED BY <1>5, <1>6 DEF Switched, TrackFields

LEMMA SwitchedIsOk ==
    ASSUME CfgInv, NEW c, Based(c), Counts(c), CutOk(c), NEW e, e.live, Switched(c, e)
    PROVE  Counts(e) /\ CutOk(e)
  <1>1. Counts(e)
    BY DEF Counts, Switched
  <1>2. CASE e.dp = c.dp /\ e.cutoff = c.cutoff /\ e.script = c.script
    <2>1. Advanced(c, e)
      <3>1. \A s \in Sides : Upto(PosOf(c, s), PosOf(e, s))
        BY DEF Counts, Switched, Upto, PosOf
      <3> QED BY <1>2, <3>1 DEF Advanced, Switched
    <2> QED BY <1>1, <2>1, AdvancedIsOk
  <1>3. CASE e.cutoff = None(Dirs) /\ e.script = None(Dirs)
    <2>1. Clear(e)
      BY <1>3 DEF Clear, None
    <2> QED BY <1>1, <2>1, ClearIsOk
  <1> QED BY <1>2, <1>3 DEF Switched

-----------------------------------------------------------------------------
(* The packets that are held                                               *)

LEMMA NothingQueued == \A c : QueueOk(c, <<>>)
  BY DEF QueueOk, IsSeq

\* a packet that is held is at the same place wherever the flow is
LEMMA PacketCovered ==
    ASSUME CfgInv, NEW c, Based(c), NEW e, e.live, e.dp = c.dp, c.icut \subseteq e.icut,
           NEW p, IsPos(p), AllCut(c, c.dp, Dir("client"), p), NEW q, IsPos(q), Upto(p, q)
    PROVE  AllCut(e, e.dp, Dir("client"), q)
  BY AllCutGrows DEF Based

LEMMA QueueAdvances ==
    ASSUME CfgInv, NEW c, Based(c), Counts(c), NEW qs, QueueOk(c, qs), NEW e, e.live, Counts(e), Advanced(c, e)
    PROVE  QueueOk(e, qs)
  <1>1. ASSUME NEW i \in DOMAIN qs
        PROVE  /\ IsPos(qs[i]) /\ Upto(qs[i], PosOf(e, "client")) /\ DOMAIN qs[i] = HeldFields
               /\ e.cutoff[Dir("client")] /\ ~e.script[Dir("client")] => qs[i].late \/ AllCut(e, e.dp, Dir("client"), qs[i])
    <2>1. IsPos(qs[i]) /\ Upto(qs[i], PosOf(c, "client")) /\ DOMAIN qs[i] = HeldFields
      BY DEF QueueOk
    <2>2. IsPos(PosOf(c, "client")) /\ IsPos(PosOf(e, "client")) /\ Upto(PosOf(c, "client"), PosOf(e, "client"))
      BY PosOfIs DEF Advanced, Sides
    <2>3. Upto(qs[i], PosOf(e, "client")) /\ Upto(qs[i], qs[i])
      BY <2>1, <2>2 DEF IsPos, Upto
    <2>4. ASSUME c.cutoff[Dir("client")], ~c.script[Dir("client")], ~qs[i].late
          PROVE  AllCut(e, e.dp, Dir("client"), qs[i])
      <3>1. AllCut(c, c.dp, Dir("client"), qs[i])
        BY <2>4 DEF QueueOk
      <3>2. e.dp = c.dp /\ c.icut \subseteq e.icut
        BY DEF Advanced
      <3> QED BY <2>1, <2>3, <3>1, <3>2, PacketCovered
    <2> QED BY <2>1, <2>3, <2>4 DEF Advanced
  <1> QED BY <1>1 DEF QueueOk

LEMMA QueueAppend ==
    ASSUME CfgInv, NEW c, Based(c), Counts(c), CutOk(c), NEW qs, QueueOk(c, qs)
    PROVE  QueueOk(c, Append(qs, Queued(c)))
  <1> DEFINE q == Queued(c)
             rs == Append(qs, q)
  <1>1. /\ IsPos(q) /\ Upto(q, PosOf(c, "client")) /\ Upto(PosOf(c, "client"), q) /\ DOMAIN q = HeldFields
        /\ IsPos(PosOf(c, "client")) /\ Upto(q, q)
    BY DEF Queued, IsPos, Upto, PosOf, Counts, Sides, HeldFields
  <1> HIDE DEF q
  <1>2. c.cutoff[Dir("client")] /\ ~c.script[Dir("client")] => AllCut(c, c.dp, Dir("client"), q)
    <2>1. c.cutoff[Dir("client")] /\ ~c.script[Dir("client")] => AllCut(c, c.dp, Dir("client"), PosOf(c, "client"))
      BY DEF CutOk, Sides
    <2>2. c.live
      BY DEF Based
    <2> QED BY <1>1, <2>1, <2>2, PacketCovered
  <1>3. /\ IsSeq(rs) /\ Len(qs) \in Nat /\ DOMAIN qs = 1 .. Len(qs)
        /\ \A i \in DOMAIN rs : (i \in DOMAIN qs /\ rs[i] = qs[i]) \/ (i = Len(qs) + 1 /\ rs[i] = q)
    BY SeqAppend, SeqIs DEF QueueOk
  <1> HIDE DEF rs
  <1>4. ASSUME NEW i \in DOMAIN rs
        PROVE  /\ IsPos(rs[i]) /\ Upto(rs[i], PosOf(c, "client")) /\ DOMAIN rs[i] = HeldFields
               /\ c.cutoff[Dir("client")] /\ ~c.script[Dir("client")] => rs[i].late \/ AllCut(c, c.dp, Dir("client"), rs[i])
    <2>1. CASE i \in DOMAIN qs /\ rs[i] = qs[i]
      BY <2>1 DEF QueueOk
    <2>2. CASE rs[i] = q
      BY <1>1, <1>2, <2>2
    <2> QED BY <1>3, <2>1, <2>2
  <1>5. ASSUME NEW i \in DOMAIN rs, NEW j \in DOMAIN rs, i <= j
        PROVE  Upto(rs[i], rs[j])
    <2>1. CASE rs[j] = q
      <3>1. Upto(rs[i], PosOf(c, "client")) /\ IsPos(rs[i])
        BY <1>4
      <3> QED BY <1>1, <2>1, <3>1 DEF IsPos, Upto
    <2>2. CASE j \in DOMAIN qs /\ rs[j] = qs[j]
      <3>1. i \in DOMAIN qs /\ rs[i] = qs[i]
        BY <1>3, <1>5, <2>2
      <3> QED BY <1>5, <2>2, <3>1 DEF QueueOk
    <2> QED BY <1>3, <2>1, <2>2
  <1>6. QueueOk(c, rs)
    BY <1>3, <1>4, <1>5 DEF QueueOk
  <1> QED BY <1>6 DEF rs, q

\* A packet sets the flag, or changes the profile, while others are held.
LEMMA QueueOvertaken ==
    ASSUME CfgInv, Based(ct), Counts(ct), QueueOk(ct, held), Based(ct'), Counts(ct'), ct.icut \subseteq ct'.icut,
           Upto(PosOf(ct, "client"), PosOf(ct', "client")),
           ct'.dp = ct.dp => (ct.script[Dir("client")] => ct'.script[Dir("client")])
    PROVE  QueueOk(ct', Overtaken(held))
  <1> DEFINE late == ct'.cutoff[Dir("client")] /\ (ct.cutoff[Dir("client")] => ct'.dp # ct.dp)
             rs == Overtaken(held)
  <1>1. rs = [i \in DOMAIN held |-> [held[i] EXCEPT !.late = @ \/ late]]
    BY DEF Overtaken
  <1>2. DOMAIN rs = DOMAIN held /\ IsSeq(rs)
    <2>1. Len(held) \in Nat /\ DOMAIN held = 1 .. Len(held)
      BY SeqIs DEF QueueOk
    <2> DEFINE S == {rs[i] : i \in DOMAIN held}
    <2>2. rs \in Seq(S)
      BY <1>1, <2>1
    <2> QED BY <1>1, <2>2 DEF IsSeq
  <1> HIDE DEF late, rs
  <1>3. ASSUME NEW i \in DOMAIN held
        PROVE  /\ IsPos(held[i]) /\ DOMAIN held[i] = HeldFields /\ IsPos(rs[i]) /\ DOMAIN rs[i] = HeldFields
               /\ rs[i].n = held[i].n /\ rs[i].d = held[i].d
               /\ rs[i].late <=> held[i].late \/ late
    <2>1. IsPos(held[i]) /\ DOMAIN held[i] = HeldFields
      BY DEF QueueOk
    <2> DEFINE q == held[i]
               v == q.late \/ late
    <2>2. rs[i] = [q EXCEPT !.late = v]
      BY <1>1
    <2> HIDE DEF q, v
    <2>3. /\ DOMAIN rs[i] = DOMAIN q /\ rs[i].tracked = q.tracked /\ rs[i].n = q.n /\ rs[i].d = q.d
          /\ rs[i].late = v
      BY <2>1, <2>2 DEF q, IsPos, HeldFields
    <2>4. rs[i].late <=> held[i].late \/ late
      BY <2>3 DEF v, q
    <2>5. IsPos(rs[i]) /\ DOMAIN rs[i] = HeldFields
      BY <2>1, <2>3 DEF q, IsPos
    <2> QED BY <2>1, <2>3, <2>4, <2>5 DEF q
  <1>4. ASSUME NEW i \in DOMAIN held
        PROVE  /\ Upto(rs[i], PosOf(ct', "client"))
               /\ ct'.cutoff[Dir("client")] /\ ~ct'.script[Dir("client")] =>
                    rs[i].late \/ AllCut(ct', ct'.dp, Dir("client"), rs[i])
    <2>1. Upto(held[i], PosOf(ct, "client")) /\ IsPos(PosOf(ct, "client")) /\ IsPos(PosOf(ct', "client"))
      BY PosOfIs DEF QueueOk, Sides
    <2>2. Upto(rs[i], PosOf(ct', "client")) /\ Upto(held[i], rs[i])
      BY <1>3, <2>1 DEF Upto, IsPos
    <2>3. ASSUME ct'.cutoff[Dir("client")], ~ct'.script[Dir("client")], ~rs[i].late
          PROVE  AllCut(ct', ct'.dp, Dir("client"), rs[i])
      <3>1. ct.cutoff[Dir("client")] /\ ct'.dp = ct.dp /\ ~held[i].late
        BY <1>3, <2>3 DEF late
      <3>2. ~ct.script[Dir("client")]
        BY <2>3, <3>1
      <3>3. AllCut(ct, ct.dp, Dir("client"), held[i])
        BY <3>1, <3>2 DEF QueueOk
      <3>4. ct'.live
        BY DEF Based
      <3> QED BY <1>3, <2>2, <3>1, <3>3, <3>4, PacketCovered
    <2> QED BY <2>2, <2>3
  <1>5. \A i, j \in DOMAIN held : i <= j => Upto(rs[i], rs[j])
    BY <1>3 DEF QueueOk, Upto
  <1>6. QueueOk(ct', rs)
    BY <1>2, <1>3, <1>4, <1>5 DEF QueueOk
  <1> QED BY <1>6 DEF rs

\* The first packet is replayed, with d after dp_rediscovery.
LEMMA QueueReplayed ==
    ASSUME CfgInv, NEW c, Based(c), NEW qs, qs # <<>>, QueueOk(c, qs), Counts(c), NEW d, Based(d), Switched(c, d),
           NEW e, e.live, CutFrom(d, e, Dir("client"), Head(qs))
    PROVE  QueueOk(e, Tail(qs))
  <1> DEFINE q == Head(qs)
             rs == Tail(qs)
  <1>1. /\ IsSeq(rs) /\ DOMAIN qs = 1 .. Len(qs) /\ Len(qs) \in Nat /\ 1 \in DOMAIN qs /\ q = qs[1]
        /\ \A i \in DOMAIN rs : i \in Nat /\ i >= 1 /\ i + 1 \in DOMAIN qs /\ rs[i] = qs[i + 1]
    BY DEF QueueOk, IsSeq
  <1> HIDE DEF q, rs
  <1>2. ASSUME NEW i \in DOMAIN rs
        PROVE  /\ IsPos(rs[i]) /\ Upto(rs[i], PosOf(e, "client")) /\ DOMAIN rs[i] = HeldFields
               /\ e.cutoff[Dir("client")] /\ ~e.script[Dir("client")] => rs[i].late \/ AllCut(e, e.dp, Dir("client"), rs[i])
    <2>1. IsPos(rs[i]) /\ Upto(rs[i], PosOf(c, "client")) /\ DOMAIN rs[i] = HeldFields /\ IsPos(q) /\ Upto(q, rs[i])
      BY <1>1 DEF QueueOk
    <2>2. PosOf(e, "client") = PosOf(c, "client") /\ Upto(rs[i], rs[i])
      BY <2>1 DEF PosOf, CutFrom, Switched, Upto, IsPos
    <2>3. ASSUME e.cutoff[Dir("client")], ~e.script[Dir("client")], ~rs[i].late
          PROVE  AllCut(e, e.dp, Dir("client"), rs[i])
      <3>1. Dir("client") \in Dirs
        BY DirIs DEF Sides
      <3>2. e.dp = d.dp /\ d.icut \subseteq e.icut /\ c.icut \subseteq e.icut
        BY DEF CutFrom, Switched
      <3>3. CASE d.cutoff[Dir("client")] /\ ~d.script[Dir("client")]
        <4>1. d.dp = c.dp /\ d.cutoff = c.cutoff /\ d.script = c.script
          BY <3>1, <3>3 DEF Switched, None
        <4>2. AllCut(c, c.dp, Dir("client"), rs[i])
          BY <1>1, <2>3, <3>3, <4>1 DEF QueueOk
        <4> QED BY <2>1, <2>2, <3>2, <4>1, <4>2, PacketCovered
      <3>4. CASE AllCut(d, d.dp, Dir("client"), q)
        BY <2>1, <3>2, <3>4, PacketCovered
      <3> QED BY <2>3, <3>1, <3>3, <3>4 DEF CutFrom, q
    <2> QED BY <2>1, <2>2, <2>3
  <1>3. ASSUME NEW i \in DOMAIN rs, NEW j \in DOMAIN rs, i <= j
        PROVE  Upto(rs[i], rs[j])
    <2>1. i + 1 <= j + 1
      BY <1>1, <1>3
    <2> QED BY <1>1, <2>1 DEF QueueOk
  <1>4. QueueOk(e, rs)
    BY <1>1, <1>2, <1>3 DEF QueueOk
  <1> QED BY <1>4 DEF rs

-----------------------------------------------------------------------------
(* Each step keeps CutInv                                                  *)

LEMMA CutPrime ==
    ASSUME UNCHANGED cfgVars, ct'.live => Counts(ct') /\ CutOk(ct') /\ QueueOk(ct', held') /\ QueueOk(ct', replaying'),
           replaying' # <<>> => held' = <<>>, ~last'.missed
    PROVE  CutInv'
  <1>1. profiles' = profiles /\ glob' = glob
    BY DEF cfgVars
  <1>2. Counts(ct') => (Counts(ct))'
    BY DEF Counts
  <1>3. \A s : (Dir(s))' = Dir(s)
    BY <1>1 DEF Dir
  <1>4. \A c, d, dir, pos : (AllCut(c, d, dir, pos))' <=> AllCut(c, d, dir, pos)
    BY <1>1 DEF AllCut, InstanceCut, Ranges
  <1>5. CutOk(ct') => (CutOk(ct))'
    BY <1>3, <1>4 DEF CutOk, PosOf
  <1>6. QueueOk(ct', held') => (QueueOk(ct, held))'
    BY <1>3, <1>4 DEF QueueOk, PosOf, Upto, IsPos
  <1>7. QueueOk(ct', replaying') => (QueueOk(ct, replaying))'
    BY <1>3, <1>4 DEF QueueOk, PosOf, Upto, IsPos
  <1> QED BY <1>2, <1>5, <1>6, <1>7 DEF CutInv

\* dp_rediscovery and the calls, for a packet at pos that the flag covers
LEMMA RediscoveredCuts ==
    ASSUME CfgInv, phase = "run", NEW c, Based(c), Settled(c) \/ Unsearched(c), Counts(c), CutOk(c), NEW h,
           h.name # NoHost => c.l7 # "unknown", NEW s \in Sides, NEW pos, IsPos(pos), Upto(pos, PosOf(c, s)),
           NEW pl, NEW late, NEW fresh, NEW d, d = dp_rediscovery(c, h),
           Rediscovered(c, d, h, Dir(s), pos, pl, late, fresh),
           c.cutoff[Dir(s)] /\ ~c.script[Dir(s)] => late \/ AllCut(c, c.dp, Dir(s), pos)
    PROVE  /\ Based(d) /\ Switched(c, d) /\ CutFrom(d, ct', Dir(s), pos)
           /\ Based(ct') /\ Counts(ct') /\ CutOk(ct') /\ ~last'.missed
  <1>1. Based(d) /\ d.live /\ DOMAIN d = TrackFields
    BY RediscoveryIs DEF Based
  <1>2. Switched(c, d)
    BY RediscoverySwitches DEF Based
  <1>3. Counts(d) /\ CutOk(d)
    BY <1>1, <1>2, SwitchedIsOk
  <1>4. PosOf(d, s) = PosOf(c, s) /\ Dir(s) \in Dirs
    BY <1>2, DirIs DEF Switched, PosOf
  <1>5. d.cutoff[Dir(s)] /\ ~d.script[Dir(s)] => late \/ AllCut(d, d.dp, Dir(s), pos)
    <2>1. CASE d.dp = c.dp /\ d.cutoff = c.cutoff /\ d.script = c.script
      <3>1. AllCut(c, c.dp, Dir(s), pos) => AllCut(d, d.dp, Dir(s), pos)
        BY <1>1, <1>2, <2>1 DEF AllCut, InstanceCut, Switched
      <3> QED BY <2>1, <3>1
    <2>2. CASE d.cutoff = None(Dirs)
      BY <1>4, <2>2 DEF None
    <2> QED BY <1>2, <2>1, <2>2 DEF Switched
  <1>6. CASE RunDesync(d, d.dp, Dir(s), pos, pl, late, fresh)
    <2>1. CutFrom(d, ct', Dir(s), pos)
      BY <1>1, <1>6, CallsCut
    <2>2. Alike(d, ct')
      BY <1>1, <1>6, RunAlike
    <2>3. Based(ct') /\ ct'.live
      BY <1>1, <2>2, CoreKeeps DEF Alike, Based
    <2>4. Counts(ct') /\ CutOk(ct')
      BY <1>1, <1>3, <1>4, <2>1, <2>3, CutsStayOk
    <2>5. d.script[Dir(s)] => d.cutoff[Dir(s)]
      BY <1>3 DEF CutOk
    <2>6. ~last'.missed
      BY <1>5, <1>6, <2>5, CallsMissNothing
    <2> QED BY <1>1, <1>2, <2>1, <2>3, <2>4, <2>6
  <1>7. CASE ct' = d /\ last' = [missed |-> FALSE, fresh |-> fresh]
    <2>1. \A x \in Dirs : \E t \in Sides : x = Dir(t)
      BY DEF CfgInv, Dirs, Sides, Dir
    <2>2. \A x \in Dirs : d.script[x] => d.cutoff[x]
      BY <1>3, <2>1 DEF CutOk
    <2>3. CutFrom(d, d, Dir(s), pos)
      BY <2>2, SameCut
    <2> QED BY <1>1, <1>2, <1>3, <1>7, <2>3
  <1> QED BY <1>6, <1>7 DEF Rediscovered

LEMMA NoneOvertaken == ASSUME held = <<>> PROVE Overtaken(held) = <<>>
  BY DEF Overtaken

LEMMA CutFlowPacket ==
    ASSUME CfgInv, QuietInv, ProfileInv, CutInv, NEW p \in FlowPackets, FlowPacket(p)
    PROVE  CutInv'
  <1> DEFINE c == play_prolog(Fed(p), p)
             c2 == [c EXCEPT !.l7 = Probe(@, p.pl)]
             c3 == dp_rediscovery(c2, p.h)
             fresh == Cached(Fed(p), p) => IsFresh(ipcache_get_hostname(purged, glob.ipcache_hostname, Target), Target)
             no == FALSE
  <1>1. /\ phase = "run" /\ UNCHANGED <<cfgVars, replaying>> /\ replaying = <<>>
        /\ Rediscovered(c2, c3, p.h, Dir(p.side), PosOf(c, p.side), p.pl, no, fresh)
        /\ held' = IF c3.chk = "neg" \/ Restarts(p) THEN <<>> ELSE Overtaken(held)
    BY DEF FlowPacket, PlayTcp, Arrives, Ready, Counted, Restarts
  <1> HIDE DEF no
  <1>2. p.side \in Sides /\ (p.h.name # NoHost => p.pl \in {"http_req", "tls_client_hello"})
    BY DEF FlowPackets, Pkt, NoHostname, Sides
  <1>3. /\ Based(c)
        /\ \/ ct.live /\ ~Restarts(p) /\ Alike(ct, c)
           \/ (~ct.live \/ Restarts(p)) /\ Settled(c) /\ c.l7 = "unknown"
    BY <1>1, PrologIs
  <1>4. Counts(c) /\ CutOk(c) /\ (ct.live /\ ~Restarts(p) => Advanced(ct, c))
    BY <1>1, <1>2, PrologCut
  <1> HIDE DEF c, c3, fresh
  <1>5. Settled(c) \/ Unsearched(c)
    BY <1>3, CoreKeeps DEF ProfileInv, Alike
  <1>6. Based(c2) /\ (Settled(c2) \/ Unsearched(c2)) /\ (p.h.name # NoHost => c2.l7 # "unknown")
    BY <1>2, <1>3, <1>5, ProbeIs
  <1>7. /\ c2.cutoff = c.cutoff /\ c2.script = c.script /\ c2.icut = c.icut /\ c2.dp = c.dp
        /\ c2.n = c.n /\ c2.d = c.d
    BY <1>3 DEF Based, TrackFields
  <1> HIDE DEF c2
  <1>8. Counts(c2) /\ Advanced(c, c2) /\ PosOf(c, p.side) = PosOf(c2, p.side)
    <2>1. Counts(c2) /\ \A s \in Sides : PosOf(c, s) = PosOf(c2, s)
      BY <1>4, <1>7 DEF Counts, PosOf
    <2>2. \A s \in Sides : Upto(PosOf(c, s), PosOf(c2, s))
      BY <1>4, <2>1, PosOfIs DEF Upto, IsPos
    <2> QED BY <1>2, <1>7, <2>1, <2>2 DEF Advanced
  <1>9. CutOk(c2)
    BY <1>3, <1>4, <1>6, <1>8, AdvancedIsOk DEF Based
  <1> DEFINE pos == PosOf(c, p.side)
  <1>10. IsPos(pos) /\ Upto(pos, PosOf(c2, p.side))
         /\ (c2.cutoff[Dir(p.side)] /\ ~c2.script[Dir(p.side)] => no \/ AllCut(c2, c2.dp, Dir(p.side), pos))
    <2>1. IsPos(pos) /\ Upto(pos, PosOf(c2, p.side))
      BY <1>2, <1>8, PosOfIs DEF Upto, IsPos
    <2> QED BY <1>2, <1>8, <1>9, <2>1 DEF CutOk
  <1>11. Rediscovered(c2, c3, p.h, Dir(p.side), pos, p.pl, no, fresh)
    BY <1>1
  <1> HIDE DEF pos
  <1>12. /\ Based(c3) /\ Switched(c2, c3) /\ CutFrom(c3, ct', Dir(p.side), pos)
         /\ Based(ct') /\ Counts(ct') /\ CutOk(ct') /\ ~last'.missed
    <2>1. c3 = dp_rediscovery(c2, p.h)
      BY DEF c3
    <2> QED BY <1>1, <1>2, <1>6, <1>8, <1>9, <1>10, <1>11, <2>1, RediscoveredCuts
  <1>13. QueueOk(ct', held')
    <2>1. CASE held' = <<>>
      BY <2>1, NothingQueued
    <2>2. CASE held' # <<>>
      <3>1. held' = Overtaken(held) /\ held # <<>> /\ ~Restarts(p)
        BY <1>1, <2>2, NoneOvertaken
      <3>2. ct.live /\ Based(ct) /\ Counts(ct) /\ QueueOk(ct, held)
        BY <3>1 DEF ProfileInv, CutInv
      <3>3. Advanced(ct, c)
        BY <1>4, <3>1, <3>2
      <3>4. Dir("client") \in Dirs /\ "client" \in Sides
        BY DirIs DEF Sides
      <3>5. ct.icut \subseteq ct'.icut /\ ct'.n = c.n /\ ct'.d = c.d
        BY <1>7, <1>12, <3>3 DEF Advanced, Switched, CutFrom
      <3>6. Upto(PosOf(ct, "client"), PosOf(ct', "client"))
        BY <3>3, <3>4, <3>5 DEF Advanced, PosOf
      <3>7. ASSUME ct'.dp = ct.dp, ct.script[Dir("client")]
            PROVE  ct'.script[Dir("client")]
        <4>1. c3.dp = c2.dp
          BY <1>7, <1>12, <3>3, <3>7 DEF CutFrom, Advanced
        <4>2. c3.script = ct.script
          BY <1>7, <1>12, <3>3, <4>1 DEF Switched, Advanced
        <4> QED BY <1>12, <3>4, <3>7, <4>2 DEF CutFrom
      <3> QED BY <1>12, <3>1, <3>2, <3>5, <3>6, <3>7, QueueOvertaken
    <2> QED BY <2>1, <2>2
  <1>14. QueueOk(ct', replaying') /\ replaying' = <<>>
    BY <1>1, NothingQueued
  <1> QED BY <1>1, <1>12, <1>13, <1>14, CutPrime

LEMMA CutHello ==
    ASSUME CfgInv, QuietInv, ProfileInv, CutInv, NEW h, NEW i, HelloPart(h, i) \/ HelloRest(i)
    PROVE  CutInv'
  <1>1. CASE HelloPart(h, i)
    <2> DEFINE p == Pkt("client", "ACK", "tls_client_hello", h, i)
               c == play_prolog(Fed(p), p)
    <2>1. /\ phase = "run" /\ UNCHANGED cfgVars /\ ct.live /\ replaying = <<>> /\ replaying' = replaying
          /\ ct' = [c EXCEPT !.l7 = Probe(@, "tls_client_hello")] /\ held' = <<Queued(c)>>
          /\ last' = [missed |-> FALSE, fresh |-> TRUE]
      BY <1>1 DEF HelloPart, Arrives, Ready, Counted, Pkt
    <2>2. ~Restarts(p) /\ p.side \in Sides
      BY DEF Restarts, Pkt, Sides
    <2>3. Based(c)
      BY <2>1, PrologIs
    <2>4. Counts(c) /\ CutOk(c)
      BY <2>1, <2>2, PrologCut
    <2> HIDE DEF c, p
    <2>5. QueueOk(c, <<Queued(c)>>)
      <3>1. QueueOk(c, Append(<<>>, Queued(c)))
        BY <2>3, <2>4, NothingQueued, QueueAppend
      <3>2. Append(<<>>, Queued(c)) = <<Queued(c)>>
        OBVIOUS
      <3> QED BY <3>1, <3>2
    <2>6. /\ ct'.live /\ ct'.cutoff = c.cutoff /\ ct'.script = c.script /\ ct'.icut = c.icut /\ ct'.dp = c.dp
          /\ ct'.n = c.n /\ ct'.d = c.d
      BY <2>1, <2>3 DEF Based, TrackFields
    <2>7. Counts(ct') /\ Advanced(c, ct')
      <3>1. Counts(ct') /\ \A s \in Sides : PosOf(c, s) = PosOf(ct', s)
        BY <2>4, <2>6 DEF Counts, PosOf
      <3>2. \A s \in Sides : Upto(PosOf(c, s), PosOf(ct', s))
        BY <2>4, <3>1, PosOfIs DEF Upto, IsPos
      <3> QED BY <2>6, <3>1, <3>2 DEF Advanced
    <2>8. CutOk(ct')
      BY <2>3, <2>4, <2>6, <2>7, AdvancedIsOk
    <2>9. QueueOk(ct', held')
      <3>1. QueueOk(ct', <<Queued(c)>>)
        BY <2>3, <2>4, <2>5, <2>6, <2>7, QueueAdvances
      <3> QED BY <2>1, <3>1
    <2>10. QueueOk(ct', replaying') /\ replaying' = <<>>
      BY <2>1, NothingQueued
    <2> QED BY <2>1, <2>7, <2>8, <2>9, <2>10, CutPrime
  <1>2. CASE HelloRest(i)
    <2> DEFINE p == Pkt("client", "ACK", "tls_client_hello", hello, i)
               c == play_prolog(Fed(p), p)
    <2>1. /\ phase = "run" /\ UNCHANGED cfgVars /\ held # <<>> /\ held' = <<>>
          /\ ct' = c /\ replaying' = Append(held, Queued(c)) /\ last' = [missed |-> FALSE, fresh |-> TRUE]
      BY <1>2 DEF HelloRest, Arrives, Ready, Counted
    <2>2. ~Restarts(p) /\ p.side \in Sides
      BY DEF Restarts, Pkt, Sides
    <2>3. ct.live /\ Based(ct) /\ Counts(ct) /\ QueueOk(ct, held)
      BY <2>1 DEF ProfileInv, CutInv
    <2>4. Based(c) /\ c.live
      BY <2>1, PrologIs DEF Based
    <2>5. Counts(c) /\ CutOk(c) /\ Advanced(ct, c)
      BY <2>1, <2>2, <2>3, PrologCut
    <2> HIDE DEF c, p
    <2>6. QueueOk(c, held)
      BY <2>3, <2>4, <2>5, QueueAdvances
    <2>7. QueueOk(c, Append(held, Queued(c)))
      BY <2>4, <2>5, <2>6, QueueAppend
    <2>8. QueueOk(ct', replaying') /\ QueueOk(ct', held')
      BY <2>1, <2>7, NothingQueued
    <2> QED BY <2>1, <2>5, <2>8, CutPrime
  <1> QED BY <1>1, <1>2

LEMMA CutReplay ==
    ASSUME CfgInv, QuietInv, ProfileInv, CutInv, Replay
    PROVE  CutInv'
  <1> DEFINE q == Head(replaying)
             d == dp_rediscovery(ct, hello)
             yes == TRUE
             pl == "tls_client_hello"
             late == q.late
             s == "client"
  <1>1. /\ replaying # <<>> /\ UNCHANGED <<cfgVars, held>> /\ replaying' = Tail(replaying)
        /\ Rediscovered(ct, d, hello, Dir(s), q, pl, late, yes)
    BY DEF Replay
  <1>2. /\ phase = "run" /\ ct.live /\ ct.l7 # "unknown" /\ Based(ct) /\ (Settled(ct) \/ Unsearched(ct))
        /\ held = <<>> /\ Counts(ct) /\ CutOk(ct) /\ QueueOk(ct, replaying)
    BY <1>1 DEF QuietInv, ProfileInv, CutInv
  <1>3. 1 \in DOMAIN replaying /\ q = replaying[1] /\ s \in Sides
    BY <1>1, <1>2 DEF QueueOk, IsSeq, Sides
  <1>4. /\ IsPos(q) /\ Upto(q, PosOf(ct, s))
        /\ ct.cutoff[Dir(s)] /\ ~ct.script[Dir(s)] => late \/ AllCut(ct, ct.dp, Dir(s), q)
    BY <1>2, <1>3 DEF QueueOk
  <1>5. d = dp_rediscovery(ct, hello)
    OBVIOUS
  <1> HIDE DEF q, d, yes, pl, late
  <1>6. /\ Based(d) /\ Switched(ct, d) /\ CutFrom(d, ct', Dir(s), q)
        /\ Based(ct') /\ Counts(ct') /\ CutOk(ct') /\ ~last'.missed
    <2> HIDE DEF s
    <2> QED BY <1>1, <1>2, <1>3, <1>4, <1>5, RediscoveredCuts
  <1>7. QueueOk(ct', replaying')
    <2>1. CutFrom(d, ct', Dir("client"), Head(replaying)) /\ ct'.live
      BY <1>6 DEF q, Based
    <2>2. QueueOk(ct', Tail(replaying))
      BY <1>1, <1>2, <1>6, <2>1, QueueReplayed
    <2> QED BY <1>1, <2>2
  <1>8. QueueOk(ct', held') /\ held' = <<>>
    BY <1>1, <1>2, NothingQueued
  <1> QED BY <1>1, <1>6, <1>7, <1>8, CutPrime

LEMMA CutIcmp ==
    ASSUME CfgInv, QuietInv, ProfileInv, CutInv, NEW side \in Sides, RelatedIcmp(side)
    PROVE  CutInv'
  <1> DEFINE s == CHOOSE x \in Sides : x # side
             pos == PosOf(ct, s)
             pl == "ipv4"
             no == FALSE
             yes == TRUE
  <1>1. /\ UNCHANGED <<cfgVars, replaying>> /\ ct.live /\ held' = Overtaken(held) /\ replaying = <<>>
        /\ RunDesync(ct, ct.dp, Dir(s), pos, pl, no, yes)
    BY DEF RelatedIcmp, OtherCounted, OtherArrives, Ready
  <1>2. s \in Sides
    <2>1. \E x \in Sides : x # side
      BY DEF Sides
    <2> QED BY <2>1
  <1>3. Based(ct) /\ DOMAIN ct = TrackFields /\ Counts(ct) /\ CutOk(ct) /\ QueueOk(ct, held)
    BY <1>1 DEF ProfileInv, CutInv, Based
  <1> HIDE DEF s, pl, no, yes
  <1>4. /\ IsPos(pos) /\ Upto(pos, PosOf(ct, s))
        /\ ct.script[Dir(s)] => ct.cutoff[Dir(s)]
        /\ ct.cutoff[Dir(s)] /\ ~ct.script[Dir(s)] => no \/ AllCut(ct, ct.dp, Dir(s), pos)
    <2>1. IsPos(pos) /\ Upto(pos, PosOf(ct, s))
      BY <1>2, <1>3, PosOfIs DEF Upto, IsPos
    <2> QED BY <1>2, <1>3, <2>1 DEF CutOk
  <1> HIDE DEF pos
  <1>5. CutFrom(ct, ct', Dir(s), pos) /\ Alike(ct, ct') /\ ~last'.missed
    BY <1>1, <1>3, <1>4, CallsCut, RunAlike, CallsMissNothing
  <1>6. Based(ct') /\ ct'.live
    BY <1>3, <1>5, CoreKeeps DEF Alike
  <1>7. Counts(ct') /\ CutOk(ct')
    BY <1>2, <1>3, <1>4, <1>5, <1>6, CutsStayOk
  <1>8. QueueOk(ct', Overtaken(held))
    <2>1. Dir("client") \in Dirs /\ "client" \in Sides
      BY DirIs DEF Sides
    <2>2. Upto(PosOf(ct, "client"), PosOf(ct', "client"))
      <3>1. PosOf(ct, "client") = PosOf(ct', "client")
        BY <1>5 DEF CutFrom, PosOf
      <3> QED BY <1>3, <2>1, <3>1, PosOfIs DEF Upto, IsPos
    <2>3. ct.icut \subseteq ct'.icut /\ (ct.script[Dir("client")] => ct'.script[Dir("client")])
      BY <1>5, <2>1 DEF CutFrom
    <2> QED BY <1>3, <1>6, <1>7, <2>2, <2>3, QueueOvertaken
  <1>9. QueueOk(ct', held') /\ QueueOk(ct', replaying') /\ replaying' = <<>>
    BY <1>1, <1>8, NothingQueued
  <1> QED BY <1>1, <1>5, <1>7, <1>9, CutPrime

\* A packet without an entry is cut off by nothing that was remembered.
LEMMA NoEntryMissesNothing ==
    ASSUME NEW c, ~c.live, NEW d, NEW dir, NEW pos, NEW pl, NEW late, NEW fresh,
           RunDesync(c, d, dir, pos, pl, late, fresh)
    PROVE  ct' = ct /\ ~last'.missed
  <1>1. ct' = ct
    BY DEF RunDesync
  <1> QED BY <1>1, CallsMissNothing

LEMMA CutStutter ==
    ASSUME CutInv, UNCHANGED <<cfgVars, ct, held, replaying>>, ~last'.missed
    PROVE  CutInv'
  <1>1. ct' = ct /\ held' = held /\ replaying' = replaying /\ UNCHANGED cfgVars
    OBVIOUS
  <1> QED BY <1>1, CutPrime DEF CutInv

LEMMA CutStep ==
    ASSUME CfgInv, QuietInv, ProfileInv, CutInv, [Next]_vars
    PROVE  CutInv'
  <1>1. CASE UNCHANGED vars
    BY <1>1, CutStutter DEF vars, flowVars, CutInv
  <1>2. CASE Configure
    <2>1. ct = NoEntry /\ held = <<>> /\ replaying = <<>> /\ UNCHANGED flowVars /\ ~last.missed /\ last' = last
      BY <1>2, ConfigureFirst DEF QuietInv, Configure
    <2> QED BY <2>1, NoEntryIs DEF CutInv, flowVars
  <1>3. ASSUME NEW p \in FlowPackets, FlowPacket(p)
        PROVE  CutInv'
    BY <1>3, CutFlowPacket
  <1>4. ASSUME NEW p \in FlowPackets, UntrackedPacket(p)
        PROVE  CutInv'
    <2> DEFINE c1 == [NoEntry EXCEPT !.dp = Find(NoHost, FALSE, "unknown"), !.l7 = Probe("unknown", p.pl)]
               c2 == dp_rediscovery(c1, p.h)
               no == FALSE
               yes == TRUE
               e == c2.dp
               dir == Dir(p.side)
               pl == p.pl
    <2>1. /\ UNCHANGED <<cfgVars, held, replaying>>
          /\ \/ ct' = ct /\ last' = [missed |-> FALSE, fresh |-> TRUE]
             \/ RunDesync(c2, e, dir, NoPos, pl, no, yes)
      BY <1>4 DEF UntrackedPacket, Counted
    <2>2. DOMAIN c1 = TrackFields /\ ~c1.live
      BY NoEntryIs DEF TrackFields
    <2> HIDE DEF c1
    <2>3. DOMAIN c2 = TrackFields /\ ~c2.live
      BY <2>2, RediscoveryKeeps
    <2> HIDE DEF c2, no, yes, e, dir, pl
    <2>4. ct' = ct /\ ~last'.missed
      BY <2>1, <2>3, NoEntryMissesNothing
    <2> QED BY <2>1, <2>4, CutStutter
  <1>5. ASSUME NEW h \in Hosts, NEW i \in Ifaces, HelloPart(h, i)
        PROVE  CutInv'
    BY <1>5, CutHello
  <1>6. ASSUME NEW i \in Ifaces, HelloRest(i)
        PROVE  CutInv'
    BY <1>6, CutHello
  <1>7. CASE Replay
    BY <1>7, CutReplay
  <1>8. ASSUME NEW s \in Sides, RelatedIcmp(s)
        PROVE  CutInv'
    BY <1>8, CutIcmp
  <1>9. ASSUME NEW l4 \in {"icmp", "gre"}, NEW s \in Addrs, NEW d \in Addrs, NEW dir \in Dirs,
               OtherPacket(l4, s, d, dir)
        PROVE  CutInv'
    <2>1. /\ UNCHANGED <<cfgVars, held, replaying>>
          /\ \E e, pl, late, fresh : RunDesync(NoEntry, e, dir, NoPos, pl, late, fresh)
      BY <1>9, OtherRuns
    <2>2. ct' = ct /\ ~last'.missed
      BY <2>1, NoEntryIs, NoEntryMissesNothing
    <2> QED BY <2>1, <2>2, CutStutter
  <1>10. ASSUME NEW h, NEW as \in SUBSET Addrs, DnsResponse(h, as)
         PROVE  CutInv'
    BY <1>10, CutStutter DEF DnsResponse, OtherCounted, CutInv
  <1>11. CASE Tick
    <2>1. UNCHANGED <<cfgVars, held, replaying, last>> /\ ct' = [ct EXCEPT !.idle = TRUE]
      BY <1>11 DEF Tick
    <2>2. CASE ct.live
      <3>1. Based(ct) /\ Counts(ct) /\ CutOk(ct) /\ QueueOk(ct, held) /\ QueueOk(ct, replaying)
        BY <2>2 DEF ProfileInv, CutInv
      <3>2. /\ ct'.live /\ ct'.cutoff = ct.cutoff /\ ct'.script = ct.script /\ ct'.icut = ct.icut
            /\ ct'.dp = ct.dp /\ ct'.n = ct.n /\ ct'.d = ct.d
        BY <2>1, <2>2, <3>1 DEF Based, TrackFields
      <3>3. Counts(ct') /\ Advanced(ct, ct')
        <4>1. Counts(ct') /\ \A s \in Sides : PosOf(ct, s) = PosOf(ct', s)
          BY <3>1, <3>2 DEF Counts, PosOf
        <4>2. \A s \in Sides : Upto(PosOf(ct, s), PosOf(ct', s))
          BY <3>1, <4>1, PosOfIs DEF Upto, IsPos
        <4> QED BY <3>2, <4>1, <4>2 DEF Advanced
      <3>4. CutOk(ct') /\ QueueOk(ct', held) /\ QueueOk(ct', replaying)
        BY <3>1, <3>2, <3>3, AdvancedIsOk, QueueAdvances
      <3>5. QueueOk(ct', held') /\ QueueOk(ct', replaying')
        BY <2>1, <3>4
      <3> QED BY <2>1, <3>3, <3>4, <3>5, CutPrime DEF CutInv
    <2>3. CASE ~ct.live
      <3>1. ~ct'.live
        BY <2>1, <2>3
      <3> QED BY <2>1, <3>1 DEF CutInv
    <2> QED BY <2>2, <2>3
  <1>12. CASE PurgeEntry
    <2>1. ct' = NoEntry /\ held' = <<>> /\ replaying' = <<>> /\ last' = last
      BY <1>12 DEF PurgeEntry, Ready
    <2> QED BY <2>1, NoEntryIs DEF CutInv
  <1> QED BY <1>1, <1>2, <1>3, <1>4, <1>5, <1>6, <1>7, <1>8, <1>9, <1>10, <1>11, <1>12 DEF Next

\* The shortcuts of desync() (the flag of the entry, the ranges and the payloads of
\* all instances) skip no instance that a packet is meant for, for every command
\* line with ranges in packet counters: a flag that Lua did not ask for was set where
\* every instance was past its range, positions only grow, and dp_changed clears the
\* flag with the profile it was about.
THEOREM ShortcutsMissNothing == Spec => []NothingMissed
  <1> DEFINE Inv == CfgInv /\ QuietInv /\ ProfileInv /\ CutInv
  <1>1. Init => Inv
    <2>1. Init => ProfileInv /\ CutInv
      BY NoEntryIs DEF Init, ProfileInv, CutInv
    <2> QED BY <2>1, CacheStart
  <1>2. Inv /\ [Next]_vars => Inv'
    BY CfgStep, ProfileStep, CutStep
  <1>3. Inv => NothingMissed
    BY DEF CutInv, NothingMissed
  <1> QED BY <1>1, <1>2, <1>3, PTL DEF Spec

-----------------------------------------------------------------------------
(* induction over numbers, and sums of lengths                             *)

\* every set of numbers that is not empty has a least element
LEMMA LeastNat ==
  ASSUME NEW T, T \subseteq Nat, T # {}
  PROVE  \E n \in T : \A m \in T : n <= m
<1>1. IsWellFoundedOn({ss \in Nat \X Nat : ss[1] < ss[2]}, Nat)
  BY NatLessThanWellFounded DEF OpToRel
<1>2. PICK n \in T : \A m \in T : <<m, n>> \notin {ss \in Nat \X Nat : ss[1] < ss[2]}
  BY <1>1, WFMin
<1>3. ASSUME NEW m \in T PROVE n <= m
  <2>1. m \in Nat /\ n \in Nat /\ ~(m < n)
    BY <1>2
  <2> QED
    BY <2>1
<1> QED
  BY <1>3

\* induction: what holds of 0, and of each number if of the one before
LEMMA UpTo ==
  ASSUME NEW n \in Nat, NEW T, 0 \in T, \A i \in 1 .. n : i - 1 \in T => i \in T
  PROVE  \A i \in 0 .. n : i \in T
<1> DEFINE Failing == {i \in 0 .. n : i \notin T}
<1>1. SUFFICES ASSUME Failing # {} PROVE FALSE
  OBVIOUS
<1>2. PICK k \in Failing : \A m \in Failing : k <= m
  <2>1. Failing \subseteq Nat
    OBVIOUS
  <2> HIDE DEF Failing
  <2> QED
    BY <1>1, <2>1, LeastNat
<1>3. k \in 1 .. n /\ k - 1 \in 0 .. n /\ k - 1 \notin Failing
  BY <1>2
<1> QED
  BY <1>2, <1>3

\* A loop of n rounds has results, one after each round: what recursive functions
\* are defined by.
Rounds(n, S) == [1 .. n -> [S -> S]]
Results(g, n, S, a, step) ==
    g \in [0 .. n -> S] /\ g[0] = a /\ \A i \in 1 .. n : g[i] = step[i][g[i - 1]]

LEMMA Iterate ==
  ASSUME NEW n \in Nat, NEW S, NEW a \in S, NEW step \in Rounds(n, S)
  PROVE  \E g : Results(g, n, S, a, step)
<1> USE DEF Rounds
<1> DEFINE Runs(k, g) == g \in [0 .. k -> S] /\ g[0] = a /\ \A i \in 1 .. k : g[i] = step[i][g[i - 1]]
           T == {k \in 0 .. n : \E g : Runs(k, g)}
<1>1. 0 \in T
  <2>1. Runs(0, [i \in 0 .. 0 |-> a])
    OBVIOUS
  <2> HIDE DEF Runs
  <2> QED
    BY <2>1
<1>2. ASSUME NEW k \in 1 .. n, k - 1 \in T PROVE k \in T
  <2>2. PICK g : Runs(k - 1, g)
    BY <1>2
  <2> DEFINE h == [i \in 0 .. k |-> IF i = k THEN step[k][g[k - 1]] ELSE g[i]]
  <2>3. g[k - 1] \in S /\ step[k] \in [S -> S]
    BY <2>2
  <2>4. h \in [0 .. k -> S]
    <3>1. ASSUME NEW i \in 0 .. k, i # k PROVE g[i] \in S
      <4>1. i \in 0 .. k - 1
        BY <3>1
      <4> QED
        BY <2>2, <4>1
    <3> QED
      BY <2>3, <3>1
  <2>5. h[0] = a
    BY <2>2
  <2>6. ASSUME NEW i \in 1 .. k PROVE h[i] = step[i][h[i - 1]]
    <3>0. i - 1 \in 0 .. k /\ i - 1 # k /\ i \in 0 .. k
      OBVIOUS
    <3>1. h[i - 1] = g[i - 1]
      BY <3>0
    <3>2. CASE i = k
      BY <3>0, <3>1, <3>2
    <3>3. CASE i # k
      <4>1. i \in 1 .. k - 1
        BY <3>3
      <4> QED
        BY <2>2, <3>0, <3>1, <3>3, <4>1
    <3> QED
      BY <3>2, <3>3
  <2>7. Runs(k, h)
    <3> HIDE DEF h
    <3> QED
      BY <2>4, <2>5, <2>6
  <2> HIDE DEF Runs, h
  <2> QED
    BY <2>7
<1>3. n \in T
  <2> HIDE DEF T
  <2>1. \A i \in 0 .. n : i \in T
    BY <1>1, <1>2, UpTo
  <2> QED
    BY <2>1
<1> QED
  BY <1>3 DEF Results

LEMMA SumsIs ==
  ASSUME NEW n \in Nat, NEW s \in [1 .. n -> Int]
  PROVE  /\ Len(s) = n /\ Sums(s) \in [0 .. n -> Int] /\ Sums(s)[0] = 0
         /\ \A i \in 1 .. n : Sums(s)[i] = Sums(s)[i - 1] + s[i]
<1>0. Len(s) = n
  OBVIOUS
<1> DEFINE step == [i \in 1 .. n |-> [x \in Int |-> x + s[i]]]
<1>1. PICK g : Results(g, n, Int, 0, step)
  <2>1. step \in Rounds(n, Int)
    BY DEF Rounds
  <2> HIDE DEF step
  <2> QED
    BY <2>1, Iterate, SMTT(30)
<1>2. \A i \in 1 .. n : g[i] = g[i - 1] + s[i]
  <2>1. ASSUME NEW i \in 1 .. n PROVE g[i] = g[i - 1] + s[i]
    <3>1. i - 1 \in 0 .. n
      OBVIOUS
    <3> QED
      BY <1>1, <3>1 DEF Results
  <2> QED
    BY <2>1
<1>3. g = [i \in 0 .. Len(s) |-> IF i = 0 THEN 0 ELSE g[i - 1] + s[i]]
  BY <1>0, <1>1, <1>2 DEF Results
<1>4. Sums(s) = [i \in 0 .. Len(s) |-> IF i = 0 THEN 0 ELSE Sums(s)[i - 1] + s[i]]
  BY <1>3 DEF Sums
<1> DEFINE f == Sums(s)
<1>5. f[0] = 0 /\ \A i \in 1 .. n : f[i] = f[i - 1] + s[i]
  <2>1. f = [i \in 0 .. n |-> IF i = 0 THEN 0 ELSE f[i - 1] + s[i]]
    BY <1>0, <1>4
  <2> HIDE DEF f
  <2>2. 0 \in 0 .. n /\ \A i \in 1 .. n : i \in 0 .. n /\ i # 0
    OBVIOUS
  <2> QED
    BY <2>1, <2>2
<1> DEFINE T == {i \in 0 .. n : f[i] \in Int}
<1>6. \A i \in 0 .. n : i \in T
  <2>1. 0 \in T
    BY <1>5
  <2>2. ASSUME NEW i \in 1 .. n, i - 1 \in T PROVE i \in T
    <3>1. f[i] = f[i - 1] + s[i]
      BY <1>5
    <3> HIDE DEF f
    <3> QED
      BY <2>2, <3>1
  <2> HIDE DEF T
  <2> QED
    BY <2>1, <2>2, UpTo
<1>7. f = [i \in 0 .. n |-> f[i]]
  BY <1>0, <1>4
<1>8. f \in [0 .. n -> Int]
  <2> HIDE DEF f
  <2> QED
    BY <1>6, <1>7
<1> QED
  BY <1>0, <1>5, <1>8

-----------------------------------------------------------------------------
(* QUICDefragCrypto                                                        *)

Extent(f) == f[1] .. f[1] + f[2] - 1
Seen(fs, k) == {fs[i] : i \in 1 .. k}
PutStates ==
    [ok : BOOLEAN, ranges : Seq(Frames), szmax : Nat, zeropos : Nat,
     buf : [0 .. DefragRoom - 1 -> {"junk", "data", "zero"}]]

\* after k frames: what the buffer and the ranges tell of them, or why it was given up
PutInv(s, fs, k) ==
    /\ s.ok =>
         /\ {s.ranges[i] : i \in DOMAIN s.ranges} = Seen(fs, k)
         /\ Cardinality(Seen(fs, k)) = Len(s.ranges)
         /\ s.zeropos = s.szmax /\ s.szmax <= DefragRoom
         /\ \A f \in Seen(fs, k) : f[1] + f[2] <= s.szmax
         /\ IF k = 0 THEN s.szmax = 0 ELSE \E f \in Seen(fs, k) : f[1] + f[2] = s.szmax
         /\ \A b \in 0 .. s.szmax - 1 :
              s.buf[b] = IF \E f \in Seen(fs, k) : b \in Extent(f) THEN "data" ELSE "zero"
    /\ ~s.ok =>
         \/ \E f \in Seen(fs, k) : f[1] + f[2] > DefragRoom
         \/ k > 0 /\ Cardinality(Seen(fs, k - 1)) >= MAX_DEFRAG_PIECES

LEMMA FrameIs ==
  ASSUME NEW f \in Frames
  PROVE  f[1] \in Nat /\ f[2] \in Nat
  BY ProtocolAssumption

LEMMA PutType ==
  ASSUME NEW s \in PutStates, NEW f \in Frames
  PROVE  Put(s, f) \in PutStates
<1> DEFINE end == f[1] + f[2]
<1>1. end \in Nat /\ f[1] \in Nat
  BY FrameIs
<1>2. [s EXCEPT !.ok = FALSE] \in PutStates
  BY DEF PutStates
<1>3. Append(s.ranges, f) \in Seq(Frames) /\ s.szmax \in Nat /\ s.zeropos \in Nat
  BY DEF PutStates
<1> HIDE DEF end
<1>4. [i \in DOMAIN s.buf |-> IF i >= f[1] /\ i < end THEN "data"
                              ELSE IF i >= s.zeropos /\ i < f[1] THEN "zero" ELSE s.buf[i]]
        \in [0 .. DefragRoom - 1 -> {"junk", "data", "zero"}]
  BY DEF PutStates
<1> QED
  BY <1>1, <1>2, <1>3, <1>4 DEF Put, PutStates, end

LEMMA SeenIs ==
  ASSUME NEW n \in Nat, NEW fs \in [1 .. n -> Frames], NEW k \in 0 .. n
  PROVE  /\ IsFiniteSet(Seen(fs, k)) /\ Cardinality(Seen(fs, k)) \in Nat
         /\ Seen(fs, k) \subseteq Frames
         /\ k > 0 => Seen(fs, k) = Seen(fs, k - 1) \cup {fs[k]}
<1> DEFINE T == {j \in 0 .. n : IsFiniteSet(Seen(fs, j))}
<1>1. 0 \in T
  <2>1. Seen(fs, 0) = {}
    BY DEF Seen
  <2> QED
    BY <2>1, FS_EmptySet
<1>2. ASSUME NEW j \in 1 .. n PROVE Seen(fs, j) = Seen(fs, j - 1) \cup {fs[j]}
  <2>1. \A i : i \in 1 .. j <=> i \in 1 .. j - 1 \/ i = j
    OBVIOUS
  <2> QED
    BY <2>1 DEF Seen
<1>3. ASSUME NEW j \in 1 .. n, j - 1 \in T PROVE j \in T
  <2>1. IsFiniteSet(Seen(fs, j - 1))
    BY <1>3
  <2>2. IsFiniteSet(Seen(fs, j))
    <3>1. IsFiniteSet(Seen(fs, j - 1) \cup {fs[j]})
      BY <2>1, FS_AddElement
    <3> QED
      BY <1>2, <3>1
  <2> QED
    BY <2>2
<1>4. \A j \in 0 .. n : j \in T
  <2> HIDE DEF T
  <2> QED
    BY <1>1, <1>3, UpTo
<1>5. IsFiniteSet(Seen(fs, k))
  BY <1>4
<1> QED
  BY <1>2, <1>5, FS_CardinalityType DEF Seen

LEMMA PutStep ==
  ASSUME NEW n \in Nat, NEW fs \in [1 .. n -> Frames], NEW k \in 1 .. n,
         NEW s \in PutStates, PutInv(s, fs, k - 1)
  PROVE  PutInv(Put(s, fs[k]), fs, k)
<1> DEFINE f == fs[k]
           t == Put(s, f)
           end == f[1] + f[2]
           old == Seen(fs, k - 1)
           new == Seen(fs, k)
<1>0. /\ f \in Frames /\ f[1] \in Nat /\ f[2] \in Nat /\ end \in Nat
      /\ k - 1 \in 0 .. n /\ k \in 0 .. n /\ k > 0
      /\ s.ok \in BOOLEAN /\ s.szmax \in Nat /\ s.ranges \in Seq(Frames) /\ Len(s.ranges) \in Nat
      /\ s.buf \in [0 .. DefragRoom - 1 -> {"junk", "data", "zero"}]
  BY FrameIs, SMTT(30) DEF PutStates
<1>1. /\ new = old \cup {f} /\ IsFiniteSet(old) /\ IsFiniteSet(new) /\ old \subseteq Frames
      /\ Cardinality(old) \in Nat /\ Cardinality(new) \in Nat
  BY <1>0, SeenIs
<1>2. CASE ~s.ok
  <2>1. ~t.ok
    BY <1>2 DEF Put, PutStates
  <2>2. CASE \E g \in old : g[1] + g[2] > DefragRoom
    BY <1>1, <2>1, <2>2 DEF PutInv
  <2>3. CASE k - 1 > 0 /\ Cardinality(Seen(fs, k - 2)) >= MAX_DEFRAG_PIECES
    <3>1. k - 1 \in 1 .. n /\ k - 2 \in 0 .. n /\ k - 1 - 1 = k - 2
      BY <2>3
    <3>2. Seen(fs, k - 2) \subseteq old
      BY DEF Seen
    <3>3. Cardinality(Seen(fs, k - 2)) <= Cardinality(old) /\ Cardinality(Seen(fs, k - 2)) \in Nat
      BY <1>1, <3>1, <3>2, SeenIs, FS_Subset
    <3>4. Cardinality(old) >= MAX_DEFRAG_PIECES
      BY <1>1, <2>3, <3>3, ProtocolAssumption
    <3> QED
      BY <1>0, <2>1, <3>4 DEF PutInv
  <2>4. k - 1 - 1 = k - 2
    OBVIOUS
  <2> QED
    BY <1>2, <2>2, <2>3, <2>4 DEF PutInv
<1>3. CASE s.ok /\ (Len(s.ranges) >= MAX_DEFRAG_PIECES \/ end > DefragRoom)
  <2>1. ~t.ok
    BY <1>3 DEF Put, PutStates
  <2>2. Cardinality(old) = Len(s.ranges)
    BY <1>3 DEF PutInv
  <2> QED
    BY <1>0, <1>1, <1>3, <2>1, <2>2 DEF PutInv
<1>4. CASE s.ok /\ ~(Len(s.ranges) >= MAX_DEFRAG_PIECES \/ end > DefragRoom)
  <2>0. /\ {s.ranges[i] : i \in DOMAIN s.ranges} = old /\ Cardinality(old) = Len(s.ranges)
        /\ s.zeropos = s.szmax /\ s.szmax <= DefragRoom
        /\ \A g \in old : g[1] + g[2] <= s.szmax
        /\ IF k - 1 = 0 THEN s.szmax = 0 ELSE \E g \in old : g[1] + g[2] = s.szmax
        /\ \A b \in 0 .. s.szmax - 1 :
             s.buf[b] = IF \E g \in old : b \in Extent(g) THEN "data" ELSE "zero"
    BY <1>4 DEF PutInv
  <2>1. CASE f \in old
    <3>1. t = s
      BY <1>4, <2>0, <2>1 DEF Put
    <3>2. new = old
      BY <1>1, <2>1
    <3>3. k - 1 # 0
      BY <2>1 DEF Seen
    <3> QED
      BY <1>0, <1>4, <2>0, <3>1, <3>2, <3>3, SMTT(30) DEF PutInv
  <2>2. CASE f \notin old
    <3>1. /\ t.ok /\ t.ranges = Append(s.ranges, f)
          /\ t.szmax = (IF end > s.szmax THEN end ELSE s.szmax)
          /\ t.zeropos = (IF end > s.zeropos THEN end ELSE s.zeropos)
          /\ t.buf = [i \in DOMAIN s.buf |-> IF i >= f[1] /\ i < end THEN "data"
                                              ELSE IF i >= s.zeropos /\ i < f[1] THEN "zero" ELSE s.buf[i]]
      BY <1>4, <2>0, <2>2 DEF Put
    <3>2. {t.ranges[i] : i \in DOMAIN t.ranges} = new
      <4>1. DOMAIN t.ranges = 1 .. Len(s.ranges) + 1 /\ t.ranges[Len(s.ranges) + 1] = f
            /\ \A i \in 1 .. Len(s.ranges) : t.ranges[i] = s.ranges[i]
        BY <1>0, <3>1
      <4>2. DOMAIN s.ranges = 1 .. Len(s.ranges)
        BY <1>0
      <4>3. \A i : i \in 1 .. Len(s.ranges) + 1 <=> i \in 1 .. Len(s.ranges) \/ i = Len(s.ranges) + 1
        BY <1>0, SMTT(30)
      <4> QED
        BY <1>1, <2>0, <4>1, <4>2, <4>3, ZenonT(30)
    <3>3. Cardinality(new) = Len(t.ranges)
      BY <1>0, <1>1, <2>0, <2>2, <3>1, FS_AddElement, SMTT(30)
    <3>4. t.szmax \in Nat /\ t.szmax >= s.szmax /\ t.szmax >= end
      BY <1>0, <3>1, SMTT(30)
    <3>5. \A g \in new : g[1] + g[2] <= t.szmax
      <4>1. ASSUME NEW g \in old PROVE g[1] + g[2] <= t.szmax
        <5>1. g[1] \in Nat /\ g[2] \in Nat
          BY <1>1, FrameIs
        <5>2. g[1] + g[2] <= s.szmax
          BY <2>0
        <5> QED
          BY <1>0, <3>4, <5>1, <5>2, SMTT(30)
      <4> QED
        BY <1>1, <3>4, <4>1
    <3>6. \E g \in new : g[1] + g[2] = t.szmax
      <4>1. CASE end > s.szmax
        BY <1>1, <3>1, <4>1
      <4>2. CASE ~(end > s.szmax)
        <5>1. CASE k - 1 = 0
          BY <1>0, <1>1, <2>0, <3>1, <4>2, <5>1
        <5>2. CASE k - 1 # 0
          BY <1>1, <2>0, <3>1, <4>2, <5>2
        <5> QED
          BY <5>1, <5>2
      <4> QED
        BY <4>1, <4>2
    <3>7. ASSUME NEW b \in 0 .. t.szmax - 1
          PROVE  t.buf[b] = IF \E g \in new : b \in Extent(g) THEN "data" ELSE "zero"
      <4>0. DOMAIN s.buf = 0 .. DefragRoom - 1 /\ b \in Nat /\ b < t.szmax /\ DefragRoom \in Nat
        BY <1>0, <3>4, ProtocolAssumption, SMTT(30)
      <4>1. b \in DOMAIN s.buf
        BY <1>0, <1>4, <2>0, <3>1, <4>0
      <4>2. CASE b \in Extent(f)
        <5>1. b >= f[1] /\ b < end
          BY <1>0, <4>2, SMTT(30) DEF Extent
        <5> QED
          BY <1>1, <3>1, <4>1, <4>2, <5>1
      <4>3. CASE b \notin Extent(f)
        <5>1. ~(b >= f[1] /\ b < end)
          BY <1>0, <4>0, <4>3, SMTT(30) DEF Extent
        <5>2. (\E g \in new : b \in Extent(g)) <=> \E g \in old : b \in Extent(g)
          BY <1>1, <4>3
        <5>3. CASE b < s.szmax
          <6>1. b \in 0 .. s.szmax - 1
            BY <1>0, <4>0, <5>3
          <6>2. t.buf[b] = s.buf[b]
            BY <1>0, <2>0, <3>1, <4>0, <4>1, <5>1, <5>3
          <6> QED
            BY <2>0, <5>2, <6>1, <6>2
        <5>4. CASE ~(b < s.szmax)
          <6>1. end > s.szmax /\ b < end
            BY <1>0, <3>1, <4>0, <5>4
          <6>2. b < f[1]
            BY <1>0, <4>0, <5>1, <6>1
          <6>3. t.buf[b] = "zero"
            BY <1>0, <2>0, <3>1, <4>0, <4>1, <5>1, <5>4, <6>2, SMTT(30)
          <6>4. ASSUME NEW g \in old PROVE b \notin Extent(g)
            <7>1. g[1] \in Nat /\ g[2] \in Nat /\ g[1] + g[2] <= s.szmax
              BY <1>1, <2>0, FrameIs
            <7>2. b >= s.szmax
              BY <1>0, <4>0, <5>4
            <7> QED
              BY <1>0, <4>0, <7>1, <7>2, SMTT(30) DEF Extent
          <6> QED
            BY <5>2, <6>3, <6>4
        <5> QED
          BY <5>3, <5>4
      <4> QED
        BY <4>2, <4>3
    <3>8. t.zeropos = t.szmax /\ t.szmax <= DefragRoom
      BY <1>0, <1>4, <2>0, <3>1, ProtocolAssumption
    <3>9. t.ok /\ k # 0
      BY <1>0, <3>1
    <3> HIDE DEF t
    <3>10. PutInv(t, fs, k)
      BY <3>2, <3>3, <3>5, <3>6, <3>7, <3>8, <3>9 DEF PutInv
    <3> QED
      BY <3>10 DEF t
  <2> QED
    BY <2>1, <2>2
<1> QED
  BY <1>0, <1>2, <1>3, <1>4

\* the loop over the frames
LEMMA AllPut ==
  ASSUME NEW n \in Nat, NEW fs \in [1 .. n -> Frames]
  PROVE  PutAll(fs) \in PutStates /\ PutInv(PutAll(fs), fs, n)
<1>0. Len(fs) = n
  OBVIOUS
<1>1. NothingPut \in PutStates
  BY DEF NothingPut, PutStates
<1> DEFINE step == [i \in 1 .. n |-> [x \in PutStates |-> Put(x, fs[i])]]
<1>2. PICK g : Results(g, n, PutStates, NothingPut, step)
  <2>1. step \in Rounds(n, PutStates)
    BY PutType DEF Rounds
  <2> HIDE DEF step
  <2> QED
    BY <1>1, <2>1, Iterate
<1>3. \A i \in 1 .. n : g[i] = Put(g[i - 1], fs[i])
  <2>1. ASSUME NEW i \in 1 .. n PROVE g[i] = Put(g[i - 1], fs[i])
    <3>1. g[i - 1] \in PutStates /\ g[i] = step[i][g[i - 1]]
      BY <1>2 DEF Results
    <3> QED
      BY <3>1
  <2> QED
    BY <2>1
<1>4. g = [i \in 0 .. Len(fs) |-> IF i = 0 THEN NothingPut ELSE Put(g[i - 1], fs[i])]
  BY <1>0, <1>2, <1>3 DEF Results
<1>5. Puts(fs) = [i \in 0 .. Len(fs) |-> IF i = 0 THEN NothingPut ELSE Put(Puts(fs)[i - 1], fs[i])]
  BY <1>4 DEF Puts
<1> DEFINE f == Puts(fs)
<1>6. f[0] = NothingPut /\ \A i \in 1 .. n : f[i] = Put(f[i - 1], fs[i])
  <2>1. f = [i \in 0 .. n |-> IF i = 0 THEN NothingPut ELSE Put(f[i - 1], fs[i])]
    BY <1>0, <1>5
  <2> HIDE DEF f
  <2>2. 0 \in 0 .. n /\ \A i \in 1 .. n : i \in 0 .. n /\ i # 0
    OBVIOUS
  <2> QED
    BY <2>1, <2>2
<1> HIDE DEF f
<1> DEFINE T == {i \in 0 .. n : f[i] \in PutStates /\ PutInv(f[i], fs, i)}
<1>7. 0 \in T
  <2>1. Seen(fs, 0) = {} /\ Cardinality(Seen(fs, 0)) = 0
    BY FS_EmptySet DEF Seen
  <2>2. PutInv(NothingPut, fs, 0)
    BY <2>1, ProtocolAssumption DEF PutInv, NothingPut
  <2> QED
    BY <1>1, <1>6, <2>2
<1>8. ASSUME NEW i \in 1 .. n, i - 1 \in T PROVE i \in T
  <2>1. f[i] = Put(f[i - 1], fs[i]) /\ f[i - 1] \in PutStates /\ PutInv(f[i - 1], fs, i - 1)
    BY <1>6, <1>8
  <2>2. Put(f[i - 1], fs[i]) \in PutStates
    BY <2>1, PutType
  <2>3. PutInv(Put(f[i - 1], fs[i]), fs, i)
    BY <2>1, PutStep
  <2> QED
    BY <2>1, <2>2, <2>3
<1>9. \A i \in 0 .. n : i \in T
  <2> HIDE DEF T
  <2> QED
    BY <1>7, <1>8, UpTo
<1> QED
  BY <1>0, <1>9 DEF PutAll, f

\* Ranges that are joined
Merged == {m \in Seq(Nat \X Nat) : m # <<>>}
EndOf(m) == m[Len(m)][1] + m[Len(m)][2]

\* after k ranges: all of them end where the last one of the joined ranges does, or
\* before; one range covers what they cover, two have a byte between them that no
\* later range covers
JoinInv(m, rs, k) ==
    /\ \A i \in 1 .. k : rs[i][1] + rs[i][2] <= EndOf(m)
    /\ Len(m) = 1 =>
         /\ m[1][1] = rs[1][1]
         /\ \A b \in m[1][1] .. EndOf(m) - 1 : \E i \in 1 .. k : b \in Extent(rs[i])
    /\ Len(m) # 1 => \E b \in Nat : b < rs[k][1] /\ \A i \in 1 .. k : b \notin Extent(rs[i])

LEMMA JoinType ==
  ASSUME NEW m \in Merged, NEW r \in Nat \X Nat
  PROVE  /\ Join(m, r) \in Merged /\ EndOf(m) \in Nat /\ m[1][1] \in Nat /\ Len(m) \in Nat \ {0}
         /\ r[1] <= EndOf(m) =>
              /\ EndOf(Join(m, r)) = IF r[1] + r[2] > EndOf(m) THEN r[1] + r[2] ELSE EndOf(m)
              /\ Len(Join(m, r)) = Len(m) /\ Join(m, r)[1][1] = m[1][1]
         /\ ~(r[1] <= EndOf(m)) =>
              EndOf(Join(m, r)) = r[1] + r[2] /\ Len(Join(m, r)) = Len(m) + 1
<1> DEFINE j == Len(m)
           end == EndOf(m)
           top == IF r[1] + r[2] > end THEN r[1] + r[2] ELSE end
<1>1. m \in Seq(Nat \X Nat) /\ j \in Nat /\ j # 0 /\ j \in 1 .. Len(m) /\ 1 \in 1 .. Len(m)
  BY DEF Merged
<1>2. m[j] \in Nat \X Nat /\ m[1] \in Nat \X Nat /\ r[1] \in Nat /\ r[2] \in Nat
  BY <1>1
<1>3. end = m[j][1] + m[j][2] /\ end \in Nat /\ m[j][1] \in Nat /\ m[j][2] \in Nat
  BY <1>2, SMTT(30) DEF EndOf
<1>4. CASE r[1] <= end
  <2> DEFINE new == [m EXCEPT ![j] = <<@[1], top - @[1]>>]
  <2>1. Join(m, r) = new
    BY <1>4 DEF Join, EndOf
  <2>2. top - m[j][1] \in Nat /\ top \in Nat
    <3>1. top \in Nat /\ top >= end
      <4> HIDE DEF end
      <4> QED
        BY <1>2, <1>3, SMTT(30)
    <3> HIDE DEF top, end
    <3> QED
      BY <1>3, <3>1, SMTT(30)
  <2>3. /\ new \in Seq(Nat \X Nat) /\ Len(new) = j /\ new[j] = <<m[j][1], top - m[j][1]>>
        /\ new[1][1] = m[1][1]
    <3>1. <<m[j][1], top - m[j][1]>> \in Nat \X Nat
      BY <1>3, <2>2
    <3> HIDE DEF top
    <3> QED
      BY <1>1, <3>1
  <2>4. EndOf(new) = top
    <3> HIDE DEF top, new
    <3> QED
      BY <1>3, <2>2, <2>3, SMTT(30) DEF EndOf
  <2>5. new \in Merged
    <3> HIDE DEF new
    <3> QED
      BY <1>1, <2>3 DEF Merged
  <2> QED
    BY <1>1, <1>2, <1>3, <1>4, <2>1, <2>3, <2>4, <2>5
<1>5. CASE ~(r[1] <= end)
  <2>1. Join(m, r) = Append(m, r)
    BY <1>5 DEF Join, EndOf
  <2>2. Append(m, r) \in Seq(Nat \X Nat) /\ Len(Append(m, r)) = j + 1 /\ Append(m, r)[j + 1] = r
    BY <1>1
  <2>3. Append(m, r) \in Merged /\ EndOf(Append(m, r)) = r[1] + r[2]
    <3> DEFINE new == Append(m, r)
    <3>1. new \in Seq(Nat \X Nat) /\ Len(new) = j + 1 /\ new[j + 1] = r
      BY <2>2
    <3> HIDE DEF new, j
    <3>2. new # <<>> /\ EndOf(new) = r[1] + r[2]
      BY <1>1, <3>1 DEF EndOf
    <3> QED
      BY <3>1, <3>2 DEF Merged, new
  <2> QED
    BY <1>1, <1>2, <1>3, <1>5, <2>1, <2>2, <2>3
<1> QED
  BY <1>4, <1>5

LEMMA JoinStep ==
  ASSUME NEW n \in Nat, NEW rs \in [1 .. n -> Nat \X Nat], NEW k \in 2 .. n,
         rs[k - 1][1] <= rs[k][1],
         NEW m \in Merged, JoinInv(m, rs, k - 1)
  PROVE  JoinInv(Join(m, rs[k]), rs, k)
<1> DEFINE r == rs[k]
           t == Join(m, r)
<1>0. /\ r \in Nat \X Nat /\ r[1] \in Nat /\ r[2] \in Nat /\ k - 1 \in 1 .. n
      /\ \A i : i \in 1 .. k <=> i \in 1 .. k - 1 \/ i = k
      /\ \A i \in 1 .. k : rs[i][1] \in Nat /\ rs[i][2] \in Nat
      /\ rs[k - 1][1] \in Nat
  BY SMTT(30)
<1>1. /\ t \in Merged /\ EndOf(m) \in Nat /\ m[1][1] \in Nat /\ Len(m) \in Nat \ {0}
      /\ r[1] <= EndOf(m) =>
           /\ EndOf(t) = IF r[1] + r[2] > EndOf(m) THEN r[1] + r[2] ELSE EndOf(m)
           /\ Len(t) = Len(m) /\ t[1][1] = m[1][1]
      /\ ~(r[1] <= EndOf(m)) => EndOf(t) = r[1] + r[2] /\ Len(t) = Len(m) + 1
  BY <1>0, JoinType
<1> HIDE DEF t
<1>2. EndOf(t) \in Nat /\ EndOf(t) >= EndOf(m) /\ EndOf(t) >= r[1] + r[2]
  <2> DEFINE e == EndOf(m)
             y == r[1] + r[2]
  <2>1. e \in Nat /\ y \in Nat /\ y >= r[1]
    <3>1. e \in Nat
      BY <1>1
    <3>2. PICK r1 \in Nat, r2 \in Nat : r[1] = r1 /\ r[2] = r2
      BY <1>0
    <3>3. y = r1 + r2
      BY <3>2
    <3> HIDE DEF e, y
    <3> QED
      BY <3>1, <3>2, <3>3
  <2>2. IF r[1] <= e THEN EndOf(t) = (IF y > e THEN y ELSE e) ELSE EndOf(t) = y
    BY <1>1
  <2> HIDE DEF e, y
  <2>3. EndOf(t) \in Nat /\ EndOf(t) >= e /\ EndOf(t) >= y
    BY <1>0, <2>1, <2>2, SMTT(30)
  <2> QED
    BY <2>3 DEF e, y
<1>3. ASSUME NEW i \in 1 .. k PROVE rs[i][1] + rs[i][2] <= EndOf(t)
  <2>1. CASE i = k
    BY <1>2, <2>1
  <2>2. CASE i \in 1 .. k - 1
    <3>1. rs[i][1] + rs[i][2] <= EndOf(m)
      BY <2>2 DEF JoinInv
    <3> QED
      <4> DEFINE y == rs[i][1] + rs[i][2]
      <4>1. y \in Nat /\ y <= EndOf(m)
        BY <1>0, <3>1, SMTT(30)
      <4> HIDE DEF y
      <4>2. y <= EndOf(t)
        BY <1>1, <1>2, <4>1
      <4> QED
        BY <4>2 DEF y
  <2> QED
    BY <1>0, <2>1, <2>2
<1>4. ASSUME Len(t) = 1
      PROVE  t[1][1] = rs[1][1] /\ \A b \in t[1][1] .. EndOf(t) - 1 : \E i \in 1 .. k : b \in Extent(rs[i])
  <2>1. r[1] <= EndOf(m) /\ Len(m) = 1
    BY <1>0, <1>1, <1>4, SMTT(30)
  <2>2. t[1][1] = m[1][1] /\ m[1][1] = rs[1][1]
    BY <1>1, <2>1 DEF JoinInv
  <2>3. ASSUME NEW b \in t[1][1] .. EndOf(t) - 1 PROVE \E i \in 1 .. k : b \in Extent(rs[i])
    <3>0. b \in Nat /\ b >= m[1][1] /\ b < EndOf(t)
      <4> DEFINE x == t[1][1]
                 e == EndOf(t)
      <4>1. x \in Nat /\ e \in Nat /\ b \in x .. e - 1
        BY <1>1, <1>2, <2>2
      <4> HIDE DEF x, e
      <4>2. b \in Nat /\ b >= x /\ b < e
        BY <4>1, SMTT(30)
      <4> QED
        BY <2>2, <4>2 DEF x, e
    <3>1. CASE b < EndOf(m)
      <4>1. b \in m[1][1] .. EndOf(m) - 1
        BY <1>1, <3>0, <3>1
      <4> QED
        BY <1>0, <2>1, <4>1 DEF JoinInv
    <3>2. CASE ~(b < EndOf(m))
      <4>1. EndOf(t) = r[1] + r[2] /\ b >= r[1]
        BY <1>0, <1>1, <2>1, <3>0, <3>2, SMTT(30)
      <4>2. b \in Extent(r)
        BY <1>0, <3>0, <4>1 DEF Extent
      <4> QED
        BY <1>0, <4>2
    <3> QED
      BY <3>1, <3>2
  <2> QED
    BY <2>2, <2>3
<1>5. ASSUME Len(t) # 1
      PROVE  \E b \in Nat : b < r[1] /\ \A i \in 1 .. k : b \notin Extent(rs[i])
  <2>1. CASE r[1] <= EndOf(m)
    <3>1. Len(m) # 1
      BY <1>1, <1>5, <2>1
    <3>2. PICK b \in Nat : b < rs[k - 1][1] /\ \A i \in 1 .. k - 1 : b \notin Extent(rs[i])
      BY <3>1 DEF JoinInv
    <3>3. b < r[1]
      BY <1>0, <3>2
    <3>4. b \notin Extent(r)
      BY <1>0, <3>3 DEF Extent
    <3> QED
      BY <1>0, <3>2, <3>3, <3>4
  <2>2. CASE ~(r[1] <= EndOf(m))
    <3> DEFINE b == EndOf(m)
    <3>1. b \in Nat /\ b < r[1]
      BY <1>0, <1>1, <2>2
    <3>2. ASSUME NEW i \in 1 .. k PROVE b \notin Extent(rs[i])
      <4>1. CASE i = k
        BY <1>0, <3>1, <4>1 DEF Extent
      <4>2. CASE i \in 1 .. k - 1
        <5>1. rs[i][1] + rs[i][2] <= b
          BY <4>2 DEF JoinInv
        <5>2. PICK x \in Nat, y \in Nat : rs[i][1] = x /\ rs[i][2] = y
          BY <1>0
        <5>3. x + y <= b
          BY <5>1, <5>2
        <5>4. b \in Nat
          BY <3>1
        <5> HIDE DEF b
        <5>5. Extent(rs[i]) = x .. x + y - 1
          BY <5>2 DEF Extent
        <5> QED
          BY <5>3, <5>4, <5>5
      <4> QED
        BY <1>0, <4>1, <4>2
    <3> QED
      BY <3>1, <3>2
  <2> QED
    BY <2>1, <2>2
<1>6. JoinInv(t, rs, k)
  BY <1>3, <1>4, <1>5 DEF JoinInv
<1> QED
  BY <1>6 DEF t

\* the loop over the sorted ranges
LEMMA AllJoined ==
  ASSUME NEW n \in Nat, n > 0, NEW rs \in [1 .. n -> Nat \X Nat],
         \A i, j \in 1 .. n : i < j => rs[i][1] <= rs[j][1]
  PROVE  Joined(rs) \in Merged /\ JoinInv(Joined(rs), rs, n)
<1>0. Len(rs) = n /\ n - 1 \in Nat /\ 1 \in 1 .. n /\ n \in 1 .. n
  OBVIOUS
<1>1. <<rs[1]>> \in Merged
  <2>1. rs[1] \in Nat \X Nat
    BY <1>0
  <2> QED
    BY <2>1 DEF Merged
<1> DEFINE step == [i \in 1 .. n - 1 |-> [x \in Merged |-> Join(x, rs[i + 1])]]
<1>2. PICK g : Results(g, n - 1, Merged, <<rs[1]>>, step)
  <2>1. step \in Rounds(n - 1, Merged)
    <3>1. ASSUME NEW i \in 1 .. n - 1, NEW x \in Merged PROVE Join(x, rs[i + 1]) \in Merged
      <4>1. rs[i + 1] \in Nat \X Nat
        BY <1>0
      <4> QED
        BY <4>1, JoinType
    <3> QED
      BY <3>1 DEF Rounds
  <2> HIDE DEF step
  <2> QED
    BY <1>0, <1>1, <2>1, Iterate
<1> DEFINE h == [i \in 1 .. n |-> g[i - 1]]
<1>3. ASSUME NEW i \in 1 .. n
      PROVE  h[i] = IF i = 1 THEN <<rs[1]>> ELSE Join(h[i - 1], rs[i])
  <2>1. CASE i = 1
    BY <1>2, <2>1 DEF Results
  <2>2. CASE i # 1
    <3>1. i - 1 \in 1 .. n - 1 /\ i - 1 - 1 \in 0 .. n - 1 /\ i - 1 \in 1 .. n /\ i - 1 + 1 = i
      BY <2>2
    <3>2. g[i - 1 - 1] \in Merged /\ g[i - 1] = step[i - 1][g[i - 1 - 1]]
      BY <1>2, <3>1 DEF Results
    <3>3. g[i - 1] = Join(g[i - 1 - 1], rs[i])
      BY <3>1, <3>2
    <3> QED
      BY <2>2, <3>1, <3>3
  <2> QED
    BY <2>1, <2>2
<1>4. h = [i \in 1 .. Len(rs) |-> IF i = 1 THEN <<rs[1]>> ELSE Join(h[i - 1], rs[i])]
  <2>1. h = [i \in 1 .. n |-> h[i]]
    OBVIOUS
  <2> HIDE DEF h
  <2> QED
    BY <1>0, <1>3, <2>1
<1>5. Joins(rs) = [i \in 1 .. Len(rs) |-> IF i = 1 THEN <<rs[1]>> ELSE Join(Joins(rs)[i - 1], rs[i])]
  <2> HIDE DEF h
  <2> QED
    BY <1>4 DEF Joins
<1> DEFINE f == Joins(rs)
<1>6. f[1] = <<rs[1]>> /\ \A i \in 2 .. n : f[i] = Join(f[i - 1], rs[i])
  <2>1. f = [i \in 1 .. n |-> IF i = 1 THEN <<rs[1]>> ELSE Join(f[i - 1], rs[i])]
    BY <1>0, <1>5
  <2> HIDE DEF f
  <2>2. 1 \in 1 .. n /\ \A i \in 2 .. n : i \in 1 .. n /\ i # 1
    BY <1>0
  <2> QED
    BY <2>1, <2>2
<1> HIDE DEF f
<1> DEFINE T == {i \in 0 .. n - 1 : f[i + 1] \in Merged /\ JoinInv(f[i + 1], rs, i + 1)}
<1>7. 0 \in T
  <2>1. JoinInv(<<rs[1]>>, rs, 1)
    <3>1. rs[1][1] \in Nat /\ rs[1][2] \in Nat
      BY <1>0
    <3>2. EndOf(<<rs[1]>>) = rs[1][1] + rs[1][2]
      BY DEF EndOf
    <3>3. \A i \in 1 .. 1 : rs[i][1] + rs[i][2] <= EndOf(<<rs[1]>>)
      BY <3>1, <3>2
    <3> QED
      BY <3>1, <3>2, <3>3, SMTT(30) DEF JoinInv, Extent
  <2> QED
    <3>1. 0 + 1 = 1 /\ 0 \in 0 .. n - 1
      BY <1>0
    <3> QED
      BY <1>1, <1>6, <2>1, <3>1
<1>8. ASSUME NEW i \in 1 .. n - 1, i - 1 \in T PROVE i \in T
  <2>0. i + 1 \in 2 .. n /\ i + 1 - 1 = i /\ i - 1 + 1 = i /\ i \in 1 .. n /\ i + 1 \in 1 .. n
    OBVIOUS
  <2>1. f[i + 1] = Join(f[i], rs[i + 1]) /\ f[i] \in Merged /\ JoinInv(f[i], rs, i)
    BY <1>6, <1>8, <2>0
  <2>2. rs[i][1] <= rs[i + 1][1] /\ rs[i + 1] \in Nat \X Nat
    BY <2>0
  <2>3. JoinInv(Join(f[i], rs[i + 1]), rs, i + 1)
    <3> DEFINE k == i + 1
    <3>1. k \in 2 .. n /\ k - 1 = i
      BY <2>0
    <3>2. rs[k - 1][1] <= rs[k][1] /\ JoinInv(f[i], rs, k - 1)
      BY <2>1, <2>2, <3>1
    <3> HIDE DEF k
    <3>3. JoinInv(Join(f[i], rs[k]), rs, k)
      BY <2>1, <3>1, <3>2, JoinStep
    <3> QED
      BY <3>3 DEF k
  <2>4. Join(f[i], rs[i + 1]) \in Merged
    BY <2>1, <2>2, JoinType
  <2> QED
    BY <2>1, <2>3, <2>4, SMTT(30)
<1>9. n - 1 \in T
  <2> HIDE DEF T
  <2>1. \A i \in 0 .. n - 1 : i \in T
    BY <1>0, <1>7, <1>8, UpTo
  <2> QED
    BY <1>0, <2>1
<1> QED
  BY <1>0, <1>9 DEF Joined, f

\* the joined ranges are one from 0 exactly when they leave no gap
LEMMA OneRange ==
  ASSUME NEW n \in Nat, n > 0, NEW rs \in [1 .. n -> Nat \X Nat],
         \A i, j \in 1 .. n : i < j => rs[i][1] <= rs[j][1],
         NEW size \in Nat,
         \A i \in 1 .. n : rs[i][1] + rs[i][2] <= size,
         \E i \in 1 .. n : rs[i][1] + rs[i][2] = size
  PROVE  (Len(Joined(rs)) = 1 /\ Joined(rs)[1][1] = 0)
           <=> \A b \in 0 .. size - 1 : \E i \in 1 .. n : b \in Extent(rs[i])
<1> DEFINE m == Joined(rs)
           All == \A b \in 0 .. size - 1 : \E i \in 1 .. n : b \in Extent(rs[i])
<1>0. 1 \in 1 .. n /\ n \in 1 .. n /\ \A i \in 1 .. n : rs[i][1] \in Nat /\ rs[i][2] \in Nat
  OBVIOUS
<1>1. m \in Merged /\ JoinInv(m, rs, n)
  BY AllJoined
<1>2. EndOf(m) \in Nat /\ m[1][1] \in Nat
  <2>1. rs[1] \in Nat \X Nat
    BY <1>0
  <2> HIDE DEF m
  <2> QED
    BY <1>1, <2>1, JoinType
<1> HIDE DEF m
<1>3. CASE Len(m) # 1
  <2>1. PICK b \in Nat : b < rs[n][1] /\ \A i \in 1 .. n : b \notin Extent(rs[i])
    BY <1>1, <1>3 DEF JoinInv
  <2>2. PICK x \in Nat, y \in Nat : rs[n][1] = x /\ rs[n][2] = y
    BY <1>0
  <2>3. x + y <= size /\ b < x
    BY <1>0, <2>1, <2>2
  <2>4. b \in 0 .. size - 1
    BY <2>3
  <2> QED
    BY <1>3, <2>1, <2>4 DEF m
<1>4. CASE Len(m) = 1
  <2>0. /\ \A i \in 1 .. n : rs[i][1] + rs[i][2] <= EndOf(m) /\ m[1][1] = rs[1][1]
        /\ \A b \in m[1][1] .. EndOf(m) - 1 : \E i \in 1 .. n : b \in Extent(rs[i])
    BY <1>1, <1>4 DEF JoinInv
  <2>1. CASE m[1][1] = 0
    <3>1. size <= EndOf(m)
      BY <2>0
    <3>2. ASSUME NEW b \in 0 .. size - 1 PROVE \E i \in 1 .. n : b \in Extent(rs[i])
      <4>1. b \in 0 .. EndOf(m) - 1
        BY <1>2, <3>1
      <4> QED
        BY <2>0, <2>1, <4>1
    <3> QED
      BY <1>4, <2>1, <3>2 DEF m
  <2>2. CASE m[1][1] # 0
    <3>1. PICK x \in Nat : rs[1][1] = x
      BY <1>0
    <3>2. x > 0
      BY <2>0, <2>2, <3>1
    <3>3. ASSUME NEW i \in 1 .. n PROVE 0 \notin Extent(rs[i])
      <4>1. PICK z \in Nat, y \in Nat : rs[i][1] = z /\ rs[i][2] = y
        BY <1>0
      <4>2. x <= z
        <5>1. CASE i = 1
          BY <3>1, <4>1, <5>1
        <5>2. CASE i # 1
          <6>1. 1 < i
            BY <5>2
          <6>2. rs[1][1] <= rs[i][1]
            BY <1>0, <6>1
          <6> QED
            BY <3>1, <4>1, <6>2
        <5> QED
          BY <5>1, <5>2
      <4>3. Extent(rs[i]) = z .. z + y - 1
        BY <4>1 DEF Extent
      <4> QED
        BY <3>2, <4>2, <4>3
    <3>4. 0 \in 0 .. size - 1
      <4>1. PICK y \in Nat : rs[1][2] = y
        BY <1>0
      <4>2. x + y <= size
        BY <1>0, <3>1, <4>1
      <4> QED
        BY <3>2, <4>2
    <3> QED
      BY <2>2, <3>3, <3>4 DEF m
  <2> QED
    BY <2>1, <2>2
<1> QED
  BY <1>3, <1>4

\* There is a sorted order of the ranges: one more is inserted before the first with
\* a larger offset.
InOrder(s, rs, n) ==
    /\ s \in [1 .. n -> Nat \X Nat]
    /\ \A i, j \in 1 .. n : i < j => s[i][1] <= s[j][1]
    /\ {s[i] : i \in 1 .. n} = {rs[i] : i \in 1 .. n}

LEMMA InsertOne ==
  ASSUME NEW n \in Nat, NEW rs, NEW s, InOrder(s, rs, n), rs[n + 1] \in Nat \X Nat
  PROVE  \E t : InOrder(t, rs, n + 1)
<1> DEFINE r == rs[n + 1]
           P == {p \in 1 .. n + 1 : p = n + 1 \/ s[p][1] > r[1]}
<1>0. /\ s \in [1 .. n -> Nat \X Nat] /\ \A i \in 1 .. n : s[i][1] \in Nat
      /\ \A i, j \in 1 .. n : i < j => s[i][1] <= s[j][1]
      /\ r \in Nat \X Nat /\ r[1] \in Nat
  BY DEF InOrder
<1>1. PICK p \in P : \A q \in P : p <= q
  <2>1. P \subseteq Nat /\ n + 1 \in P
    OBVIOUS
  <2> HIDE DEF P
  <2> QED
    BY <2>1, LeastNat
<1>2. /\ p \in 1 .. n + 1 /\ (p # n + 1 => s[p][1] > r[1])
      /\ \A i \in 1 .. p - 1 : i \in 1 .. n /\ s[i][1] <= r[1]
  <2>1. ASSUME NEW i \in 1 .. p - 1 PROVE i \in 1 .. n /\ s[i][1] <= r[1]
    <3>1. i \in 1 .. n /\ i \notin P /\ i # n + 1 /\ i \in 1 .. n + 1
      BY <1>1
    <3>2. ~(s[i][1] > r[1])
      BY <3>1
    <3> QED
      BY <1>0, <3>1, <3>2
  <2> QED
    BY <1>1, <2>1
<1> HIDE DEF P
<1> DEFINE t == [i \in 1 .. n + 1 |-> IF i < p THEN s[i] ELSE IF i = p THEN r ELSE s[i - 1]]
<1>3. ASSUME NEW i \in 1 .. n + 1
      PROVE  /\ i < p => i \in 1 .. n /\ t[i] = s[i] /\ s[i][1] <= r[1]
             /\ i = p => t[i] = r
             /\ i > p => i - 1 \in 1 .. n /\ t[i] = s[i - 1] /\ s[i - 1][1] >= r[1]
  <2>1. CASE i < p
    <3>1. i \in 1 .. p - 1
      BY <1>2, <2>1
    <3> QED
      BY <1>2, <2>1, <3>1
  <2>2. CASE i > p
    <3>1. i - 1 \in 1 .. n /\ p \in 1 .. n /\ p # n + 1 /\ p <= i - 1
      BY <1>2, <2>2
    <3>2. s[p][1] <= s[i - 1][1]
      BY <1>0, <3>1
    <3>3. s[i - 1][1] >= r[1]
      BY <1>0, <1>2, <3>1, <3>2, SMTT(30)
    <3>4. t[i] = s[i - 1]
      BY <1>2, <2>2
    <3> QED
      BY <1>2, <2>2, <3>1, <3>3, <3>4
  <2> QED
    BY <1>2, <2>1, <2>2
<1>4. t \in [1 .. n + 1 -> Nat \X Nat]
  <2>1. ASSUME NEW i \in 1 .. n + 1 PROVE t[i] \in Nat \X Nat
    <3> HIDE DEF t
    <3> QED
      BY <1>0, <1>2, <1>3, SMTT(30)
  <2>2. t = [i \in 1 .. n + 1 |-> t[i]]
    OBVIOUS
  <2> HIDE DEF t
  <2> QED
    BY <2>1, <2>2
<1> HIDE DEF t
<1>5. ASSUME NEW i \in 1 .. n + 1, NEW j \in 1 .. n + 1, i < j PROVE t[i][1] <= t[j][1]
  <2>1. CASE j < p
    <3>1. i < p
      BY <1>2, <1>5, <2>1
    <3> QED
      BY <1>0, <1>3, <1>5, <2>1, <3>1
  <2>2. CASE j = p
    <3>1. i < p
      BY <1>2, <1>5, <2>2
    <3> QED
      BY <1>3, <2>2, <3>1
  <2>3. CASE j > p /\ i = p
    BY <1>0, <1>3, <2>3
  <2>4. CASE j > p /\ i > p
    <3>1. i - 1 < j - 1
      BY <1>5
    <3> QED
      BY <1>0, <1>3, <2>4, <3>1
  <2>5. CASE j > p /\ i < p
    <3>1. t[i][1] <= r[1] /\ r[1] <= t[j][1] /\ t[i][1] \in Nat /\ t[j][1] \in Nat
      BY <1>0, <1>3, <2>5
    <3> QED
      BY <1>0, <3>1, SMTT(30)
  <2> QED
    BY <1>2, <2>1, <2>2, <2>3, <2>4, <2>5
<1>6. {t[i] : i \in 1 .. n + 1} = {s[i] : i \in 1 .. n} \cup {r}
  <2>1. ASSUME NEW i \in 1 .. n + 1 PROVE t[i] \in {s[j] : j \in 1 .. n} \cup {r}
    BY <1>2, <1>3
  <2>2. ASSUME NEW j \in 1 .. n PROVE \E i \in 1 .. n + 1 : t[i] = s[j]
    <3>1. CASE j < p
      BY <1>3, <3>1
    <3>2. CASE j >= p
      <4>1. j + 1 \in 1 .. n + 1 /\ j + 1 > p /\ j + 1 - 1 = j
        BY <1>2, <3>2
      <4> QED
        BY <1>3, <4>1
    <3> QED
      BY <1>2, <3>1, <3>2
  <2>3. t[p] = r
    BY <1>2, <1>3
  <2> QED
    BY <1>2, <2>1, <2>2, <2>3
<1>7. {rs[i] : i \in 1 .. n + 1} = {rs[i] : i \in 1 .. n} \cup {r}
  <2>1. \A i : i \in 1 .. n + 1 <=> i \in 1 .. n \/ i = n + 1
    OBVIOUS
  <2> QED
    BY <2>1
<1>8. InOrder(t, rs, n + 1)
  <2>1. {s[i] : i \in 1 .. n} = {rs[i] : i \in 1 .. n}
    BY DEF InOrder
  <2> HIDE DEF r
  <2> QED
    BY <1>4, <1>5, <1>6, <1>7, <2>1 DEF InOrder
<1> QED
  BY <1>8

LEMMA CanOrder ==
  ASSUME NEW n \in Nat, NEW rs \in [1 .. n -> Nat \X Nat]
  PROVE  \E s : InOrder(s, rs, n)
<1> DEFINE T == {k \in 0 .. n : \E s : InOrder(s, rs, k)}
<1>1. 0 \in T
  <2>1. InOrder([i \in 1 .. 0 |-> <<0, 0>>], rs, 0)
    BY DEF InOrder
  <2> QED
    BY <2>1
<1>2. ASSUME NEW k \in 1 .. n, k - 1 \in T PROVE k \in T
  <2>1. PICK s : InOrder(s, rs, k - 1)
    BY <1>2
  <2>2. k - 1 \in Nat /\ k - 1 + 1 = k /\ rs[k] \in Nat \X Nat
    OBVIOUS
  <2>3. \E t : InOrder(t, rs, k - 1 + 1)
    BY <2>1, <2>2, InsertOne
  <2> QED
    BY <2>2, <2>3
<1>3. n \in T
  <2> HIDE DEF T
  <2>1. \A i \in 0 .. n : i \in T
    BY <1>1, <1>2, UpTo
  <2> QED
    BY <2>1
<1> QED
  BY <1>3

\* what is said of the frames fs
Exact(fs) ==
    LET r == QUICDefragCrypto(fs)
        came == {fs[i] : i \in DOMAIN fs}
        bytes == UNION {f[1] .. f[1] + f[2] - 1 : f \in came}
        ends == {f[1] + f[2] : f \in came}
    IN  /\ r.found => /\ r.len \in ends /\ (\A e \in ends : e <= r.len)
                      /\ r.full = {0 .. r.len - 1 \subseteq bytes}
                      /\ \A i \in 0 .. r.len - 1 : r.buf[i] = IF i \in bytes THEN "data" ELSE "zero"
        /\ ~r.found => \/ \E e \in ends : e > DefragRoom
                       \/ Cardinality({fs[i] : i \in 1 .. Len(fs) - 1}) >= MAX_DEFRAG_PIECES

LEMMA DefragExact ==
  ASSUME NEW n \in Nat, n > 0, NEW fs \in [1 .. n -> Frames]
  PROVE  Exact(fs)
<1> DEFINE s == PutAll(fs)
           r == QUICDefragCrypto(fs)
           came == {fs[i] : i \in DOMAIN fs}
           bytes == UNION {f[1] .. f[1] + f[2] - 1 : f \in came}
           ends == {f[1] + f[2] : f \in came}
           F(rs) == Len(Joined(rs)) = 1 /\ Joined(rs)[1][1] = 0
<1>0. DOMAIN fs = 1 .. n /\ Len(fs) = n /\ fs # <<>> /\ came = Seen(fs, n)
  BY DEF Seen
<1>1. s \in PutStates /\ PutInv(s, fs, n)
  BY AllPut
<1>2. /\ r.found = s.ok /\ r.len = s.szmax /\ r.buf = s.buf
      /\ s.ok => r.full = {F(rs) : rs \in Sortings(s.ranges)}
  <2>1. s.ok \in BOOLEAN
    BY <1>1 DEF PutStates
  <2> QED
    BY <1>0, <2>1 DEF QUICDefragCrypto
<1>3. \A b : b \in bytes <=> \E f \in Seen(fs, n) : b \in Extent(f)
  BY <1>0 DEF Extent
<1> HIDE DEF s, r, bytes
<1>4. ASSUME ~s.ok
      PROVE  \/ \E e \in ends : e > DefragRoom
             \/ Cardinality({fs[i] : i \in 1 .. Len(fs) - 1}) >= MAX_DEFRAG_PIECES
  <2>1. \/ \E f \in Seen(fs, n) : f[1] + f[2] > DefragRoom
        \/ Cardinality(Seen(fs, n - 1)) >= MAX_DEFRAG_PIECES
    BY <1>1, <1>4 DEF PutInv
  <2> QED
    BY <1>0, <2>1 DEF Seen
<1>5. ASSUME s.ok
      PROVE  /\ s.szmax \in ends /\ (\A e \in ends : e <= s.szmax)
             /\ r.full = {0 .. s.szmax - 1 \subseteq bytes}
             /\ \A i \in 0 .. s.szmax - 1 : s.buf[i] = IF i \in bytes THEN "data" ELSE "zero"
  <2>0. /\ {s.ranges[i] : i \in DOMAIN s.ranges} = Seen(fs, n)
        /\ \A f \in Seen(fs, n) : f[1] + f[2] <= s.szmax
        /\ \E f \in Seen(fs, n) : f[1] + f[2] = s.szmax
        /\ \A b \in 0 .. s.szmax - 1 :
             s.buf[b] = IF \E f \in Seen(fs, n) : b \in Extent(f) THEN "data" ELSE "zero"
    BY <1>1, <1>5 DEF PutInv
  <2>1. s.szmax \in Nat /\ s.ranges \in Seq(Frames)
    BY <1>1 DEF PutStates
  <2> DEFINE rg == s.ranges
             k == Len(rg)
             size == s.szmax
  <2>2. k \in Nat /\ DOMAIN rg = 1 .. k /\ rg \in [1 .. k -> Nat \X Nat] /\ k > 0
    <3>1. k \in Nat /\ DOMAIN rg = 1 .. k /\ rg \in [1 .. k -> Frames]
      BY <2>1
    <3>2. \A i \in 1 .. k : rg[i] \in Nat \X Nat
      BY <3>1, ProtocolAssumption
    <3>3. k # 0
      BY <2>0, <3>1
    <3> QED
      BY <3>1, <3>2, <3>3
  <2> HIDE DEF k, rg, size
  <2>3. ASSUME NEW rs \in Sortings(rg) PROVE F(rs) <=> 0 .. size - 1 \subseteq bytes
    <3>1. /\ rs \in [1 .. k -> Nat \X Nat] /\ \A i, j \in 1 .. k : i < j => rs[i][1] <= rs[j][1]
          /\ {rs[i] : i \in 1 .. k} = Seen(fs, n)
      <4>1. rs \in [DOMAIN rg -> {rg[i] : i \in DOMAIN rg}]
        BY DEF Sortings
      <4>2. /\ \A i, j \in DOMAIN rg : i < j => rs[i][1] <= rs[j][1]
            /\ {rs[i] : i \in DOMAIN rs} = {rg[i] : i \in DOMAIN rg}
        BY DEF Sortings
      <4>3. \A i \in 1 .. k : rs[i] \in Nat \X Nat
        <5>1. \A x \in {rg[i] : i \in 1 .. k} : x \in Nat \X Nat
          BY <2>2
        <5> QED
          BY <2>2, <4>1, <5>1
      <4> QED
        BY <2>0, <2>2, <4>1, <4>2, <4>3 DEF rg
    <3>2. (\A i \in 1 .. k : rs[i][1] + rs[i][2] <= size) /\ \E i \in 1 .. k : rs[i][1] + rs[i][2] = size
      BY <2>0, <3>1 DEF size
    <3>3. F(rs) <=> \A b \in 0 .. size - 1 : \E i \in 1 .. k : b \in Extent(rs[i])
      <4>1. size \in Nat
        BY <2>1 DEF size
      <4> QED
        BY <2>2, <3>1, <3>2, <4>1, OneRange
    <3> HIDE DEF F
    <3> QED
      BY <1>3, <3>1, <3>3
  <2>4. PICK o : o \in Sortings(rg)
    <3>1. PICK o : InOrder(o, rg, k)
      BY <2>2, CanOrder
    <3>2. /\ o \in [1 .. k -> Nat \X Nat] /\ \A i, j \in 1 .. k : i < j => o[i][1] <= o[j][1]
          /\ {o[i] : i \in 1 .. k} = {rg[i] : i \in 1 .. k}
      BY <3>1 DEF InOrder
    <3>3. \A i \in 1 .. k : o[i] \in {rg[j] : j \in 1 .. k}
      BY <3>2
    <3>4. o \in Sortings(rg)
      BY <2>2, <3>2, <3>3 DEF Sortings
    <3> QED
      BY <3>4
  <2>5. r.full = {F(rs) : rs \in Sortings(rg)}
    BY <1>2, <1>5 DEF rg
  <2>6. r.full = {0 .. size - 1 \subseteq bytes}
    <3>1. \A rs \in Sortings(rg) : F(rs) = (0 .. size - 1 \subseteq bytes)
      BY <2>3
    <3> HIDE DEF F
    <3> QED
      BY <2>4, <2>5, <3>1
  <2>7. \A i \in 0 .. s.szmax - 1 : s.buf[i] = IF i \in bytes THEN "data" ELSE "zero"
    BY <1>3, <2>0
  <2>8. s.szmax \in ends /\ (\A e \in ends : e <= s.szmax)
    BY <1>0, <2>0
  <2> QED
    BY <2>6, <2>7, <2>8 DEF size
<1>6. /\ r.found => /\ r.len \in ends /\ (\A e \in ends : e <= r.len)
                    /\ r.full = {0 .. r.len - 1 \subseteq bytes}
                    /\ \A i \in 0 .. r.len - 1 : r.buf[i] = IF i \in bytes THEN "data" ELSE "zero"
      /\ ~r.found => \/ \E e \in ends : e > DefragRoom
                     \/ Cardinality({fs[i] : i \in 1 .. Len(fs) - 1}) >= MAX_DEFRAG_PIECES
  BY <1>2, <1>4, <1>5
<1> QED
  BY <1>6 DEF Exact, r, bytes

\* For every buffer, every number of ranges that are remembered and every sequence
\* of frames of any offsets and lengths: the ClientHello is taken for complete
\* exactly when all of it came, whatever qsort does with equal offsets.
THEOREM CryptoIsExact == CallSpec => []DefragIsExact
<1>1. call = NoCall \/ CallInit => DefragIsExact
  <2> SUFFICES ASSUME call = NoCall \/ CallInit, call.k = "crypto" PROVE Exact(call.fs)
    BY DEF DefragIsExact, Exact
  <2>1. PICK fs \in FrameSeqs : call = [k |-> "crypto", fs |-> fs]
    <3>1. CASE call = NoCall
      BY <3>1 DEF NoCall
    <3>2. CASE \E p \in Whole \cup Parts : call = [k |-> "packet", p |-> p]
      BY <3>2
    <3>3. CASE \E m \in Messages : call = [k |-> "message", m |-> m]
      BY <3>3
    <3>4. CASE \E h \in Hellos(0), mod \in Mods, payload \in Payloads, room \in {0, 9} :
             call = [k |-> "tls_mod", h |-> h, mod |-> mod, payload |-> payload, room |-> room]
      BY <3>4
    <3> QED
      BY <3>1, <3>2, <3>3, <3>4 DEF CallInit
  <2>2. PICK n \in 1 .. MAX_DEFRAG_PIECES + 1 : fs \in [1 .. n -> Frames]
    BY <2>1 DEF FrameSeqs
  <2>3. n \in Nat /\ n > 0
    BY ProtocolAssumption
  <2> QED
    BY <2>1, <2>2, <2>3, DefragExact
<1>2. DefragIsExact /\ UNCHANGED call => DefragIsExact'
  BY DEF DefragIsExact
<1> QED
  BY <1>1, <1>2, PTL DEF CallSpec

-----------------------------------------------------------------------------
(* sums of lengths                                                         *)

\* the first k of s and of t are the same
LEMMA SumsSame ==
  ASSUME NEW n \in Nat, NEW s \in [1 .. n -> Int], NEW m \in Nat, NEW t \in [1 .. m -> Int],
         NEW k \in Nat, k <= n, k <= m, \A i \in 1 .. k : s[i] = t[i]
  PROVE  Sums(s)[k] = Sums(t)[k]
<1> DEFINE T == {i \in 0 .. k : Sums(s)[i] = Sums(t)[i]}
<1>1. 0 \in T
  BY SumsIs
<1>2. ASSUME NEW i \in 1 .. k, i - 1 \in T PROVE i \in T
  <2>1. i \in 1 .. n /\ i \in 1 .. m
    OBVIOUS
  <2>2. Sums(s)[i] = Sums(s)[i - 1] + s[i] /\ Sums(t)[i] = Sums(t)[i - 1] + t[i]
    BY <2>1, SumsIs
  <2> QED
    BY <1>2, <2>2
<1>3. \A i \in 0 .. k : i \in T
  <2> HIDE DEF T
  <2> QED
    BY <1>1, <1>2, UpTo
<1> QED
  BY <1>3

\* element i grows by d
LEMMA SumsEdit ==
  ASSUME NEW n \in Nat, NEW s \in [1 .. n -> Int], NEW t \in [1 .. n -> Int],
         NEW i \in 1 .. n, NEW d \in Int, t[i] = s[i] + d, \A j \in 1 .. n : j # i => t[j] = s[j]
  PROVE  \A j \in 0 .. n : Sums(t)[j] = IF j >= i THEN Sums(s)[j] + d ELSE Sums(s)[j]
<1> DEFINE x == Sums(s)
           y == Sums(t)
           T == {j \in 0 .. n : y[j] = IF j >= i THEN x[j] + d ELSE x[j]}
<1>0. /\ x \in [0 .. n -> Int] /\ x[0] = 0 /\ \A j \in 1 .. n : x[j] = x[j - 1] + s[j]
      /\ y \in [0 .. n -> Int] /\ y[0] = 0 /\ \A j \in 1 .. n : y[j] = y[j - 1] + t[j]
  BY SumsIs
<1> HIDE DEF x, y
<1>1. 0 \in T
  BY <1>0
<1>2. ASSUME NEW j \in 1 .. n, j - 1 \in T PROVE j \in T
  <2>0. j - 1 \in 0 .. n /\ x[j - 1] \in Int /\ y[j - 1] \in Int /\ s[j] \in Int /\ t[j] \in Int
    <3>1. j - 1 \in 0 .. n /\ s[j] \in Int /\ t[j] \in Int
      OBVIOUS
    <3> QED
      BY <1>0, <3>1
  <2>1. x[j] = x[j - 1] + s[j] /\ y[j] = y[j - 1] + t[j]
    BY <1>0
  <2>2. y[j - 1] = IF j - 1 >= i THEN x[j - 1] + d ELSE x[j - 1]
    BY <1>2
  <2>3. CASE j = i
    BY <2>0, <2>1, <2>2, <2>3
  <2>4. CASE j # i
    <3>1. t[j] = s[j] /\ (j >= i <=> j - 1 >= i)
      BY <2>4
    <3> QED
      BY <2>0, <2>1, <2>2, <3>1, SMTT(30)
  <2> QED
    BY <2>3, <2>4
<1>3. \A j \in 0 .. n : j \in T
  <2> HIDE DEF T
  <2> QED
    BY <1>1, <1>2, UpTo
<1> QED
  BY <1>3 DEF x, y

\* sums grow by at least lo and at most hi with each element
LEMMA SumsGrow ==
  ASSUME NEW n \in Nat, NEW s \in [1 .. n -> Int], NEW lo \in Nat, \A i \in 1 .. n : s[i] >= lo
  PROVE  \A i, j \in 0 .. n : i < j => Sums(s)[i] + lo <= Sums(s)[j]
<1> DEFINE x == Sums(s)
           T == {j \in 0 .. n : \A i \in 0 .. j : i < j => x[i] + lo <= x[j]}
<1>0. x \in [0 .. n -> Int] /\ x[0] = 0 /\ \A j \in 1 .. n : x[j] = x[j - 1] + s[j]
  BY SumsIs
<1> HIDE DEF x
<1>1. 0 \in T
  OBVIOUS
<1>2. ASSUME NEW j \in 1 .. n, j - 1 \in T PROVE j \in T
  <2>1. ASSUME NEW i \in 0 .. j, i < j PROVE x[i] + lo <= x[j]
    <3>0. /\ j - 1 \in 0 .. n /\ i \in 0 .. n /\ x[j - 1] \in Int /\ x[i] \in Int /\ s[j] \in Int
          /\ x[j] = x[j - 1] + s[j] /\ s[j] >= lo
      BY <1>0, SMTT(30)
    <3>1. CASE i = j - 1
      BY <3>0, <3>1
    <3>2. CASE i # j - 1
      <4>1. i \in 0 .. j - 1 /\ i < j - 1
        BY <2>1, <3>2
      <4>2. x[i] + lo <= x[j - 1]
        BY <1>2, <4>1
      <4> QED
        BY <3>0, <4>2
    <3> QED
      BY <3>1, <3>2
  <2> QED
    BY <2>1
<1>3. \A j \in 0 .. n : j \in T
  <2> HIDE DEF T
  <2> QED
    BY <1>1, <1>2, UpTo
<1> QED
  BY <1>3 DEF x

LEMMA NameIs ==
  ASSUME NEW name \in Seq(Nat), name # <<>>
  PROVE  NameLen(name) \in Nat /\ Total(name) \in Nat /\ Len(name) \in Nat \ {0}
         /\ \A i \in 1 .. Len(name) : name[i] \in Nat /\ name[i] <= Total(name)
<1> DEFINE n == Len(name)
           x == Sums(name)
<1>1. n \in Nat /\ n # 0 /\ name \in [1 .. n -> Int] /\ \A i \in 1 .. n : name[i] \in Nat /\ name[i] >= 0
  OBVIOUS
<1>2. x \in [0 .. n -> Int] /\ x[0] = 0 /\ \A i \in 1 .. n : x[i] = x[i - 1] + name[i]
  <2> HIDE DEF n
  <2> QED
    BY <1>1, SumsIs
<1>3. \A i, j \in 0 .. n : i < j => x[i] + 0 <= x[j]
  <2> HIDE DEF n
  <2> QED
    BY <1>1, SumsGrow
<1> HIDE DEF x, n
<1>4. x[n] \in Nat
  BY <1>1, <1>2, <1>3
<1>5. ASSUME NEW i \in 1 .. n PROVE name[i] <= x[n]
  <2>1. i - 1 \in 0 .. n /\ i \in 0 .. n /\ n \in 0 .. n /\ 0 \in 0 .. n
    BY <1>1
  <2>2. x[i - 1] \in Int /\ x[i - 1] >= 0
    BY <1>2, <1>3, <2>1
  <2>3. x[i] <= x[n] /\ x[i] \in Int /\ x[n] \in Int
    <3>1. x[i] \in Int /\ x[n] \in Int
      BY <1>2, <2>1
    <3>2. CASE i = n
      BY <3>1, <3>2
    <3>3. CASE i # n
      <4>1. i < n
        BY <1>1, <3>3
      <4>2. x[i] + 0 <= x[n]
        BY <1>3, <2>1, <4>1
      <4> QED
        BY <3>1, <4>2
    <3> QED
      BY <3>1, <3>2, <3>3
  <2>4. x[i] = x[i - 1] + name[i] /\ name[i] \in Nat
    BY <1>1, <1>2
  <2> QED
    BY <2>2, <2>3, <2>4, SMTT(30)
<1> QED
  BY <1>1, <1>4, <1>5 DEF NameLen, Total, x, n

-----------------------------------------------------------------------------
(* ClientHellos                                                            *)

Ext == [type : Nat, len : Nat, list : Nat, slen : Nat, name : Seq(Nat)]
HelloRec ==
    [k : {"tls"}, sid : Nat, cs : Nat, cm : Nat, exts : Seq(Ext), extl : Int, rec : Int, hs : Int, size : Int]

\* where extensions end
EndsOf(exts) == Sums(ExtSizes(exts))

LEMMA EndsIs ==
  ASSUME NEW exts \in Seq(Ext), NEW N, N = Len(exts)
  PROVE  /\ N \in Nat /\ DOMAIN exts = 1 .. N /\ ExtSizes(exts) \in [1 .. N -> Int]
         /\ \A i \in 1 .. N : exts[i] \in Ext /\ exts[i].len \in Nat /\ ExtSizes(exts)[i] = 4 + exts[i].len
         /\ EndsOf(exts) \in [0 .. N -> Int] /\ EndsOf(exts)[0] = 0
         /\ \A i \in 1 .. N : EndsOf(exts)[i] = EndsOf(exts)[i - 1] + 4 + exts[i].len
         /\ \A i, j \in 0 .. N : i < j => EndsOf(exts)[i] + 4 <= EndsOf(exts)[j]
         /\ \A i \in 0 .. N : EndsOf(exts)[i] \in Nat /\ EndsOf(exts)[i] <= EndsOf(exts)[N]
         /\ SizeOfExts(exts) = EndsOf(exts)[N]
<1> DEFINE s == ExtSizes(exts)
           x == EndsOf(exts)
<1>1. N \in Nat /\ DOMAIN exts = 1 .. N /\ \A i \in 1 .. N : exts[i] \in Ext
  OBVIOUS
<1>2. \A i \in 1 .. N : exts[i].len \in Nat
  BY <1>1 DEF Ext
<1>3. s \in [1 .. N -> Int] /\ \A i \in 1 .. N : s[i] = 4 + exts[i].len /\ s[i] >= 4
  BY <1>1, <1>2 DEF ExtSizes
<1> HIDE DEF s
<1>4. /\ Len(s) = N /\ Sums(s) \in [0 .. N -> Int] /\ Sums(s)[0] = 0
      /\ \A i \in 1 .. N : Sums(s)[i] = Sums(s)[i - 1] + s[i]
  BY <1>1, <1>3, SumsIs
<1>5. \A i, j \in 0 .. N : i < j => Sums(s)[i] + 4 <= Sums(s)[j]
  BY <1>1, <1>3, SumsGrow
<1>6. x = Sums(s) /\ SizeOfExts(exts) = x[N]
  BY <1>4 DEF SizeOfExts, Total, EndsOf, s
<1> HIDE DEF x
<1>7. x \in [0 .. N -> Int] /\ x[0] = 0 /\ \A i, j \in 0 .. N : i < j => x[i] + 4 <= x[j]
  BY <1>4, <1>5, <1>6
<1>8. ASSUME NEW i \in 1 .. N PROVE x[i] = x[i - 1] + 4 + exts[i].len
  <2>1. x[i] = x[i - 1] + s[i] /\ s[i] = 4 + exts[i].len /\ exts[i].len \in Nat /\ x[i - 1] \in Int
    <3>1. i - 1 \in 0 .. N
      BY <1>1
    <3>2. x[i] = x[i - 1] + s[i]
      BY <1>4, <1>6
    <3>3. x[i - 1] \in Int
      BY <1>7, <3>1
    <3> QED
      BY <1>2, <1>3, <3>2, <3>3
  <2> QED
    BY <2>1, SMTT(30)
<1>9. ASSUME NEW i \in 0 .. N PROVE x[i] \in Nat /\ x[i] <= x[N]
  <2>1. 0 \in 0 .. N /\ N \in 0 .. N /\ x[i] \in Int /\ x[N] \in Int
    BY <1>1, <1>7
  <2>2. CASE i = 0
    <3>1. CASE N = 0
      BY <1>7, <2>1, <2>2, <3>1
    <3>2. CASE N # 0
      <4>1. 0 < N
        BY <1>1, <3>2
      <4>2. x[0] + 4 <= x[N]
        BY <1>7, <2>1, <4>1
      <4> QED
        BY <1>7, <2>1, <2>2, <4>2
    <3> QED
      BY <3>1, <3>2
  <2>3. CASE i # 0
    <3>1. 0 < i
      BY <2>3
    <3>2. x[0] + 4 <= x[i]
      BY <1>7, <2>1, <3>1
    <3>3. CASE i = N
      BY <1>7, <2>1, <3>2, <3>3
    <3>4. CASE i < N
      <4>1. x[i] + 4 <= x[N]
        BY <1>7, <2>1, <3>4
      <4> QED
        BY <1>7, <2>1, <3>2, <4>1
    <3> QED
      BY <1>1, <3>3, <3>4
  <2> QED
    BY <2>2, <2>3
<1> QED
  BY <1>1, <1>2, <1>3, <1>6, <1>7, <1>8, <1>9 DEF x, s

\* the loop finds the first complete extension of a type
FoundNone(exts, type, left, w) ==
    /\ w = [i |-> 0, at |-> 0]
    /\ \A j \in 1 .. Len(exts) : ~(EndsOf(exts)[j] <= left /\ exts[j].type = type)
FoundFirst(exts, type, at, left, w, i) ==
    /\ w = [i |-> i, at |-> at + EndsOf(exts)[i - 1] + 4]
    /\ EndsOf(exts)[i] <= left /\ exts[i].type = type
    /\ \A j \in 1 .. Len(exts) : EndsOf(exts)[j] <= left /\ exts[j].type = type => i <= j

LEMMA WalkIs ==
  ASSUME NEW exts \in Seq(Ext), NEW type, NEW at \in Int, NEW left \in Int,
         NEW w, w = WalkExts(exts, type, at, left)
  PROVE  \/ FoundNone(exts, type, left, w)
         \/ \E i \in 1 .. Len(exts) : FoundFirst(exts, type, at, left, w, i)
<1> DEFINE ends == EndsOf(exts)
           found == {i \in DOMAIN exts : ends[i] <= left /\ exts[i].type = type}
           c == CHOOSE j \in found : \A k \in found : j <= k
<1>0. DOMAIN exts = 1 .. Len(exts) /\ found \subseteq Nat
  OBVIOUS
<1>1. w = IF found = {} THEN [i |-> 0, at |-> 0] ELSE [i |-> c, at |-> at + ends[c - 1] + 4]
  BY DEF WalkExts, EndsOf
<1>2. CASE found = {}
  BY <1>0, <1>1, <1>2 DEF FoundNone
<1>3. CASE found # {}
  <2>1. \E j \in found : \A k \in found : j <= k
    <3> HIDE DEF found
    <3> QED
      BY <1>0, <1>3, LeastNat
  <2>2. c \in found /\ \A k \in found : c <= k
    BY <2>1
  <2>3. w = [i |-> c, at |-> at + ends[c - 1] + 4]
    BY <1>1, <1>3
  <2> HIDE DEF c
  <2> QED
    BY <1>0, <2>2, <2>3 DEF FoundFirst
<1> QED
  BY <1>2, <1>3

OneSni(exts) == \A i, j \in 1 .. Len(exts) : exts[i].type = SNI /\ exts[j].type = SNI => i = j
SnisOk(exts) ==
    \A i \in DOMAIN exts : exts[i].type = SNI =>
       /\ exts[i].len = exts[i].list + 2
       /\ exts[i].list = exts[i].slen + 3
       /\ exts[i].slen = NameLen(exts[i].name)

LEMMA SniExtIs ==
  ASSUME NEW name \in Names
  PROVE  SniExt(name) \in Ext /\ SniExt(name).type = SNI /\ SniExt(name).len <= 260
         /\ SniExt(name).len = SniExt(name).list + 2 /\ SniExt(name).list = SniExt(name).slen + 3
         /\ SniExt(name).slen = NameLen(SniExt(name).name) /\ SniExt(name).name = name
<1>1. name \in Seq(Nat) /\ name # <<>> /\ NameLen(name) <= 255
  BY ProtocolAssumption
<1>2. NameLen(name) \in Nat
  BY <1>1, NameIs
<1> QED
  BY <1>1, <1>2 DEF SniExt, Ext, SNI

LEMMA OtherExtIs ==
  ASSUME NEW type \in Nat, type # SNI, NEW n \in Nat, n <= 260
  PROVE  OtherExt(type, n) \in Ext /\ OtherExt(type, n).type = type /\ OtherExt(type, n).len = n
  BY DEF OtherExt, Ext

LEMMA ExtListIs ==
  ASSUME NEW exts \in ExtLists
  PROVE  /\ exts \in Seq(Ext) /\ Len(exts) <= 3 /\ OneSni(exts) /\ SnisOk(exts)
         /\ \A i \in 1 .. Len(exts) : exts[i].len <= 260
<1> DEFINE P(e) == /\ e \in Seq(Ext) /\ Len(e) <= 3 /\ OneSni(e) /\ SnisOk(e)
                   /\ \A i \in 1 .. Len(e) : e[i].len <= 260
<1>1. P(<<>>)
  BY DEF OneSni, SnisOk
<1>2. /\ OtherExt(10, 4) \in Ext /\ OtherExt(10, 4).type # SNI /\ OtherExt(10, 4).len <= 260
      /\ OtherExt(23, 0) \in Ext /\ OtherExt(23, 0).type # SNI /\ OtherExt(23, 0).len <= 260
      /\ OtherExt(PADDING, 3) \in Ext /\ OtherExt(PADDING, 3).type # SNI /\ OtherExt(PADDING, 3).len <= 260
      /\ OtherExt(PADDING, 2) \in Ext /\ OtherExt(PADDING, 2).type # SNI /\ OtherExt(PADDING, 2).len <= 260
  BY OtherExtIs DEF SNI, PADDING
<1>3. ASSUME NEW a \in Ext, a.type # SNI, a.len <= 260 PROVE P(<<a>>)
  BY <1>3 DEF OneSni, SnisOk
<1>4. ASSUME NEW n \in Names
      PROVE  /\ P(<<SniExt(n)>>) /\ P(<<SniExt(n), OtherExt(10, 4)>>)
             /\ P(<<OtherExt(23, 0), SniExt(n), OtherExt(PADDING, 3)>>)
             /\ P(<<OtherExt(PADDING, 2), SniExt(n)>>)
  <2> DEFINE s == SniExt(n)
  <2>1. /\ s \in Ext /\ s.type = SNI /\ s.len <= 260 /\ s.len = s.list + 2 /\ s.list = s.slen + 3
        /\ s.slen = NameLen(s.name)
    BY SniExtIs
  <2> HIDE DEF s
  <2>2. P(<<s>>)
    BY <2>1 DEF OneSni, SnisOk
  <2>3. ASSUME NEW a \in Ext, a.type # SNI, a.len <= 260 PROVE P(<<s, a>>) /\ P(<<a, s>>)
    BY <2>1, <2>3 DEF OneSni, SnisOk
  <2>4. ASSUME NEW a \in Ext, a.type # SNI, a.len <= 260, NEW b \in Ext, b.type # SNI, b.len <= 260
        PROVE  P(<<a, s, b>>)
    BY <2>1, <2>4 DEF OneSni, SnisOk
  <2> HIDE DEF P
  <2> QED
    BY <1>2, <2>2, <2>3, <2>4 DEF s
<1> HIDE DEF P
<1>5. P(exts)
  <2>1. P(<<OtherExt(10, 4)>>)
    BY <1>2, <1>3
  <2>2. \/ \E n \in Names : \/ exts = <<SniExt(n)>> \/ exts = <<SniExt(n), OtherExt(10, 4)>>
                            \/ exts = <<OtherExt(23, 0), SniExt(n), OtherExt(PADDING, 3)>>
                            \/ exts = <<OtherExt(PADDING, 2), SniExt(n)>>
        \/ exts = <<>> \/ exts = <<OtherExt(10, 4)>>
    BY DEF ExtLists
  <2> QED
    BY <1>1, <1>4, <2>1, <2>2
<1> QED
  BY <1>5 DEF P

\* lengths of extensions that are at most 264 with their headers
LEMMA EndsBound ==
  ASSUME NEW exts \in Seq(Ext), Len(exts) <= 3, \A i \in 1 .. Len(exts) : exts[i].len <= 260
  PROVE  SizeOfExts(exts) \in 0 .. 792
<1> DEFINE N == Len(exts)
           x == EndsOf(exts)
           T == {i \in 0 .. N : x[i] <= 264 * i}
<1>1. /\ N \in Nat /\ \A i \in 1 .. N : exts[i].len \in Nat /\ exts[i].len <= 260
      /\ x \in [0 .. N -> Int] /\ x[0] = 0
      /\ \A i \in 1 .. N : x[i] = x[i - 1] + 4 + exts[i].len
      /\ \A i \in 0 .. N : x[i] \in Nat
      /\ SizeOfExts(exts) = x[N]
  BY EndsIs
<1> HIDE DEF x
<1>2. 0 \in T
  BY <1>1
<1>3. ASSUME NEW i \in 1 .. N, i - 1 \in T PROVE i \in T
  <2>1. x[i - 1] <= 264 * (i - 1) /\ x[i - 1] \in Nat /\ exts[i].len \in Nat /\ exts[i].len <= 260
    BY <1>1, <1>3
  <2>2. x[i] = x[i - 1] + 4 + exts[i].len
    BY <1>1
  <2>3. x[i] <= 264 * i
    BY <1>1, <2>1, <2>2, SMTT(30)
  <2> QED
    BY <2>3
<1>4. N \in T
  <2> HIDE DEF T
  <2>1. \A i \in 0 .. N : i \in T
    BY <1>1, <1>2, <1>3, UpTo
  <2> QED
    BY <1>1, <2>1
<1>5. x[N] <= 264 * N /\ x[N] \in Nat
  BY <1>1, <1>4
<1> HIDE DEF N
<1>6. N \in 0 .. 3
  <2>1. N <= 3
    BY DEF N
  <2> QED
    BY <1>1, <2>1
<1>7. PICK y \in Nat : y = x[N]
  BY <1>5
<1>8. y <= 264 * N
  BY <1>5, <1>7
<1>9. y \in 0 .. 792
  BY <1>6, <1>8
<1>10. SizeOfExts(exts) = y
  BY <1>1, <1>7 DEF N
<1> QED
  BY <1>9, <1>10

LEMMA HelloIs ==
  ASSUME NEW later \in Nat, NEW h \in Hellos(later)
  PROVE  /\ h \in HelloRec /\ h.sid \in 0 .. 255 /\ h.exts \in ExtLists
         /\ ExtLenAt(h) = 50 + h.sid /\ h.extl = SizeOfExts(h.exts) /\ h.extl \in 0 .. 792
         /\ h.hs = 43 + h.sid + h.extl /\ h.rec = 47 + h.sid + h.extl - later
         /\ h.size = IF later = 0 THEN 52 + h.sid + h.extl ELSE 57 + h.sid + h.extl
<1>1. PICK sid \in SidLens, exts \in ExtLists : h = Hello(sid, exts, later)
  BY DEF Hellos
<1>2. sid \in 0 .. 255
  BY ProtocolAssumption
<1>3. exts \in Seq(Ext) /\ SizeOfExts(exts) \in 0 .. 792
  BY ExtListIs, EndsBound, ZenonT(30)
<1> DEFINE n == SizeOfExts(exts)
           h0 == [k |-> "tls", sid |-> sid, cs |-> 2, cm |-> 1, exts |-> exts, extl |-> n,
                  rec |-> 0, hs |-> 0, size |-> 0]
           end == ExtLenAt(h0) + 2 + n
<1>4. h = [h0 EXCEPT !.hs = end - 9, !.rec = end - 5 - later, !.size = IF later = 0 THEN end ELSE end + 5]
  BY <1>1 DEF Hello
<1>5. end = 52 + sid + n
  BY <1>2, <1>3 DEF ExtLenAt
<1> HIDE DEF end
<1>6. /\ h.k = "tls" /\ h.sid = sid /\ h.cs = 2 /\ h.cm = 1 /\ h.exts = exts /\ h.extl = n
      /\ h.hs = end - 9 /\ h.rec = end - 5 - later /\ h.size = IF later = 0 THEN end ELSE end + 5
  BY <1>4
<1> HIDE DEF n
<1>7. PICK m \in 0 .. 792 : n = m
  BY <1>3 DEF n
<1>8. h.hs = 43 + sid + m /\ h.rec = 47 + sid + m - later
  BY <1>2, <1>5, <1>6, <1>7
<1>9. h.size = IF later = 0 THEN 52 + sid + m ELSE 57 + sid + m
  BY <1>2, <1>5, <1>6, <1>7
<1>10. h \in HelloRec
  <2>1. m \in Int /\ sid \in Nat /\ h.hs \in Int /\ h.rec \in Int /\ h.size \in Int
    BY <1>2, <1>8, <1>9
  <2> QED
    BY <1>3, <1>4, <1>6, <1>7, <2>1, ZenonT(30) DEF HelloRec
<1>11. ExtLenAt(h) = 50 + h.sid
  BY <1>2, <1>6 DEF ExtLenAt
<1> QED
  BY <1>2, <1>6, <1>7, <1>8, <1>9, <1>10, <1>11 DEF n

LEMMA Fields ==
  ASSUME NEW c, NEW q, NEW f, f = [i |-> c, at |-> q]
  PROVE  f.i = c /\ f.at = q
  OBVIOUS

\* A whole ClientHello in one record: an extension is found if it is there.
Good(h) == h \in HelloRec /\ WellFormed(h)

Lacks(h, type, f) == f.i = 0 /\ \A j \in 1 .. Len(h.exts) : h.exts[j].type # type
FoundAt(h, type, f, c) ==
    /\ c \in 1 .. Len(h.exts) /\ h.exts[c].type = type
    /\ f.i = c /\ f.at = ExtLenAt(h) + 2 + EndsOf(h.exts)[c - 1] + 4

LEMMA FindWhole ==
  ASSUME NEW h, Good(h), NEW type, NEW f, f = TLSFindExt(h, h.size, type, FALSE)
  PROVE  /\ IsTLSClientHello(h, h.size, FALSE) /\ TLSFindExtLen(h, h.size) # POS_NOT_FOUND
         /\ Lacks(h, type, f) \/ \E c \in 1 .. Len(h.exts) : FoundAt(h, type, f, c)
<1> DEFINE N == Len(h.exts)
           x == EndsOf(h.exts)
           a == ExtLenAt(h)
<1>1. /\ h.exts \in Seq(Ext) /\ h.sid \in Nat /\ h.cs \in Nat /\ h.cm \in Nat
      /\ h.size \in Int /\ h.rec \in Int /\ h.hs \in Int /\ h.extl \in Int
      /\ h.size = h.rec + 5 /\ h.rec = h.hs + 4 /\ h.hs + 9 = a + 2 + h.extl /\ h.extl = SizeOfExts(h.exts)
  BY DEF Good, HelloRec, WellFormed
<1>2. a \in Nat /\ a >= 47
  <2>1. PICK sid \in Nat, cs \in Nat, cm \in Nat : h.sid = sid /\ h.cs = cs /\ h.cm = cm
    BY <1>1
  <2>2. a = 5 + 38 + 1 + sid + 2 + cs + 1 + cm
    BY <2>1 DEF ExtLenAt
  <2> HIDE DEF a
  <2> QED
    BY <2>2
<1>3. /\ N \in Nat /\ x[N] \in Nat /\ SizeOfExts(h.exts) = x[N]
      /\ \A i \in 0 .. N : x[i] \in Nat /\ x[i] <= x[N]
  BY <1>1, EndsIs, SMTT(30)
<1> HIDE DEF a, x
<1>4. PICK e \in Nat : h.extl = e /\ e = x[N]
  BY <1>1, <1>3
<1>5. h.size = a + 2 + e /\ h.rec = a + e - 3 /\ h.hs = a + e - 7
  <2>1. PICK sz \in Int, rec \in Int, hs \in Int : h.size = sz /\ h.rec = rec /\ h.hs = hs
    BY <1>1
  <2>2. sz = rec + 5 /\ rec = hs + 4 /\ hs + 9 = a + 2 + e
    BY <1>1, <1>4, <2>1
  <2>3. sz = a + 2 + e /\ rec = a + e - 3 /\ hs = a + e - 7
    BY <1>2, <2>2
  <2> QED
    BY <2>1, <2>3
<1>6. IsTLSClientHello(h, h.size, FALSE)
  BY <1>2, <1>5 DEF IsTLSClientHello
<1>7. Smaller(h.size, h.rec + 5) = h.size
  BY <1>2, <1>5 DEF Smaller
<1>8. TLSFindExtLen(h, h.size) = a /\ a # POS_NOT_FOUND
  BY <1>2, <1>5 DEF TLSFindExtLen, POS_NOT_FOUND, a
<1>9. h.size - a - 2 = e /\ ~(h.hs + 4 > h.size - 5) /\ Smaller(e, e) = e /\ ~(e < e)
  BY <1>2, <1>5 DEF Smaller
<1>10. f = WalkExts(h.exts, type, a + 2, e)
  BY <1>4, <1>6, <1>7, <1>8, <1>9 DEF TLSFindExt, a
<1>11. FoundNone(h.exts, type, e, f) \/ \E i \in 1 .. N : FoundFirst(h.exts, type, a + 2, e, f, i)
  <2>1. a + 2 \in Int /\ e \in Int
    BY <1>2
  <2> QED
    BY <1>1, <1>10, <2>1, WalkIs
<1>12. CASE FoundNone(h.exts, type, e, f)
  <2>1. \A j \in 1 .. N : h.exts[j].type # type
    BY <1>3, <1>4, <1>12 DEF FoundNone, x
  <2>2. f.i = 0
    <3> DEFINE g == f
    <3>1. g = [i |-> 0, at |-> 0]
      BY <1>12 DEF FoundNone
    <3> HIDE DEF g
    <3>2. g.i = 0
      BY <3>1, Fields
    <3> QED
      BY <3>2 DEF g
  <2> QED
    BY <1>6, <1>8, <2>1, <2>2 DEF Lacks
<1>13. CASE \E i \in 1 .. N : FoundFirst(h.exts, type, a + 2, e, f, i)
  <2>1. PICK i \in 1 .. N : f = [i |-> i, at |-> a + 2 + x[i - 1] + 4] /\ h.exts[i].type = type
    BY <1>13 DEF FoundFirst, x
  <2>2. f.i = i /\ f.at = a + 2 + x[i - 1] + 4
    <3> DEFINE q == a + 2 + x[i - 1] + 4
               g == f
    <3>1. g = [i |-> i, at |-> q]
      BY <2>1
    <3> HIDE DEF q, g
    <3>2. g.i = i /\ g.at = q
      BY <3>1, Fields
    <3> QED
      BY <3>2 DEF g, q
  <2>3. FoundAt(h, type, f, i)
    BY <2>1, <2>2 DEF FoundAt, a, x
  <2> QED
    BY <1>6, <1>8, <2>3
<1> QED
  BY <1>11, <1>12, <1>13

-----------------------------------------------------------------------------
(* what tls_mod does to a ClientHello                                      *)

NamesItself(e) == e.type = SNI => e.len = e.list + 2 /\ e.list = e.slen + 3 /\ e.slen = NameLen(e.name)

\* all lengths that contain an extension, grown by n, and other extensions
Resized(h, n, exts) ==
    [k |-> "tls", sid |-> h.sid, cs |-> h.cs, cm |-> h.cm, exts |-> exts, extl |-> h.extl + n,
     rec |-> h.rec + n, hs |-> h.hs + n, size |-> h.size + n]

LEMMA ResizedGood ==
  ASSUME NEW h, Good(h), NEW n \in Int, NEW exts \in Seq(Ext),
         SizeOfExts(exts) = SizeOfExts(h.exts) + n, \A i \in DOMAIN exts : NamesItself(exts[i])
  PROVE  Good(Resized(h, n, exts))
<1> DEFINE g == Resized(h, n, exts)
<1>1. /\ h.exts \in Seq(Ext) /\ h.sid \in Nat /\ h.cs \in Nat /\ h.cm \in Nat
      /\ h.size \in Int /\ h.rec \in Int /\ h.hs \in Int /\ h.extl \in Int
      /\ h.size = h.rec + 5 /\ h.rec = h.hs + 4 /\ h.hs + 9 = ExtLenAt(h) + 2 + h.extl
      /\ h.extl = SizeOfExts(h.exts)
  BY DEF Good, HelloRec, WellFormed
<1>2. PICK sid \in Nat, cs \in Nat, cm \in Nat, size \in Int, rec \in Int, hs \in Int, extl \in Int :
        /\ h.sid = sid /\ h.cs = cs /\ h.cm = cm /\ h.size = size /\ h.rec = rec /\ h.hs = hs /\ h.extl = extl
  BY <1>1
<1>3. /\ g.k = "tls" /\ g.sid = sid /\ g.cs = cs /\ g.cm = cm /\ g.exts = exts /\ g.extl = extl + n
      /\ g.rec = rec + n /\ g.hs = hs + n /\ g.size = size + n
  BY <1>2 DEF Resized
<1>4. g \in HelloRec
  <2>1. extl + n \in Int /\ rec + n \in Int /\ hs + n \in Int /\ size + n \in Int
    OBVIOUS
  <2> QED
    BY <1>2, <2>1 DEF HelloRec, Resized
<1>5. PICK a \in Int : ExtLenAt(h) = a /\ ExtLenAt(g) = a
  <2>1. ExtLenAt(h) = 5 + 38 + 1 + sid + 2 + cs + 1 + cm
    BY <1>2 DEF ExtLenAt
  <2>2. ExtLenAt(g) = 5 + 38 + 1 + sid + 2 + cs + 1 + cm
    BY <1>3 DEF ExtLenAt
  <2> QED
    BY <2>1, <2>2
<1> HIDE DEF g
<1>6. size + n = rec + n + 5 /\ rec + n = hs + n + 4 /\ hs + n + 9 = a + 2 + (extl + n)
  <2>1. size = rec + 5 /\ rec = hs + 4 /\ hs + 9 = a + 2 + extl
    BY <1>1, <1>2, <1>5
  <2> QED
    BY <2>1
<1>7. extl + n = SizeOfExts(exts)
  BY <1>1, <1>2
<1>8. WellFormed(g)
  BY <1>3, <1>5, <1>6, <1>7 DEF WellFormed, NamesItself
<1> QED
  BY <1>4, <1>8 DEF Good, g

\* one extension is replaced
PutAt(exts, i, e) == [exts EXCEPT ![i] = e]
Replacing(exts, i, e, n) == i \in 1 .. Len(exts) /\ e.len = exts[i].len + n

LEMMA Replaced ==
  ASSUME NEW exts \in Seq(Ext), NEW i \in Nat, NEW e \in Ext, NEW n \in Int, Replacing(exts, i, e, n)
  PROVE  SizeOfExts(PutAt(exts, i, e)) = SizeOfExts(exts) + n
<1>0. i \in 1 .. Len(exts) /\ e.len = exts[i].len + n
  BY DEF Replacing
<1> DEFINE N == Len(exts)
           s == ExtSizes(exts)
           new == PutAt(exts, i, e)
           t == ExtSizes(new)
<1>1. /\ new \in Seq(Ext) /\ Len(new) = N /\ new[i] = e /\ N \in Nat
      /\ \A j \in 1 .. N : j # i => new[j] = exts[j]
  BY <1>0 DEF PutAt
<1>2. /\ s \in [1 .. N -> Int] /\ SizeOfExts(exts) = EndsOf(exts)[N]
      /\ \A j \in 1 .. N : s[j] = 4 + exts[j].len /\ exts[j].len \in Nat
      /\ EndsOf(exts) \in [0 .. N -> Int]
  BY EndsIs
<1>3. /\ t \in [1 .. N -> Int] /\ SizeOfExts(new) = EndsOf(new)[N]
      /\ \A j \in 1 .. N : t[j] = 4 + new[j].len /\ new[j].len \in Nat
  BY <1>1, EndsIs
<1> HIDE DEF s, t, N, new
<1>4. i \in 1 .. N
  BY <1>0 DEF N
<1>5. t[i] = s[i] + n
  <2>1. PICK l \in Nat, m \in Nat : l = exts[i].len /\ m = e.len
    BY <1>1, <1>2, <1>3, <1>4
  <2>2. m = l + n
    BY <1>0, <2>1
  <2>3. t[i] = 4 + m /\ s[i] = 4 + l
    BY <1>1, <1>2, <1>3, <1>4, <2>1
  <2> QED
    BY <2>2, <2>3
<1>6. ASSUME NEW j \in 1 .. N, j # i PROVE t[j] = s[j]
  <2>1. new[j] = exts[j]
    BY <1>1, <1>6
  <2> QED
    BY <1>2, <1>3, <2>1
<1>7. \A j \in 0 .. N : Sums(t)[j] = IF j >= i THEN Sums(s)[j] + n ELSE Sums(s)[j]
  <2>1. N \in Nat /\ s \in [1 .. N -> Int] /\ t \in [1 .. N -> Int] /\ \A j \in 1 .. N : j # i => t[j] = s[j]
    BY <1>1, <1>2, <1>3, <1>6
  <2> QED
    BY <2>1, <1>4, <1>5, SumsEdit
<1>8. N \in 0 .. N /\ N >= i
  BY <1>1, <1>4
<1>9. Sums(t)[N] = Sums(s)[N] + n
  BY <1>7, <1>8
<1>10. SizeOfExts(new) = SizeOfExts(exts) + n
  BY <1>2, <1>3, <1>9 DEF EndsOf, s, t
<1> QED
  BY <1>10 DEF new

\* an extension is appended
LEMMA OneMore ==
  ASSUME NEW exts \in Seq(Ext), NEW new \in Seq(Ext), NEW N, N = Len(exts), NEW M, M = Len(new)
  PROVE  M = N + 1 /\ (\A j \in 1 .. N : new[j] = exts[j]) =>
            SizeOfExts(new) = SizeOfExts(exts) + 4 + new[M].len
<1> DEFINE s == ExtSizes(exts)
           t == ExtSizes(new)
<1>2. /\ N \in Nat /\ s \in [1 .. N -> Int] /\ SizeOfExts(exts) = EndsOf(exts)[N]
      /\ \A j \in 1 .. N : s[j] = 4 + exts[j].len
  BY EndsIs
<1>3. /\ M \in Nat /\ t \in [1 .. M -> Int] /\ SizeOfExts(new) = EndsOf(new)[M]
      /\ \A j \in 1 .. M : t[j] = 4 + new[j].len
  BY EndsIs
<1>1. \A j \in 1 .. M : EndsOf(new)[j] = EndsOf(new)[j - 1] + 4 + new[j].len
  BY EndsIs
<1> HIDE DEF s, t
<1> HAVE M = N + 1 /\ \A j \in 1 .. N : new[j] = exts[j]
<1>4. ASSUME NEW j \in 1 .. N PROVE s[j] = t[j]
  <2>1. j \in 1 .. M /\ new[j] = exts[j]
    BY <1>2, <1>3
  <2> QED
    BY <1>2, <1>3, <2>1
<1>5. Sums(s)[N] = Sums(t)[N]
  <2>1. N <= N /\ N <= M
    BY <1>2, <1>3
  <2> QED
    BY <1>2, <1>3, <1>4, <2>1, SumsSame, ZenonT(30)
<1>6. M \in 1 .. M /\ M - 1 = N
  BY <1>2, <1>3
<1>7. EndsOf(new)[M] = EndsOf(new)[M - 1] + 4 + new[M].len
  BY <1>1, <1>6
<1>8. EndsOf(new)[N] = SizeOfExts(exts)
  BY <1>2, <1>5 DEF EndsOf, s, t
<1> QED
  BY <1>3, <1>6, <1>7, <1>8

Appending(new, exts, e) ==
    /\ new \in Seq(Ext) /\ Len(new) = Len(exts) + 1 /\ new[Len(exts) + 1] = e
    /\ \A j \in 1 .. Len(exts) : new[j] = exts[j]
    /\ SizeOfExts(new) = SizeOfExts(exts) + 4 + e.len

LEMMA Appended ==
  ASSUME NEW exts \in Seq(Ext), NEW e \in Ext
  PROVE  Appending(Append(exts, e), exts, e)
<1> DEFINE new == Append(exts, e)
<1>1. /\ new \in Seq(Ext) /\ Len(new) = Len(exts) + 1 /\ new[Len(exts) + 1] = e
      /\ \A j \in 1 .. Len(exts) : new[j] = exts[j]
  OBVIOUS
<1>2. SizeOfExts(new) = SizeOfExts(exts) + 4 + new[Len(new)].len
  <2> DEFINE x == new
             N == Len(exts)
             M == Len(x)
  <2>1. x \in Seq(Ext) /\ M = N + 1 /\ \A j \in 1 .. N : x[j] = exts[j]
    BY <1>1
  <2> HIDE DEF x
  <2>2. M = N + 1 /\ (\A j \in 1 .. N : x[j] = exts[j]) => SizeOfExts(x) = SizeOfExts(exts) + 4 + x[M].len
    <3> HIDE DEF N, M
    <3>1. N = Len(exts) /\ M = Len(x)
      BY DEF N, M
    <3> QED
      BY <2>1, <3>1, OneMore, ZenonT(30)
  <2> QED
    BY <2>1, <2>2 DEF x
<1> QED
  BY <1>1, <1>2 DEF Appending

\* the lengths in a ClientHello
LEMMA Lengths ==
  ASSUME NEW h, Good(h)
  PROVE  \E a \in Nat, e \in Nat :
            /\ a >= 47 /\ ExtLenAt(h) = a /\ h.extl = e /\ h.size = a + 2 + e /\ h.rec = a + e - 3
            /\ h.hs = a + e - 7
            /\ \A i \in 1 .. Len(h.exts) : h.exts[i] \in Ext /\ h.exts[i].len \in Nat /\ 4 + h.exts[i].len <= e
<1> DEFINE N == Len(h.exts)
           x == EndsOf(h.exts)
<1>1. /\ h.exts \in Seq(Ext) /\ h.sid \in Nat /\ h.cs \in Nat /\ h.cm \in Nat
      /\ h.size \in Int /\ h.rec \in Int /\ h.hs \in Int /\ h.extl \in Int
      /\ h.size = h.rec + 5 /\ h.rec = h.hs + 4 /\ h.hs + 9 = ExtLenAt(h) + 2 + h.extl
      /\ h.extl = SizeOfExts(h.exts)
  BY DEF Good, HelloRec, WellFormed
<1>2. PICK a \in Nat : ExtLenAt(h) = a /\ a >= 47
  <2>1. PICK sid \in Nat, cs \in Nat, cm \in Nat : h.sid = sid /\ h.cs = cs /\ h.cm = cm
    BY <1>1
  <2>2. ExtLenAt(h) = 5 + 38 + 1 + sid + 2 + cs + 1 + cm
    BY <2>1 DEF ExtLenAt
  <2> QED
    BY <2>2
<1>3. /\ N \in Nat /\ x[N] \in Nat /\ SizeOfExts(h.exts) = x[N]
      /\ \A i \in 0 .. N : x[i] \in Nat /\ x[i] <= x[N]
  BY <1>1, EndsIs, SMTT(30)
<1>8. \A i \in 1 .. N : h.exts[i] \in Ext /\ h.exts[i].len \in Nat
  BY <1>1, EndsIs
<1>4. \A i \in 1 .. N : x[i] = x[i - 1] + 4 + h.exts[i].len
  BY <1>1, EndsIs, ZenonT(30)
<1> HIDE DEF x
<1>5. PICK e \in Nat : h.extl = e /\ e = x[N]
  BY <1>1, <1>3
<1>6. h.size = a + 2 + e /\ h.rec = a + e - 3 /\ h.hs = a + e - 7
  <2>1. PICK sz \in Int, rec \in Int, hs \in Int : h.size = sz /\ h.rec = rec /\ h.hs = hs
    BY <1>1
  <2>2. sz = rec + 5 /\ rec = hs + 4 /\ hs + 9 = a + 2 + e
    BY <1>1, <1>2, <1>5, <2>1
  <2>3. sz = a + 2 + e /\ rec = a + e - 3 /\ hs = a + e - 7
    BY <1>2, <2>2
  <2> QED
    BY <2>1, <2>3
<1>7. ASSUME NEW i \in 1 .. N PROVE 4 + h.exts[i].len <= e
  <2>1. i - 1 \in 0 .. N /\ i \in 0 .. N
    BY <1>3
  <2>2. PICK l \in Nat, y \in Nat, z \in Nat : l = h.exts[i].len /\ y = x[i - 1] /\ z = x[i]
    BY <1>3, <1>8, <2>1
  <2>3. z = y + 4 + l
    BY <1>4, <2>2
  <2>4. z <= e
    BY <1>3, <1>5, <2>1, <2>2
  <2>5. 4 + l <= e
    BY <2>3, <2>4
  <2> QED
    BY <2>2, <2>5
<1> QED
  BY <1>2, <1>5, <1>6, <1>7, <1>8

\* a length that does not wrap
LEMMA NoWrap ==
  ASSUME NEW w \in Nat, w < 65536
  PROVE  w % 65536 = w /\ w % 16777216 = w
  OBVIOUS

\* a ClientHello as a record of its parts
Parts9(sid, cs, cm, exts, e, r, s, z) ==
    [k |-> "tls", sid |-> sid, cs |-> cs, cm |-> cm, exts |-> exts, extl |-> e, rec |-> r, hs |-> s, size |-> z]

Shape(h, exts, sid, cs, cm, a, e, r, s, z) ==
    /\ h = Parts9(sid, cs, cm, exts, e, r, s, z)
    /\ a >= 47 /\ ExtLenAt(h) = a /\ z = a + 2 + e /\ r = a + e - 3 /\ s = a + e - 7
    /\ \A i \in 1 .. Len(exts) : exts[i] \in Ext /\ exts[i].len \in Nat /\ 4 + exts[i].len <= e

LEMMA PartsOf ==
  ASSUME NEW h, Good(h)
  PROVE  \E exts \in Seq(Ext), sid \in Nat, cs \in Nat, cm \in Nat, a \in Nat, e \in Nat,
            r \in Int, s \in Int, z \in Int : Shape(h, exts, sid, cs, cm, a, e, r, s, z)
<1>1. PICK a \in Nat, e \in Nat :
        /\ a >= 47 /\ ExtLenAt(h) = a /\ h.extl = e /\ h.size = a + 2 + e /\ h.rec = a + e - 3
        /\ h.hs = a + e - 7
        /\ \A i \in 1 .. Len(h.exts) : h.exts[i] \in Ext /\ h.exts[i].len \in Nat /\ 4 + h.exts[i].len <= e
  BY Lengths
<1>2. PICK r \in Int, s \in Int, z \in Int : r = a + e - 3 /\ s = a + e - 7 /\ z = a + 2 + e
  OBVIOUS
<1>3. h \in HelloRec
  BY DEF Good
<1>4. PICK sid \in Nat, cs \in Nat, cm \in Nat, exts \in Seq(Ext) :
        h.sid = sid /\ h.cs = cs /\ h.cm = cm /\ h.exts = exts
  BY <1>3 DEF HelloRec
<1>5. h.extl = e /\ h.rec = r /\ h.hs = s /\ h.size = z
  BY <1>1, <1>2
<1>6. h = Parts9(sid, cs, cm, exts, e, r, s, z)
  BY <1>3, <1>4, <1>5, SMT DEF Parts9, HelloRec
<1>7. \A i \in 1 .. Len(exts) : exts[i] \in Ext /\ exts[i].len \in Nat /\ 4 + exts[i].len <= e
  BY <1>1, <1>4
<1>8. Shape(h, exts, sid, cs, cm, a, e, r, s, z)
  BY <1>1, <1>2, <1>6, <1>7, SMTT(30) DEF Shape
<1> QED
  BY <1>8, SMT

LEMMA NewExts ==
  ASSUME NEW sid, NEW cs, NEW cm, NEW exts, NEW e, NEW r, NEW s, NEW z, NEW new
  PROVE  [Parts9(sid, cs, cm, exts, e, r, s, z) EXCEPT !.exts = new] = Parts9(sid, cs, cm, new, e, r, s, z)
  BY SMT DEF Parts9

LEMMA FieldsAre ==
  ASSUME NEW sid, NEW cs, NEW cm, NEW exts, NEW e, NEW r, NEW s, NEW z, NEW h, h = Parts9(sid, cs, cm, exts, e, r, s, z)
  PROVE  h.rec = r /\ h.hs = s /\ h.extl = e /\ h.sid = sid /\ h.cs = cs /\ h.cm = cm /\ h.size = z /\ h.exts = exts
  BY SMT DEF Parts9

LEMMA GrownParts ==
  ASSUME NEW sid, NEW cs, NEW cm, NEW exts, NEW e, NEW r, NEW s, NEW z, NEW n,
         Grow16(e, n) = e + n, Grow16(r, n) = r + n, (s + n) % 16777216 = s + n,
         NEW h, h = Parts9(sid, cs, cm, exts, e, r, s, z), NEW new, NEW y
  PROVE  Grown(h, n, new, y) = Parts9(sid, cs, cm, new, e + n, r + n, s + n, y)
<1>1. /\ h.rec = r /\ h.hs = s /\ h.extl = e /\ h.sid = sid /\ h.cs = cs /\ h.cm = cm /\ h.size = z
      /\ h.k = "tls"
  BY SMT DEF Parts9
<1> QED
  BY <1>1 DEF Grown, Parts9

LEMMA ResizedParts ==
  ASSUME NEW sid, NEW cs, NEW cm, NEW exts, NEW e, NEW r, NEW s, NEW z, NEW n,
         NEW h, h = Parts9(sid, cs, cm, exts, e, r, s, z), NEW new
  PROVE  Resized(h, n, new) = Parts9(sid, cs, cm, new, e + n, r + n, s + n, z + n)
<1>1. /\ h.rec = r /\ h.hs = s /\ h.extl = e /\ h.sid = sid /\ h.cs = cs /\ h.cm = cm /\ h.size = z
  BY SMT DEF Parts9
<1> QED
  BY <1>1 DEF Resized, Parts9

ExtOf(type, len, list, slen, name) == [type |-> type, len |-> len, list |-> list, slen |-> slen, name |-> name]

LEMMA ExtParts ==
  ASSUME NEW x \in Ext
  PROVE  \E type \in Nat, len \in Nat, list \in Nat, slen \in Nat, name \in Seq(Nat) :
            x = ExtOf(type, len, list, slen, name) /\ x.type = type /\ x.len = len /\ x.slen = slen
            /\ x.list = list /\ x.name = name
  BY DEF Ext, ExtOf

LEMMA LongerIs ==
  ASSUME NEW type, NEW len, NEW list, NEW slen, NEW old, NEW x, x = ExtOf(type, len, list, slen, old),
         NEW name, NEW n, Grow16(len, n) = len + n, Grow16(list, n) = list + n, Grow16(slen, n) = slen + n
  PROVE  LongerSni(x, n, name) = ExtOf(type, len + n, list + n, slen + n, name)
<1>1. x.type = type /\ x.len = len /\ x.list = list /\ x.slen = slen
  BY SMT DEF ExtOf
<1> QED
  BY <1>1, SMT DEF LongerSni, ExtOf

\* far from where lengths would wrap
Short(h) == h.size <= 2000
Fits(h) == h.size <= 2255
ShortExt(e) == e.len <= 260
HasSni(h, i) == i \in 1 .. Len(h.exts) /\ h.exts[i].type = SNI /\ ShortExt(h.exts[i])
\* extensions beside the i-th are as they were
Beside(new, old, i) == \A j \in 1 .. Len(old) : j # i => new[j] = old[j]
SameTypes(g, h) == Len(g.exts) = Len(h.exts) /\ \A j \in 1 .. Len(h.exts) : g.exts[j].type = h.exts[j].type

LEMMA BesideNamed ==
  ASSUME NEW exts \in Seq(Ext), NEW new \in Seq(Ext), Len(new) = Len(exts), NEW i, Beside(new, exts, i),
         NamesItself(new[i]), \A j \in 1 .. Len(exts) : NamesItself(exts[j])
  PROVE  \A j \in DOMAIN new : NamesItself(new[j])
  BY DEF Beside

LEMMA SetSniGood ==
  ASSUME NEW h, Good(h), Short(h), NEW i, HasSni(h, i), NEW name \in Names
  PROVE  LET g == SetSni(h, i, name)
         IN  Good(g) /\ Fits(g) /\ SameTypes(g, h) /\ g.exts[i].name = name /\ g.sid = h.sid
<1>1. PICK exts \in Seq(Ext), sid \in Nat, cs \in Nat, cm \in Nat, a \in Nat, e \in Nat,
           r \in Int, s \in Int, z \in Int : Shape(h, exts, sid, cs, cm, a, e, r, s, z)
  BY PartsOf, SMTT(30)
<1>10. /\ h = Parts9(sid, cs, cm, exts, e, r, s, z)
       /\ \A j \in 1 .. Len(exts) : exts[j] \in Ext /\ exts[j].len \in Nat /\ 4 + exts[j].len <= e
  BY <1>1, SMT DEF Shape
<1>11. a >= 47 /\ z = a + 2 + e /\ r = a + e - 3 /\ s = a + e - 7
  BY <1>1, SMT DEF Shape
<1>21. h.exts = exts /\ h.size = z /\ h.sid = sid
  BY <1>10, FieldsAre, SMT
<1> DEFINE n == NameLen(name) - exts[i].slen
<1>0. SetSni(h, i, name) = Grown(h, n, [exts EXCEPT ![i] = LongerSni(exts[i], n, name)], z + n)
  <2> DEFINE old == h.exts
             y == h.size
  <2>1. SetSni(h, i, name) = Grown(h, NameLen(name) - old[i].slen,
            [old EXCEPT ![i] = LongerSni(old[i], NameLen(name) - old[i].slen, name)],
            y + (NameLen(name) - old[i].slen))
    BY SMT DEF SetSni
  <2>2. old = exts /\ y = z
    BY <1>21
  <2> HIDE DEF old, y
  <2> QED
    BY <2>1, <2>2, SMT
<1>2. z <= 2000
  BY <1>21, SMT DEF Short
<1>3. i \in 1 .. Len(exts) /\ exts[i].type = SNI /\ exts[i].len <= 260 /\ exts[i] \in Ext /\ 4 + exts[i].len <= e
  BY <1>10, <1>21, SMT DEF HasSni, ShortExt
<1>6. exts[i].len = exts[i].list + 2 /\ exts[i].list = exts[i].slen + 3
  <2>1. i \in DOMAIN h.exts
    BY <1>3, <1>21, SMT
  <2> QED
    BY <1>3, <1>21, <2>1, SMT DEF Good, WellFormed
<1>4. PICK type \in Nat, len \in Nat, list \in Nat, slen \in Nat, old \in Seq(Nat) :
        /\ exts[i] = ExtOf(type, len, list, slen, old) /\ exts[i].type = type /\ exts[i].len = len
        /\ exts[i].slen = slen /\ exts[i].list = list /\ exts[i].name = old
  BY <1>3, ExtParts, SMTT(30)
<1>5. type = SNI /\ len <= 260 /\ 4 + len <= e /\ len = list + 2 /\ list = slen + 3
  BY <1>3, <1>4, <1>6, SMT
<1>7. PICK m \in Nat : NameLen(name) = m /\ m <= 255 /\ name \in Seq(Nat)
  <2>1. name \in Seq(Nat) /\ name # <<>> /\ NameLen(name) <= 255
    BY ProtocolAssumption, SMT
  <2>2. PICK m \in Nat : NameLen(name) = m
    BY <2>1, NameIs, SMT
  <2>3. m <= 255
    BY <2>1, <2>2, SMT
  <2> QED
    BY <2>1, <2>2, <2>3, SMT
<1>8. n \in Int /\ n = m - slen
  <2>1. n = m - slen
    BY <1>4, <1>7, SMT
  <2> HIDE DEF n
  <2> QED
    BY <2>1, SMT
<1> HIDE DEF n
<1> DEFINE x == ExtOf(type, len + n, list + n, slen + n, name)
           new == [exts EXCEPT ![i] = x]
           g == Parts9(sid, cs, cm, new, e + n, r + n, s + n, z + n)
<1>9. /\ len + n = m + 5 /\ list + n = m + 3 /\ slen + n = m /\ z + n <= 2255
      /\ Grow16(e, n) = e + n /\ Grow16(r, n) = r + n /\ (s + n) % 16777216 = s + n
      /\ Grow16(len, n) = len + n /\ Grow16(list, n) = list + n /\ Grow16(slen, n) = slen + n
  <2>1. PICK k \in Int : k = n
    BY <1>8
  <2>2. /\ a >= 47 /\ z = a + 2 + e /\ r = a + e - 3 /\ s = a + e - 7 /\ z <= 2000
        /\ len <= 260 /\ 4 + len <= e /\ len = list + 2 /\ list = slen + 3 /\ k = m - slen /\ m <= 255
    BY <1>2, <1>5, <1>7, <1>8, <1>11, <2>1
  <2>3. len + k = m + 5 /\ list + k = m + 3 /\ slen + k = m /\ z + k <= 2255
    BY <2>2
  <2>4. Grow16(e, k) = e + k /\ (e + k) % 16777216 = e + k
    <3>1. PICK w \in Nat : w = e + k /\ w < 65536
      BY <2>2
    <3>2. w % 65536 = w /\ w % 16777216 = w
      BY <3>1, NoWrap
    <3> QED
      BY <3>1, <3>2 DEF Grow16
  <2>5. Grow16(r, k) = r + k /\ (r + k) % 16777216 = r + k
    <3>1. PICK w \in Nat : w = r + k /\ w < 65536
      BY <2>2
    <3>2. w % 65536 = w /\ w % 16777216 = w
      BY <3>1, NoWrap
    <3> QED
      BY <3>1, <3>2 DEF Grow16
  <2>6. Grow16(s, k) = s + k /\ (s + k) % 16777216 = s + k
    <3>1. PICK w \in Nat : w = s + k /\ w < 65536
      BY <2>2
    <3>2. w % 65536 = w /\ w % 16777216 = w
      BY <3>1, NoWrap
    <3> QED
      BY <3>1, <3>2 DEF Grow16
  <2>7. Grow16(len, k) = len + k /\ (len + k) % 16777216 = len + k
    <3>1. PICK w \in Nat : w = len + k /\ w < 65536
      BY <2>2
    <3>2. w % 65536 = w /\ w % 16777216 = w
      BY <3>1, NoWrap
    <3> QED
      BY <3>1, <3>2 DEF Grow16
  <2>8. Grow16(list, k) = list + k /\ (list + k) % 16777216 = list + k
    <3>1. PICK w \in Nat : w = list + k /\ w < 65536
      BY <2>2
    <3>2. w % 65536 = w /\ w % 16777216 = w
      BY <3>1, NoWrap
    <3> QED
      BY <3>1, <3>2 DEF Grow16
  <2>9. Grow16(slen, k) = slen + k /\ (slen + k) % 16777216 = slen + k
    <3>1. PICK w \in Nat : w = slen + k /\ w < 65536
      BY <2>2
    <3>2. w % 65536 = w /\ w % 16777216 = w
      BY <3>1, NoWrap
    <3> QED
      BY <3>1, <3>2 DEF Grow16
  <2> QED
    BY <2>1, <2>3, <2>4, <2>5, <2>6, <2>7, <2>8, <2>9, SMT
<1>12. SetSni(h, i, name) = g
  <2> DEFINE w == LongerSni(exts[i], n, name)
  <2>1. w = x
    BY <1>4, <1>9, LongerIs, SMT
  <2>2. SetSni(h, i, name) = Grown(h, n, [exts EXCEPT ![i] = w], z + n)
    BY <1>0, SMT
  <2> HIDE DEF w, x
  <2>3. SetSni(h, i, name) = Grown(h, n, [exts EXCEPT ![i] = x], z + n)
    BY <2>1, <2>2, SMT
  <2> DEFINE q == [exts EXCEPT ![i] = x]
  <2>4. SetSni(h, i, name) = Grown(h, n, q, z + n)
    BY <2>3, SMT
  <2> HIDE DEF q
  <2>5. Grown(h, n, q, z + n) = Parts9(sid, cs, cm, q, e + n, r + n, s + n, z + n)
    BY <1>10, <1>9, GrownParts, SMT
  <2>6. q = new
    BY SMT DEF q
  <2> HIDE DEF new
  <2> QED
    BY <2>4, <2>5, <2>6, SMT
<1>13. /\ x \in Ext /\ x.len = len + n /\ x.type = SNI /\ x.name = name /\ NamesItself(x)
  <2>1. len + n \in Nat /\ list + n \in Nat /\ slen + n \in Nat
    BY <1>9, SMTT(30)
  <2>2. len + n = list + n + 2 /\ list + n = slen + n + 3 /\ slen + n = NameLen(name)
    BY <1>7, <1>9, SMTT(30)
  <2> QED
    BY <1>5, <1>7, <2>1, <2>2, SMT DEF ExtOf, Ext, NamesItself
<1>14. /\ new \in Seq(Ext) /\ Len(new) = Len(exts) /\ new[i] = x
       /\ Beside(new, exts, i) /\ SizeOfExts(new) = SizeOfExts(exts) + n
  <2>1. x.len = exts[i].len + n
    BY <1>4, <1>13, SMT
  <2>2. new = [exts EXCEPT ![i] = x]
    BY SMT
  <2>3. exts \in Seq(Ext) /\ i \in 1 .. Len(exts) /\ x \in Ext /\ n \in Int
    BY <1>3, <1>8, <1>13, SMT
  <2> HIDE DEF x, new
  <2>4. new \in Seq(Ext) /\ Len(new) = Len(exts) /\ new[i] = x
    BY <2>2, <2>3, SMT
  <2>5. Beside(new, exts, i)
    BY <2>2, <2>3, SMT DEF Beside
  <2>6. SizeOfExts(new) = SizeOfExts(exts) + n
    <3>1. PICK p \in Nat : p = i
      BY <1>3
    <3>2. PICK k \in Int : k = n
      BY <1>8
    <3>3. PICK y \in Ext : y = x
      BY <1>13
    <3>4. Replacing(exts, p, y, k)
      BY <1>3, <2>1, <3>1, <3>2, <3>3 DEF Replacing
    <3>5. SizeOfExts(PutAt(exts, p, y)) = SizeOfExts(exts) + k
      BY <3>4, Replaced
    <3>6. new = PutAt(exts, p, y)
      BY <2>2, <3>1, <3>3, SMT DEF PutAt
    <3> QED
      BY <3>2, <3>5, <3>6
  <2> QED
    BY <2>4, <2>5, <2>6, SMT
<1>15. \A j \in DOMAIN new : NamesItself(new[j])
  <2>1. \A j \in 1 .. Len(exts) : NamesItself(exts[j])
    BY <1>21, SMT DEF Good, WellFormed, NamesItself
  <2> HIDE DEF x, new
  <2>2. NamesItself(new[i])
    BY <1>13, <1>14, Zenon
  <2> QED
    BY <1>14, <2>1, <2>2, BesideNamed
<1>16. Resized(h, n, new) = g
  <2> HIDE DEF new
  <2> QED
    BY <1>10, ResizedParts, SMT
<1>17. Good(g)
  <2> HIDE DEF new, g
  <2>1. Good(Resized(h, n, new))
    <3>1. n \in Int /\ new \in Seq(Ext)
      BY <1>8, <1>14, SMT
    <3>2. SizeOfExts(new) = SizeOfExts(h.exts) + n
      BY <1>14, <1>21, SMT
    <3> QED
      BY <1>15, <3>1, <3>2, ResizedGood, SMT
  <2> QED
    BY <1>16, <2>1, SMT
<1>18. g.size = z + n /\ g.exts = new /\ g.sid = sid
  BY SMT DEF Parts9
<1> HIDE DEF g, new, x
<1>19. SameTypes(g, h)
  BY <1>3, <1>13, <1>14, <1>18, <1>21, SMTT(30) DEF SameTypes, Beside
<1>20. Fits(g)
  BY <1>9, <1>18, SMT DEF Fits
<1> QED
  BY <1>12, <1>21, <1>13, <1>14, <1>17, <1>18, <1>19, <1>20, SMT

\* FAKE_TLS_MOD_RND_SNI: the new name is as long as the old one
LEMMA RndNameIs ==
  ASSUME NEW name, NEW n \in Nat, NameLen(name) = n
  PROVE  RndName(name) \in Seq(Nat) /\ NameLen(RndName(name)) = n
<1>1. CASE n >= 7
  <2>1. PICK m \in Nat : m = n - 4
    BY <1>1
  <2>2. RndName(name) = <<m, 3>>
    BY <1>1, <2>1 DEF RndName
  <2> DEFINE w == <<m, 3>>
  <2>3. w \in [1 .. 2 -> Int] /\ Len(w) = 2 /\ w[1] = m /\ w[2] = 3 /\ w \in Seq(Nat)
    OBVIOUS
  <2> HIDE DEF w
  <2>4. Sums(w)[0] = 0 /\ \A i \in 1 .. 2 : Sums(w)[i] = Sums(w)[i - 1] + w[i]
    BY <2>3, SumsIs
  <2>5. Sums(w)[1] = m /\ Sums(w)[2] = m + 3
    <3>1. Sums(w)[1] = Sums(w)[1 - 1] + w[1] /\ Sums(w)[2] = Sums(w)[2 - 1] + w[2] /\ 1 - 1 = 0 /\ 2 - 1 = 1
      BY <2>4
    <3> QED
      BY <2>3, <2>4, <3>1
  <2>6. NameLen(w) = m + 3 + 2 - 1
    BY <2>3, <2>5 DEF NameLen, Total
  <2> QED
    BY <2>1, <2>2, <2>3, <2>6 DEF w
<1>2. CASE ~(n >= 7)
  <2>1. RndName(name) = <<n>>
    BY <1>2 DEF RndName
  <2> DEFINE w == <<n>>
  <2>3. w \in [1 .. 1 -> Int] /\ Len(w) = 1 /\ w[1] = n /\ w \in Seq(Nat)
    OBVIOUS
  <2> HIDE DEF w
  <2>4. Sums(w)[0] = 0 /\ \A i \in 1 .. 1 : Sums(w)[i] = Sums(w)[i - 1] + w[i]
    BY <2>3, SumsIs
  <2>5. Sums(w)[1] = n
    <3>1. Sums(w)[1] = Sums(w)[1 - 1] + w[1] /\ 1 - 1 = 0
      BY <2>4
    <3> QED
      BY <2>3, <2>4, <3>1
  <2>6. NameLen(w) = n + 1 - 1
    BY <2>3, <2>5 DEF NameLen, Total
  <2> QED
    BY <2>1, <2>3, <2>6 DEF w
<1> QED
  BY <1>1, <1>2

LEMMA NewName ==
  ASSUME NEW type, NEW len, NEW list, NEW slen, NEW old, NEW name
  PROVE  [ExtOf(type, len, list, slen, old) EXCEPT !.name = name] = ExtOf(type, len, list, slen, name)
  BY SMT DEF ExtOf

LEMMA PutAtIs ==
  ASSUME NEW exts \in Seq(Ext), NEW i, i \in 1 .. Len(exts), NEW x \in Ext
  PROVE  LET new == PutAt(exts, i, x)
         IN  new \in Seq(Ext) /\ Len(new) = Len(exts) /\ new[i] = x /\ Beside(new, exts, i)
  BY SMT DEF PutAt, Beside

LEMMA RndSniGood ==
  ASSUME NEW h, Good(h), NEW i, i \in 1 .. Len(h.exts), h.exts[i].type = SNI
  PROVE  LET g == RndSni(h, i)
         IN  Good(g) /\ SameTypes(g, h) /\ g.size = h.size /\ g.sid = h.sid
<1>1. PICK exts \in Seq(Ext), sid \in Nat, cs \in Nat, cm \in Nat, a \in Nat, e \in Nat,
           r \in Int, s \in Int, z \in Int : Shape(h, exts, sid, cs, cm, a, e, r, s, z)
  BY PartsOf, SMTT(30)
<1>2. h = Parts9(sid, cs, cm, exts, e, r, s, z)
  BY <1>1, SMT DEF Shape
<1>3. h.exts = exts /\ h.size = z /\ h.sid = sid
  BY <1>2, FieldsAre, SMT
<1>4. i \in 1 .. Len(exts) /\ exts[i] \in Ext /\ exts[i].type = SNI
  BY <1>3, SMT
<1>5. NamesItself(exts[i]) /\ \A j \in 1 .. Len(exts) : NamesItself(exts[j])
  BY <1>3, <1>4, SMT DEF Good, WellFormed, NamesItself
<1>6. PICK type \in Nat, len \in Nat, list \in Nat, slen \in Nat, old \in Seq(Nat) :
        /\ exts[i] = ExtOf(type, len, list, slen, old) /\ exts[i].type = type /\ exts[i].len = len
        /\ exts[i].slen = slen /\ exts[i].list = list /\ exts[i].name = old
  <2>1. PICK y \in Ext : y = exts[i]
    BY <1>4, SMT
  <2>2. PICK type \in Nat, len \in Nat, list \in Nat, slen \in Nat, old \in Seq(Nat) :
          y = ExtOf(type, len, list, slen, old) /\ y.type = type /\ y.len = len
          /\ y.slen = slen /\ y.list = list /\ y.name = old
    BY ExtParts
  <2> QED
    BY <2>1, <2>2
<1>7. RndName(old) \in Seq(Nat) /\ NameLen(RndName(old)) = slen
  <2>1. NameLen(old) = slen
    BY <1>4, <1>5, <1>6, SMT DEF NamesItself
  <2> QED
    BY <2>1, RndNameIs, SMT
<1> DEFINE nm == RndName(old)
           x == ExtOf(type, len, list, slen, nm)
           new == PutAt(exts, i, x)
<1>8. [exts[i] EXCEPT !.name = RndName(exts[i].name)] = x
  <2> HIDE DEF nm
  <2>1. [ExtOf(type, len, list, slen, old) EXCEPT !.name = nm] = x
    BY NewName, SMTT(30)
  <2>2. RndName(exts[i].name) = nm
    BY <1>6, SMT DEF nm
  <2> HIDE DEF x
  <2> QED
    BY <1>6, <2>1, <2>2, SMT
<1>9. x \in Ext /\ x.len = len /\ x.type = SNI /\ NamesItself(x)
  <2> HIDE DEF nm
  <2>1. nm \in Seq(Nat) /\ NameLen(nm) = slen
    BY <1>7, SMT DEF nm
  <2>2. len = list + 2 /\ list = slen + 3
    BY <1>4, <1>5, <1>6, SMT DEF NamesItself
  <2> QED
    BY <1>4, <1>6, <2>1, <2>2, SMT DEF ExtOf, Ext, NamesItself
<1> HIDE DEF x
<1>10. new \in Seq(Ext) /\ Len(new) = Len(exts) /\ new[i] = x /\ Beside(new, exts, i)
  BY <1>4, <1>9, PutAtIs
<1>11. SizeOfExts(new) = SizeOfExts(exts) + 0
  <2>1. PICK p \in Nat : p = i
    BY <1>4, SMT
  <2>2. PICK y \in Ext : y = x
    BY <1>9, SMT
  <2>3. Replacing(exts, p, y, 0)
    BY <1>4, <1>6, <1>9, <2>1, <2>2, SMT DEF Replacing
  <2>4. SizeOfExts(PutAt(exts, p, y)) = SizeOfExts(exts) + 0
    <3>1. PICK o \in Int : o = 0
      OBVIOUS
    <3>2. Replacing(exts, p, y, o)
      BY <2>3, <3>1, SMT
    <3>3. SizeOfExts(PutAt(exts, p, y)) = SizeOfExts(exts) + o
      BY <3>2, Replaced
    <3> QED
      BY <3>1, <3>3, SMT
  <2> QED
    BY <2>1, <2>2, <2>4, SMT
<1>12. RndSni(h, i) = Parts9(sid, cs, cm, new, e, r, s, z)
  <2> DEFINE ex == h.exts
             sni == [ex[i] EXCEPT !.name = RndName(ex[i].name)]
  <2>1. RndSni(h, i) = [h EXCEPT !.exts = [ex EXCEPT ![i] = sni]]
    BY SMT DEF RndSni
  <2>2. ex = exts
    BY <1>3, SMT
  <2>3. sni = x
    BY <1>3, <1>8, SMTT(30)
  <2> HIDE DEF ex, sni
  <2>4. RndSni(h, i) = [h EXCEPT !.exts = [exts EXCEPT ![i] = x]]
    BY <2>1, <2>2, <2>3, SMT
  <2>5. RndSni(h, i) = [h EXCEPT !.exts = new]
    BY <2>4, SMT DEF PutAt
  <2> HIDE DEF new
  <2>6. [Parts9(sid, cs, cm, exts, e, r, s, z) EXCEPT !.exts = new] = Parts9(sid, cs, cm, new, e, r, s, z)
    BY NewExts, SMTT(30)
  <2> QED
    BY <1>2, <2>5, <2>6, SMT
<1>13. Resized(h, 0, new) = Parts9(sid, cs, cm, new, e, r, s, z)
  <2> HIDE DEF new
  <2>1. Resized(h, 0, new) = Parts9(sid, cs, cm, new, e + 0, r + 0, s + 0, z + 0)
    BY <1>2, ResizedParts, SMT
  <2>2. e + 0 = e /\ r + 0 = r /\ s + 0 = s /\ z + 0 = z
    OBVIOUS
  <2> QED
    BY <2>1, <2>2, SMT
<1>14. Good(Resized(h, 0, new))
  <2>1. SizeOfExts(new) = SizeOfExts(h.exts) + 0
    BY <1>3, <1>11, SMT
  <2> HIDE DEF new
  <2>2. \A j \in DOMAIN new : NamesItself(new[j])
    <3>1. NamesItself(new[i])
      BY <1>9, <1>10, Zenon
    <3> QED
      BY <1>5, <1>10, <3>1, BesideNamed
  <2>3. PICK o \in Int : o = 0
    OBVIOUS
  <2>4. SizeOfExts(new) = SizeOfExts(h.exts) + o
    BY <2>1, <2>3, SMT
  <2>5. Good(Resized(h, o, new))
    BY <1>10, <2>2, <2>4, ResizedGood, SMT
  <2> QED
    BY <2>3, <2>5, SMT
<1> DEFINE g == RndSni(h, i)
<1>15. g.exts = new /\ g.size = z /\ g.sid = sid
  BY <1>12, FieldsAre, SMT
<1> HIDE DEF g, new
<1>16. SameTypes(g, h)
  BY <1>3, <1>4, <1>9, <1>10, <1>15, SMT DEF SameTypes, Beside
<1> QED
  BY <1>3, <1>12, <1>13, <1>14, <1>15, <1>16, SMT DEF g

\* the first extensions are those of another list
Prefix(new, old) == \A j \in 1 .. Len(old) : new[j] = old[j]

LEMMA AddPaddingGood ==
  ASSUME NEW h, Good(h), Fits(h)
  PROVE  LET g == AddPadding(h)
         IN  /\ Good(g) /\ Len(g.exts) = Len(h.exts) + 1 /\ g.exts[Len(g.exts)].type = PADDING
             /\ Prefix(g.exts, h.exts)
<1>1. PICK exts \in Seq(Ext), sid \in Nat, cs \in Nat, cm \in Nat, a \in Nat, e \in Nat,
           r \in Int, s \in Int, z \in Int : Shape(h, exts, sid, cs, cm, a, e, r, s, z)
  BY PartsOf, SMTT(30)
<1>2. h = Parts9(sid, cs, cm, exts, e, r, s, z)
  BY <1>1, SMT DEF Shape
<1>3. h.exts = exts /\ h.size = z /\ h.sid = sid
  BY <1>2, FieldsAre, SMT
<1>4. a >= 47 /\ z = a + 2 + e /\ r = a + e - 3 /\ s = a + e - 7 /\ z <= 2255
  BY <1>1, <1>3, SMT DEF Shape, Fits
<1>5. Grow16(e, 4) = e + 4 /\ Grow16(r, 4) = r + 4 /\ (s + 4) % 16777216 = s + 4
  <2>1. PICK u \in Nat, v \in Nat, w \in Nat :
          u = e + 4 /\ v = r + 4 /\ w = s + 4 /\ u < 65536 /\ v < 65536 /\ w < 65536
    BY <1>4
  <2>2. u % 65536 = u /\ v % 65536 = v /\ w % 16777216 = w
    BY <2>1, NoWrap
  <2> QED
    BY <2>1, <2>2 DEF Grow16
<1> DEFINE new == Append(exts, PadExt)
<1>6. PadExt \in Ext /\ PadExt.type = PADDING /\ PadExt.len = 0 /\ NamesItself(PadExt)
  BY DEF PadExt, Ext, PADDING, SNI, NamesItself
<1>7. /\ new \in Seq(Ext) /\ Len(new) = Len(exts) + 1 /\ new[Len(exts) + 1] = PadExt
      /\ Prefix(new, exts)
      /\ SizeOfExts(new) = SizeOfExts(exts) + 4 + PadExt.len
  <2>1. Appending(new, exts, PadExt)
    BY <1>6, Appended
  <2> QED
    BY <2>1, SMT DEF Appending, Prefix
<1>8. AddPadding(h) = Grown(h, 4, new, z + 4)
  BY <1>3, SMT DEF AddPadding
<1> HIDE DEF new
<1> DEFINE g == Parts9(sid, cs, cm, new, e + 4, r + 4, s + 4, z + 4)
<1>9. AddPadding(h) = g
  <2> DEFINE o == 4
  <2>2. Grow16(e, o) = e + o /\ Grow16(r, o) = r + o /\ (s + o) % 16777216 = s + o
    BY <1>5, SMT
  <2>3. AddPadding(h) = Grown(h, o, new, z + o)
    BY <1>8, SMT
  <2>5. o = 4
    OBVIOUS
  <2> HIDE DEF o, g
  <2>4. Grown(h, o, new, z + o) = Parts9(sid, cs, cm, new, e + o, r + o, s + o, z + o)
    BY <1>2, <2>2, GrownParts, SMT
  <2> QED
    BY <2>3, <2>4, <2>5, SMT DEF g
<1>10. Good(g)
  <2>1. SizeOfExts(new) = SizeOfExts(h.exts) + 4
    <3>1. PICK y \in Int : SizeOfExts(exts) = y
      BY EndsIs
    <3>2. SizeOfExts(new) = y + 4 + 0
      BY <1>6, <1>7, <3>1, SMT
    <3> QED
      BY <1>3, <3>1, <3>2, SMT
  <2>2. \A j \in 1 .. Len(exts) : NamesItself(exts[j])
    BY <1>3, SMT DEF Good, WellFormed, NamesItself
  <2>3. \A j \in DOMAIN new : NamesItself(new[j])
    BY <1>6, <1>7, <2>2, SMT DEF Prefix
  <2>4. PICK o \in Int : o = 4
    OBVIOUS
  <2>5. SizeOfExts(new) = SizeOfExts(h.exts) + o
    BY <2>1, <2>4, SMT
  <2>6. Good(Resized(h, o, new))
    BY <1>7, <2>3, <2>5, ResizedGood, SMT
  <2>7. Resized(h, o, new) = Parts9(sid, cs, cm, new, e + o, r + o, s + o, z + o)
    BY <1>2, ResizedParts, SMT
  <2> QED
    BY <2>4, <2>6, <2>7, SMT
<1>11. g.exts = new
  BY SMT DEF Parts9
<1> HIDE DEF g
<1> QED
  BY <1>3, <1>6, <1>7, <1>9, <1>10, <1>11, SMT

LEMMA LongerPad ==
  ASSUME NEW type, NEW len, NEW list, NEW slen, NEW name, NEW n
  PROVE  [ExtOf(type, len, list, slen, name) EXCEPT !.len = @ + n] = ExtOf(type, len + n, list, slen, name)
  BY SMT DEF ExtOf

LEMMA NewSize ==
  ASSUME NEW sid, NEW cs, NEW cm, NEW exts, NEW e, NEW r, NEW s, NEW z, NEW n
  PROVE  [Parts9(sid, cs, cm, exts, e, r, s, z) EXCEPT !.size = @ + n] = Parts9(sid, cs, cm, exts, e, r, s, z + n)
  BY SMT DEF Parts9

\* a hello with the n bytes that are sent behind it
WithPayload(g, n) == [g EXCEPT !.size = @ + n]

LEMMA EncapGood ==
  ASSUME NEW h, Good(h), NEW i, i \in 1 .. Len(h.exts), h.exts[i].type = PADDING,
         NEW n \in Nat, ~TooLong(h, i, n)
  PROVE  LET g == Encap(h, i, n)
         IN  /\ Good(WithPayload(g, n)) /\ Len(g.exts) = Len(h.exts) /\ g.exts[i].type = PADDING
             /\ g.exts[i].len >= n /\ Beside(g.exts, h.exts, i) /\ g.k = "tls" /\ g.exts \in Seq(Ext)
<1>1. PICK exts \in Seq(Ext), sid \in Nat, cs \in Nat, cm \in Nat, a \in Nat, e \in Nat,
           r \in Int, s \in Int, z \in Int : Shape(h, exts, sid, cs, cm, a, e, r, s, z)
  BY PartsOf, SMTT(30)
<1>2. h = Parts9(sid, cs, cm, exts, e, r, s, z)
  BY <1>1, SMT DEF Shape
<1>3. h.exts = exts /\ h.size = z /\ h.sid = sid /\ h.extl = e /\ h.rec = r /\ h.hs = s
  BY <1>2, FieldsAre, SMT
<1>4. a >= 47 /\ z = a + 2 + e /\ r = a + e - 3 /\ s = a + e - 7
  BY <1>1, SMT DEF Shape
<1>5. i \in 1 .. Len(exts) /\ exts[i] \in Ext /\ exts[i].type = PADDING
  BY <1>3, SMT
<1>6. r + n <= 65535 /\ e + n <= 65535
  BY <1>3, SMT DEF TooLong
<1>7. PICK type \in Nat, len \in Nat, list \in Nat, slen \in Nat, name \in Seq(Nat) :
        exts[i] = ExtOf(type, len, list, slen, name) /\ exts[i].type = type /\ exts[i].len = len
  <2>1. PICK y \in Ext : y = exts[i]
    BY <1>5, SMT
  <2>2. PICK type \in Nat, len \in Nat, list \in Nat, slen \in Nat, name \in Seq(Nat) :
          y = ExtOf(type, len, list, slen, name) /\ y.type = type /\ y.len = len
    BY ExtParts
  <2> QED
    BY <2>1, <2>2
<1> DEFINE o == n
<1>8. Grow16(e, o) = e + o /\ Grow16(r, o) = r + o /\ (s + o) % 16777216 = s + o
  <2>1. PICK u \in Nat, v \in Nat, w \in Nat :
          u = e + n /\ v = r + n /\ w = s + n /\ u < 65536 /\ v < 65536 /\ w < 65536
    BY <1>4, <1>6
  <2>2. u % 65536 = u /\ v % 65536 = v /\ w % 16777216 = w
    BY <2>1, NoWrap
  <2> QED
    BY <2>1, <2>2 DEF Grow16
<1>9. o = n /\ o \in Nat
  OBVIOUS
<1> DEFINE x == ExtOf(type, len + o, list, slen, name)
           new == PutAt(exts, i, x)
           g == Parts9(sid, cs, cm, new, e + o, r + o, s + o, z)
<1>10. x \in Ext /\ x.len = len + n /\ x.type = PADDING /\ NamesItself(x)
  <2>1. PICK m \in Nat : m = len + n
    OBVIOUS
  <2>2. type = PADDING
    BY <1>5, <1>7, SMT
  <2> DEFINE y == ExtOf(type, m, list, slen, name)
  <2>3. y \in Ext /\ y.len = m /\ y.type = type
    BY SMT DEF ExtOf, Ext
  <2>4. x = y
    BY <2>1, SMT
  <2> HIDE DEF x, y
  <2>5. x.type # SNI
    BY <2>2, <2>3, <2>4, SMT DEF PADDING, SNI
  <2> QED
    BY <2>1, <2>2, <2>3, <2>4, <2>5, SMT DEF NamesItself
<1>11. Encap(h, i, n) = Grown(h, o, new, z)
  <2> DEFINE ex == h.exts
             y == h.size
             pad == [ex[i] EXCEPT !.len = @ + n]
  <2>1. Encap(h, i, n) = Grown(h, n, [ex EXCEPT ![i] = pad], y)
    BY SMT DEF Encap
  <2>2. ex = exts /\ y = z
    BY <1>3, SMT
  <2>3. pad = x
    <3>1. [ExtOf(type, len, list, slen, name) EXCEPT !.len = @ + n] = x
      BY LongerPad, SMTT(30)
    <3>2. ex[i] = ExtOf(type, len, list, slen, name)
      BY <1>7, <2>2, SMT
    <3> HIDE DEF x, ex
    <3> QED
      BY <3>1, <3>2, SMT
  <2> HIDE DEF ex, y, pad, x
  <2> QED
    BY <2>1, <2>2, <2>3, SMT DEF PutAt
<1> HIDE DEF o, x
<1>12. new \in Seq(Ext) /\ Len(new) = Len(exts) /\ new[i] = x /\ Beside(new, exts, i)
  BY <1>5, <1>10, PutAtIs
<1>13. SizeOfExts(new) = SizeOfExts(exts) + n
  <2>1. PICK p \in Nat : p = i
    BY <1>5, SMT
  <2>2. PICK y \in Ext : y = x
    BY <1>10, SMT
  <2>3. PICK k \in Int : k = n
    OBVIOUS
  <2>4. Replacing(exts, p, y, k)
    BY <1>5, <1>7, <1>10, <2>1, <2>2, <2>3, SMT DEF Replacing
  <2>5. SizeOfExts(PutAt(exts, p, y)) = SizeOfExts(exts) + k
    BY <2>4, Replaced
  <2> QED
    BY <2>1, <2>2, <2>3, <2>5, SMT
<1> HIDE DEF new
<1>14. Grown(h, o, new, z) = Parts9(sid, cs, cm, new, e + o, r + o, s + o, z)
  BY <1>2, <1>8, GrownParts, SMT
<1>15. Encap(h, i, n) = g
  BY <1>11, <1>14, SMT
<1>16. Good(WithPayload(g, n))
  <2>1. \A j \in DOMAIN new : NamesItself(new[j])
    <3>1. \A j \in 1 .. Len(exts) : NamesItself(exts[j])
      BY <1>3, SMT DEF Good, WellFormed, NamesItself
    <3>2. NamesItself(new[i])
      BY <1>10, <1>12, Zenon
    <3> QED
      BY <1>12, <3>1, <3>2, BesideNamed
  <2>2. SizeOfExts(new) = SizeOfExts(h.exts) + n
    BY <1>3, <1>13, SMT
  <2>3. PICK k \in Int : k = n
    OBVIOUS
  <2>4. Good(Resized(h, k, new))
    <3>1. SizeOfExts(new) = SizeOfExts(h.exts) + k
      BY <2>2, <2>3, SMT
    <3> QED
      BY <1>12, <2>1, <3>1, ResizedGood, SMT
  <2>5. Resized(h, o, new) = Parts9(sid, cs, cm, new, e + o, r + o, s + o, z + o)
    BY <1>2, ResizedParts, SMT
  <2>6. WithPayload(g, o) = Parts9(sid, cs, cm, new, e + o, r + o, s + o, z + o)
    BY NewSize, SMTT(30) DEF WithPayload
  <2> HIDE DEF g
  <2> QED
    BY <1>9, <2>3, <2>4, <2>5, <2>6, SMT
<1>17. g.exts = new /\ g.k = "tls"
  BY SMT DEF Parts9
<1> HIDE DEF g
<1>18. x.len >= n
  BY <1>10, SMT
<1> QED
  BY <1>3, <1>5, <1>10, <1>12, <1>15, <1>16, <1>17, <1>18, SMT

\* padding that ends where the hello ends is the last extension
LEMMA PadIsLast ==
  ASSUME NEW h, Good(h), NEW f, f = TLSFindExt(h, h.size, PADDING, FALSE), f.i # 0
  PROVE  /\ f.i \in 1 .. Len(h.exts) /\ h.exts[f.i].type = PADDING
         /\ f.at + h.exts[f.i].len = h.size => f.i = Len(h.exts)
<1> DEFINE N == Len(h.exts)
           x == EndsOf(h.exts)
<1>1. PICK c \in 1 .. N : FoundAt(h, PADDING, f, c)
  BY FindWhole DEF Lacks
<1>2. PICK a \in Nat, e \in Nat : ExtLenAt(h) = a /\ h.extl = e /\ h.size = a + 2 + e
  BY Lengths
<1>3. h.exts \in Seq(Ext) /\ h.extl = SizeOfExts(h.exts)
  BY DEF Good, HelloRec, WellFormed
<1>4. /\ N \in Nat /\ \A i \in 1 .. N : h.exts[i].len \in Nat
      /\ \A i \in 1 .. N : x[i] = x[i - 1] + 4 + h.exts[i].len
      /\ \A i, j \in 0 .. N : i < j => x[i] + 4 <= x[j]
      /\ \A i \in 0 .. N : x[i] \in Nat
      /\ SizeOfExts(h.exts) = x[N]
  BY <1>3, EndsIs
<1> HIDE DEF x
<1>5. c \in Nat /\ f.i = c /\ h.exts[c].type = PADDING
  <2>1. c \in Nat
    BY <1>4
  <2>2. f.i = c /\ h.exts[c].type = PADDING
    BY <1>1, Zenon DEF FoundAt
  <2> QED
    BY <2>1, <2>2
<1>6. c \in 1 .. N /\ c \in 0 .. N /\ c - 1 \in 0 .. N /\ N \in 0 .. N
  BY <1>1, <1>4
<1>7. f.at = a + 2 + x[c - 1] + 4
  BY <1>1, <1>2 DEF FoundAt, x
<1>8. ASSUME f.at + h.exts[c].len = h.size PROVE c = N
  <2>1. PICK l \in Nat, y \in Nat, z \in Nat, w \in Nat : l = h.exts[c].len /\ y = x[c - 1] /\ z = x[c] /\ w = x[N]
    BY <1>4, <1>6
  <2>2. z = y + 4 + l /\ w = e
    BY <1>2, <1>3, <1>4, <1>6, <2>1
  <2>3. a + 2 + y + 4 + l = a + 2 + e
    BY <1>2, <1>7, <1>8, <2>1
  <2>4. z = w
    BY <2>2, <2>3
  <2>5. ~(c < N)
    <3>1. c < N => z + 4 <= w
      BY <1>4, <1>6, <2>1
    <3> QED
      BY <2>4, <3>1
  <2> QED
    BY <1>4, <1>6, <2>5
<1> QED
  BY <1>1, <1>5, <1>8

\* a hello has one name
Named(h, i, nm) ==
    /\ h.k = "tls" /\ i \in 1 .. Len(h.exts) /\ h.exts[i].type = SNI /\ h.exts[i].name = nm
    /\ \A j \in 1 .. Len(h.exts) : h.exts[j].type = SNI => j = i

LEMMA NamedHost ==
  ASSUME NEW h, NEW exts \in Seq(Ext), h.exts = exts, NEW i, NEW nm, Named(h, i, nm)
  PROVE  HostOf(h) = nm
<1>1. /\ h.k = "tls" /\ i \in 1 .. Len(exts) /\ exts[i].type = SNI /\ exts[i].name = nm
      /\ \A j \in 1 .. Len(exts) : exts[j].type = SNI => j = i
  BY DEF Named
<1> DEFINE S == {exts[j] : j \in DOMAIN exts}
           c == CHOOSE e \in S : e.type = SNI
<1>2. \A e \in S : e.type = SNI => e = exts[i]
  BY <1>1
<1>3. exts[i] \in S
  BY <1>1
<1> HIDE DEF S
<1>4. \E e \in S : e.type = SNI
  BY <1>1, <1>3
<1>5. c \in S /\ c.type = SNI
  BY <1>4
<1>6. c = exts[i]
  BY <1>2, <1>5
<1>7. HostOf(h) = c.name
  BY <1>1 DEF HostOf, S
<1> QED
  BY <1>1, <1>6, <1>7

Outcome(ok, h) == [ok |-> ok, h |-> h]

LEMMA OutcomeIs ==
  ASSUME NEW ok, NEW h
  PROVE  Outcome(ok, h).ok = ok /\ Outcome(ok, h).h = h
  BY SMT DEF Outcome

LEMMA Refused ==
  ASSUME NEW r, NEW h, r = Outcome(FALSE, h)
  PROVE  ~r.ok /\ r.h = h
<1>1. r.ok = FALSE /\ r.h = h
  BY OutcomeIs
<1> QED
  BY <1>1

LEMMA OnlyIf ==
  ASSUME NEW r, NEW h, NEW ok, NEW x, r = Outcome(ok /\ x, h)
  PROVE  (r.ok => x) /\ r.h = h
<1>1. r.ok = (ok /\ x) /\ r.h = h
  BY OutcomeIs
<1> QED
  BY <1>1

EndsPadded(g, n) == g.exts[Len(g.exts)].type = PADDING /\ g.exts[Len(g.exts)].len >= n
KeepsName(g, h) == \A i, nm : Named(h, i, nm) => Named(g, i, nm)
Goods(g, n) == g.exts \in Seq(Ext) /\ (Good(g) \/ Good(WithPayload(g, n)))
PaddedBy(g, n) == Good(WithPayload(g, n)) /\ EndsPadded(g, n)

LEMMA GoodIsGoods ==
  ASSUME NEW h, Good(h), NEW n
  PROVE  Goods(h, n) /\ h.k = "tls"
  BY SMT DEF Good, Goods, HelloRec

LEMMA AddPaddingNamed ==
  ASSUME NEW h, Good(h), Fits(h), NEW g, g = AddPadding(h)
  PROVE  Good(g) /\ KeepsName(g, h) /\ Len(g.exts) \in 1 .. Len(g.exts) /\ g.exts[Len(g.exts)].type = PADDING
<1>1. /\ Good(g) /\ Len(g.exts) = Len(h.exts) + 1 /\ g.exts[Len(g.exts)].type = PADDING
      /\ Prefix(g.exts, h.exts)
  BY AddPaddingGood
<1>2. g.exts \in Seq(Ext) /\ h.exts \in Seq(Ext) /\ g.k = "tls"
  BY <1>1, GoodIsGoods, SMT DEF Goods, Good, HelloRec
<1>3. PICK N \in Nat : Len(h.exts) = N /\ Len(g.exts) = N + 1
  BY <1>1, <1>2
<1>4. \A j \in 1 .. N + 1 : j \in 1 .. N \/ j = N + 1
  OBVIOUS
<1>5. ASSUME NEW i, NEW nm, Named(h, i, nm) PROVE Named(g, i, nm)
  <2>1. /\ i \in 1 .. N /\ h.exts[i].type = SNI /\ h.exts[i].name = nm
        /\ \A j \in 1 .. N : h.exts[j].type = SNI => j = i
    BY <1>3, <1>5, SMT DEF Named
  <2>2. \A j \in 1 .. N : g.exts[j] = h.exts[j]
    BY <1>1, <1>3, SMT DEF Prefix
  <2>3. g.exts[N + 1].type # SNI
    BY <1>1, <1>3, SMT DEF PADDING, SNI
  <2>4. \A j \in 1 .. N + 1 : g.exts[j].type = SNI => j = i
    BY <1>4, <2>1, <2>2, <2>3, SMT
  <2>5. i \in 1 .. N + 1
    BY <2>1, SMT
  <2> QED
    BY <1>2, <1>3, <2>1, <2>2, <2>4, <2>5, SMT DEF Named
<1> QED
  BY <1>1, <1>3, <1>5, SMT DEF KeepsName

LEMMA EncapNamed ==
  ASSUME NEW h, Good(h), NEW i, i \in 1 .. Len(h.exts), h.exts[i].type = PADDING,
         NEW n \in Nat, ~TooLong(h, i, n), NEW g, g = Encap(h, i, n)
  PROVE  Goods(g, n) /\ KeepsName(g, h) /\ (i = Len(h.exts) => PaddedBy(g, n))
<1>1. /\ Good(WithPayload(g, n)) /\ Len(g.exts) = Len(h.exts) /\ g.exts[i].type = PADDING
      /\ g.exts[i].len >= n /\ Beside(g.exts, h.exts, i) /\ g.k = "tls" /\ g.exts \in Seq(Ext)
  BY EncapGood
<1>2. ASSUME NEW k, NEW nm, Named(h, k, nm) PROVE Named(g, k, nm)
  <2>1. PICK N \in Nat : Len(h.exts) = N /\ Len(g.exts) = N
    BY <1>1
  <2>2. /\ k \in 1 .. N /\ h.exts[k].type = SNI /\ h.exts[k].name = nm
        /\ \A j \in 1 .. N : h.exts[j].type = SNI => j = k
    BY <1>2, <2>1, SMT DEF Named
  <2>3. \A j \in 1 .. N : j # i => g.exts[j] = h.exts[j]
    BY <1>1, <2>1, SMT DEF Beside
  <2>4. k # i /\ g.exts[i].type # SNI
    BY <1>1, <2>2, SMT DEF PADDING, SNI
  <2> QED
    BY <1>1, <2>1, <2>2, <2>3, <2>4, SMT DEF Named
<1>3. i = Len(h.exts) => PaddedBy(g, n)
  BY <1>1, SMT DEF PaddedBy, EndsPadded
<1> QED
  BY <1>1, <1>2, <1>3, SMT DEF KeepsName, Goods

PadDone(g, c, n, r) ==
    \/ TooLong(g, c, n) /\ r = Outcome(FALSE, g)
    \/ ~TooLong(g, c, n) /\ r = Outcome(TRUE, Encap(g, c, n))
PadCases(h, f, n, r) ==
    \/ f.i # 0 /\ f.at + h.exts[f.i].len # h.size /\ r = Outcome(FALSE, h)
    \/ f.i # 0 /\ f.at + h.exts[f.i].len = h.size /\ PadDone(h, f.i, n, r)
    \/ f.i = 0 /\ PadDone(AddPadding(h), Len(AddPadding(h).exts), n, r)

LEMMA PadSplit ==
  ASSUME NEW h, NEW n
  PROVE  PadCases(h, TLSFindExt(h, h.size, PADDING, FALSE), n, PadEncap(h, n))
<1> DEFINE f == TLSFindExt(h, h.size, PADDING, FALSE)
           h1 == IF f.i # 0 THEN h ELSE AddPadding(h)
           c == IF f.i # 0 THEN f.i ELSE Len(h1.exts)
           end == f.at + h.exts[f.i].len = h.size
           r == PadEncap(h, n)
<1>1. r = IF f.i # 0 /\ ~end THEN Outcome(FALSE, h)
          ELSE IF TooLong(h1, c, n) THEN Outcome(FALSE, h1)
          ELSE Outcome(TRUE, Encap(h1, c, n))
  BY SMT DEF PadEncap, Outcome
<1>2. h1 = (IF f.i # 0 THEN h ELSE AddPadding(h)) /\ c = IF f.i # 0 THEN f.i ELSE Len(h1.exts)
  OBVIOUS
<1>3. end <=> f.at + h.exts[f.i].len = h.size
  OBVIOUS
<1> HIDE DEF h1, c, f, end, r
<1>4. ~(f.i # 0 /\ ~end) => PadDone(h1, c, n, r)
  BY <1>1, Zenon DEF PadDone
<1>5. PadCases(h, f, n, r)
  BY <1>1, <1>2, <1>3, <1>4, Zenon DEF PadCases
<1> QED
  BY <1>5 DEF f, r

LEMMA PadDoneGood ==
  ASSUME NEW g, Good(g), NEW c, c \in 1 .. Len(g.exts), g.exts[c].type = PADDING, NEW n \in Nat,
         NEW r, PadDone(g, c, n, r)
  PROVE  Goods(r.h, n) /\ KeepsName(r.h, g) /\ (c = Len(g.exts) => (r.ok => PaddedBy(r.h, n)))
<1>1. CASE TooLong(g, c, n) /\ r = Outcome(FALSE, g)
  <2>0. r = Outcome(FALSE, g)
    BY <1>1
  <2>1. ~r.ok /\ r.h = g
    BY <2>0, Refused
  <2>2. KeepsName(g, g)
    BY Zenon DEF KeepsName
  <2> QED
    BY <2>1, <2>2, GoodIsGoods, Zenon
<1>2. CASE ~TooLong(g, c, n) /\ r = Outcome(TRUE, Encap(g, c, n))
  <2>1. r.h = Encap(g, c, n)
    BY <1>2, OutcomeIs, Zenon
  <2>2. ~TooLong(g, c, n)
    BY <1>2, Zenon
  <2> QED
    BY <2>1, <2>2, EncapNamed, Zenon
<1> QED
  BY <1>1, <1>2, Zenon DEF PadDone

LEMMA PadEncapGood ==
  ASSUME NEW h, Good(h), Fits(h), NEW n \in Nat, NEW r, r = PadEncap(h, n)
  PROVE  Goods(r.h, n) /\ KeepsName(r.h, h) /\ (r.ok => PaddedBy(r.h, n))
<1>1. PICK f : f = TLSFindExt(h, h.size, PADDING, FALSE)
  OBVIOUS
<1>2. PadCases(h, f, n, r)
  BY <1>1, PadSplit
<1>3. KeepsName(h, h)
  BY SMT DEF KeepsName
<1>4. f.i # 0 => /\ f.i \in 1 .. Len(h.exts) /\ h.exts[f.i].type = PADDING
                 /\ f.at + h.exts[f.i].len = h.size => f.i = Len(h.exts)
  BY <1>1, PadIsLast
<1>5. CASE f.i # 0 /\ f.at + h.exts[f.i].len # h.size /\ r = Outcome(FALSE, h)
  <2>0. r = Outcome(FALSE, h)
    BY <1>5
  <2>1. ~r.ok /\ r.h = h
    BY <2>0, Refused
  <2> QED
    BY <1>3, <2>1, GoodIsGoods, Zenon
<1>6. CASE f.i # 0 /\ f.at + h.exts[f.i].len = h.size /\ PadDone(h, f.i, n, r)
  BY <1>4, <1>6, PadDoneGood, Zenon
<1>7. CASE f.i = 0 /\ PadDone(AddPadding(h), Len(AddPadding(h).exts), n, r)
  <2>1. PICK g : g = AddPadding(h)
    OBVIOUS
  <2>2. Good(g) /\ KeepsName(g, h) /\ Len(g.exts) \in 1 .. Len(g.exts) /\ g.exts[Len(g.exts)].type = PADDING
    BY <2>1, AddPaddingNamed
  <2>3. Goods(r.h, n) /\ KeepsName(r.h, g) /\ (r.ok => PaddedBy(r.h, n))
    BY <1>7, <2>1, <2>2, PadDoneGood, Zenon
  <2> QED
    BY <2>2, <2>3, Zenon DEF KeepsName
<1> QED
  BY <1>2, <1>5, <1>6, <1>7, Zenon DEF PadCases

\* what TLSMod makes of the name, and what it does then
WithName(mod, h, f) == IF "sni" \in mod.set THEN SetSni(h, f.i, mod.name) ELSE h
WithRnd(mod, h, f) == IF "rndsni" \in mod.set /\ h.exts[f.i].slen # 0 THEN RndSni(h, f.i) ELSE h
MayName(mod, h, f) ==
    mod.set \cap {"sni", "rndsni"} # {} => f.i # 0
ModCases(mod, h, f, h2, n, r) ==
    \/ r = Outcome(FALSE, h)
    \/ /\ MayName(mod, h, f)
       /\ \E ok : \/ ~("padencap" \in mod.set /\ n # 0) /\ r = Outcome(ok, h2)
                  \/ "padencap" \in mod.set /\ n # 0 /\ r = Outcome(FALSE, h2)
                  \/ /\ "padencap" \in mod.set /\ n # 0
                     /\ r = Outcome(ok /\ PadEncap(h2, n).ok, PadEncap(h2, n).h)

LEMMA ModSplit ==
  ASSUME NEW h, NEW mod, NEW payload, NEW maxsize
  PROVE  LET f == TLSFindExt(h, h.size, SNI, FALSE)
         IN  ModCases(mod, h, f, WithRnd(mod, WithName(mod, h, f), f), payload.len, TLSMod(mod, h, payload, maxsize))
<1> DEFINE sni == mod.set \cap {"sni", "rndsni"} # {}
           f == TLSFindExt(h, h.size, SNI, FALSE)
           room == h.size + NameLen(mod.name) - h.exts[f.i].slen <= maxsize
           h1 == IF "sni" \in mod.set THEN SetSni(h, f.i, mod.name) ELSE h
           rnd == "rndsni" \in mod.set
           h2 == IF rnd /\ h1.exts[f.i].slen # 0 THEN RndSni(h1, f.i) ELSE h1
           ok2 == rnd => h1.exts[f.i].slen # 0
           ok3 == payload.len # 0 /\ "dupsid" \in mod.set => DupSidOk(h, payload)
           n == payload.len
           pad == PadEncap(h2, n)
           fit == h2.size + 4 <= maxsize \/ TLSFindExt(h2, h2.size, PADDING, FALSE).i # 0
           no1 == ~IsTLSClientHello(h, h.size, FALSE) \/ h.size < 44 + h.sid
           no2 == (sni \/ "padencap" \in mod.set) /\ TLSFindExtLen(h, h.size) = POS_NOT_FOUND
           ok == SniOk(h.exts[f.i])
           no4 == "sni" \in mod.set /\ ~room
           r == TLSMod(mod, h, payload, maxsize)
           yes == ok2 /\ ok3
<1>1. r = IF no1 \/ no2 \/ (sni /\ (f.i = 0 \/ ~ok)) \/ no4 THEN Outcome(FALSE, h)
          ELSE IF n = 0 \/ "padencap" \notin mod.set THEN Outcome(yes, h2)
          ELSE IF ~fit THEN Outcome(FALSE, h2)
          ELSE Outcome(yes /\ pad.ok, pad.h)
  BY Zenon DEF TLSMod, Outcome
<1>2. sni <=> mod.set \cap {"sni", "rndsni"} # {}
  OBVIOUS
<1>3. h2 = WithRnd(mod, WithName(mod, h, f), f)
  BY Zenon DEF WithRnd, WithName
<1>4. pad = PadEncap(h2, n)
  OBVIOUS
<1> HIDE DEF f, h2, pad, fit, no1, no2, ok, no4, r, yes, n, sni
<1>5. ModCases(mod, h, f, h2, n, r)
  BY <1>1, <1>2, <1>4, Zenon DEF ModCases, MayName
<1> QED
  BY <1>3, <1>5, Zenon DEF f, n, r

\* the ClientHellos that are given to tls_mod
Given(h) ==
    /\ Good(h) /\ Short(h) /\ OneSni(h.exts)
    /\ \A i \in 1 .. Len(h.exts) : ShortExt(h.exts[i])

LEMMA HelloGood ==
  ASSUME NEW h \in Hellos(0)
  PROVE  Given(h)
<1>1. PICK later \in Nat : later = 0
  OBVIOUS
<1>2. /\ h \in HelloRec /\ h.sid \in 0 .. 255 /\ h.exts \in ExtLists
      /\ ExtLenAt(h) = 50 + h.sid /\ h.extl = SizeOfExts(h.exts) /\ h.extl \in 0 .. 792
      /\ h.hs = 43 + h.sid + h.extl /\ h.rec = 47 + h.sid + h.extl - later
      /\ h.size = IF later = 0 THEN 52 + h.sid + h.extl ELSE 57 + h.sid + h.extl
  <2>1. h \in Hellos(later)
    BY <1>1
  <2> QED
    BY <2>1, HelloIs
<1>3. PICK sid \in 0 .. 255, e \in 0 .. 792 : h.sid = sid /\ h.extl = e
  BY <1>2, ZenonT(30)
<1>4. h.hs = 43 + sid + e /\ h.rec = 47 + sid + e /\ h.size = 52 + sid + e /\ ExtLenAt(h) = 50 + sid
  BY <1>1, <1>2, <1>3
<1>5. h.size = h.rec + 5 /\ h.rec = h.hs + 4 /\ h.hs + 9 = ExtLenAt(h) + 2 + h.extl
  <2>1. PICK hs \in Int, rec \in Int, z \in Int, a \in Int : h.hs = hs /\ h.rec = rec /\ h.size = z /\ ExtLenAt(h) = a
    BY <1>4
  <2>2. hs = 43 + sid + e /\ rec = 47 + sid + e /\ z = 52 + sid + e /\ a = 50 + sid
    BY <1>4, <2>1
  <2>3. z = rec + 5 /\ rec = hs + 4 /\ hs + 9 = a + 2 + e
    BY <2>2
  <2> QED
    BY <1>3, <2>1, <2>3
<1>6. OneSni(h.exts) /\ SnisOk(h.exts) /\ \A i \in 1 .. Len(h.exts) : ShortExt(h.exts[i])
  BY <1>2, ExtListIs DEF ShortExt
<1>7. Good(h)
  BY <1>2, <1>5, <1>6, ZenonT(30) DEF Good, WellFormed, SnisOk
<1>8. Short(h)
  BY <1>3, <1>4 DEF Short
<1> QED
  BY <1>6, <1>7, <1>8, ZenonT(30) DEF Given

LEMMA SniFound ==
  ASSUME NEW h, Given(h), NEW f, f = TLSFindExt(h, h.size, SNI, FALSE), f.i # 0
  PROVE  HasSni(h, f.i)
<1>1. PICK c \in 1 .. Len(h.exts) : FoundAt(h, SNI, f, c)
  BY FindWhole DEF Given, Lacks
<1>2. f.i = c /\ h.exts[c].type = SNI
  BY <1>1, Zenon DEF FoundAt
<1>3. ShortExt(h.exts[c])
  BY <1>1, Zenon DEF Given
<1> QED
  BY <1>1, <1>2, <1>3, Zenon DEF HasSni

\* FAKE_TLS_MOD_SNI
LEMMA WithNameGood ==
  ASSUME NEW h, Given(h), NEW f, f.i # 0 => HasSni(h, f.i), NEW mod, mod.name \in Names,
         MayName(mod, h, f), NEW g, g = WithName(mod, h, f)
  PROVE  /\ Good(g) /\ Fits(g) /\ SameTypes(g, h)
         /\ "sni" \in mod.set => g.exts[f.i].name = mod.name
<1>1. CASE "sni" \in mod.set
  <2>1. HasSni(h, f.i)
    BY <1>1, Zenon DEF MayName
  <2>2. g = SetSni(h, f.i, mod.name)
    BY <1>1, Zenon DEF WithName
  <2>3. Good(h) /\ Short(h)
    BY Zenon DEF Given
  <2>4. Good(g) /\ Fits(g) /\ SameTypes(g, h) /\ g.exts[f.i].name = mod.name
    <3>1. PICK c : c = f.i
      OBVIOUS
    <3>2. PICK y : y = SetSni(h, c, mod.name)
      OBVIOUS
    <3>3. Good(y) /\ Fits(y) /\ SameTypes(y, h) /\ y.exts[c].name = mod.name
      BY <2>1, <2>3, <3>1, <3>2, SetSniGood
    <3>4. y = g
      BY <2>2, <3>1, <3>2, Zenon
    <3> QED
      BY <3>1, <3>3, <3>4, Zenon
  <2> QED
    BY <2>4, Zenon
<1>2. CASE ~("sni" \in mod.set)
  <2>1. g = h
    BY <1>2, Zenon DEF WithName
  <2>2. SameTypes(h, h)
    BY Zenon DEF SameTypes
  <2>3. Good(h) /\ Short(h)
    BY Zenon DEF Given
  <2>4. Fits(h)
    <3>1. PICK z \in Int : h.size = z
      BY <2>3, Lengths
    <3>2. z <= 2000
      BY <2>3, <3>1 DEF Short
    <3>3. z <= 2255
      BY <3>2
    <3> QED
      BY <3>1, <3>3 DEF Fits
  <2> QED
    BY <1>2, <2>1, <2>2, <2>3, <2>4, Zenon
<1> QED
  BY <1>1, <1>2, Zenon

\* FAKE_TLS_MOD_RND_SNI
LEMMA WithRndGood ==
  ASSUME NEW h, NEW g, Good(g), Fits(g), SameTypes(g, h), NEW f, f.i # 0 => HasSni(h, f.i), NEW mod,
         MayName(mod, h, f), NEW q, q = WithRnd(mod, g, f)
  PROVE  Good(q) /\ Fits(q) /\ ("rndsni" \notin mod.set => q = g)
<1>1. CASE "rndsni" \in mod.set /\ q = RndSni(g, f.i)
  <2>1. HasSni(h, f.i)
    BY <1>1, Zenon DEF MayName
  <2>2. f.i \in 1 .. Len(g.exts) /\ g.exts[f.i].type = SNI
    BY <2>1, Zenon DEF SameTypes, HasSni
  <2>3. Good(q) /\ q.size = g.size
    <3>1. PICK c : c = f.i
      OBVIOUS
    <3>2. PICK y : y = RndSni(g, c)
      OBVIOUS
    <3>3. Good(y) /\ y.size = g.size
      BY <2>2, <3>1, <3>2, RndSniGood
    <3>4. y = q
      BY <1>1, <3>1, <3>2, Zenon
    <3> QED
      BY <3>3, <3>4
  <2> QED
    <3>1. Fits(q)
      BY <2>3 DEF Fits
    <3> QED
      BY <1>1, <2>3, <3>1, Zenon
<1>2. CASE q = g
  BY <1>2, Zenon
<1> QED
  BY <1>1, <1>2, Zenon DEF WithRnd

\* only the name of an SNI extension is replaced
OnlySni(mod) == mod.set \cap {"sni", "rndsni"} = {"sni"}

LEMMA NamedBySni ==
  ASSUME NEW h, Given(h), NEW c, HasSni(h, c), NEW g, Good(g), SameTypes(g, h), NEW nm, g.exts[c].name = nm
  PROVE  Named(g, c, nm)
<1>1. g.k = "tls"
  BY GoodIsGoods
<1>2. Len(g.exts) = Len(h.exts) /\ \A j \in 1 .. Len(h.exts) : g.exts[j].type = h.exts[j].type
  BY Zenon DEF SameTypes
<1>3. c \in 1 .. Len(h.exts) /\ h.exts[c].type = SNI
  BY Zenon DEF HasSni
<1>4. \A i, j \in 1 .. Len(h.exts) : h.exts[i].type = SNI /\ h.exts[j].type = SNI => i = j
  BY Zenon DEF Given, OneSni
<1> QED
  BY <1>1, <1>2, <1>3, <1>4, Zenon DEF Named

ModResult(mod, n, r) ==
    /\ Good(r.h) \/ (n # 0 /\ Good(WithPayload(r.h, n)))
    /\ r.ok /\ OnlySni(mod) => HostOf(r.h) = mod.name
    /\ r.ok /\ "padencap" \in mod.set /\ n # 0 => PaddedBy(r.h, n)

LEMMA NamedIsHost ==
  ASSUME NEW g, NEW n, Goods(g, n), NEW c, NEW nm, Named(g, c, nm)
  PROVE  HostOf(g) = nm
  BY NamedHost DEF Goods

LEMMA ModGood ==
  ASSUME NEW h, Given(h), NEW mod, mod.name \in Names, NEW payload, NEW n \in Nat, payload.len = n,
         NEW maxsize, NEW r, r = TLSMod(mod, h, payload, maxsize)
  PROVE  ModResult(mod, n, r)
<1>1. PICK f : f = TLSFindExt(h, h.size, SNI, FALSE)
  OBVIOUS
<1>2. PICK g : g = WithName(mod, h, f)
  OBVIOUS
<1>3. PICK q : q = WithRnd(mod, g, f)
  OBVIOUS
<1>4. ModCases(mod, h, f, q, n, r)
  BY <1>1, <1>2, <1>3, ModSplit, Zenon
<1>5. f.i # 0 => HasSni(h, f.i)
  BY <1>1, SniFound
<1>6. CASE r = Outcome(FALSE, h)
  <2>1. ~r.ok /\ r.h = h
    BY <1>6, Refused
  <2>2. Good(h)
    BY Zenon DEF Given
  <2> QED
    BY <2>1, <2>2, Zenon DEF ModResult
<1>7. CASE MayName(mod, h, f)
  <2>1. /\ Good(g) /\ Fits(g) /\ SameTypes(g, h)
        /\ "sni" \in mod.set => g.exts[f.i].name = mod.name
    BY <1>2, <1>5, <1>7, WithNameGood
  <2>2. Good(q) /\ Fits(q) /\ ("rndsni" \notin mod.set => q = g)
    BY <1>3, <1>5, <1>7, <2>1, WithRndGood, Zenon
  <2>3. OnlySni(mod) => Named(q, f.i, mod.name)
    <3> SUFFICES ASSUME OnlySni(mod) PROVE Named(q, f.i, mod.name)
      BY Zenon
    <3>2. "sni" \in mod.set /\ "rndsni" \notin mod.set
      BY DEF OnlySni
    <3>3. mod.set \cap {"sni", "rndsni"} # {}
      BY <3>2
    <3>4. HasSni(h, f.i)
      BY <1>5, <1>7, <3>3, Zenon DEF MayName
    <3>5. Named(g, f.i, mod.name)
      BY <2>1, <3>2, <3>4, NamedBySni, Zenon
    <3> QED
      BY <2>2, <3>2, <3>5, Zenon
  <2>4. Goods(q, n)
    BY <2>2, GoodIsGoods, Zenon
  <2>5. CASE \E ok : ~("padencap" \in mod.set /\ n # 0) /\ r = Outcome(ok, q)
    <3>1. r.h = q
      <4>1. PICK ok : r = Outcome(ok, q)
        BY <2>5, Zenon
      <4> QED
        BY <4>1, OutcomeIs, Zenon
    <3>2. OnlySni(mod) => HostOf(q) = mod.name
      BY <2>3, <2>4, NamedIsHost, Zenon
    <3> QED
      BY <2>2, <2>5, <3>1, <3>2, Zenon DEF ModResult
  <2>6. CASE r = Outcome(FALSE, q)
    <3>1. ~r.ok /\ r.h = q
      BY <2>6, Refused
    <3> QED
      BY <2>2, <3>1, Zenon DEF ModResult
  <2>7. CASE \E ok : /\ "padencap" \in mod.set /\ n # 0
                     /\ r = Outcome(ok /\ PadEncap(q, n).ok, PadEncap(q, n).h)
    <3>1. PICK p : p = PadEncap(q, n)
      OBVIOUS
    <3>2. Goods(p.h, n) /\ KeepsName(p.h, q) /\ (p.ok => PaddedBy(p.h, n))
      BY <2>2, <3>1, PadEncapGood
    <3>3. r.h = p.h /\ (r.ok => p.ok) /\ n # 0
      <4>1. PICK ok : "padencap" \in mod.set /\ n # 0 /\ r = Outcome(ok /\ p.ok, p.h)
        BY <2>7, <3>1, Zenon
      <4>2. r = Outcome(ok /\ p.ok, p.h)
        BY <4>1
      <4> QED
        BY <4>1, <4>2, OnlyIf, Zenon
    <3>4. OnlySni(mod) => HostOf(p.h) = mod.name
      BY <2>3, <3>2, NamedIsHost, Zenon DEF KeepsName
    <3> QED
      BY <3>2, <3>3, <3>4, Zenon DEF ModResult, Goods
  <2> QED
    BY <1>4, <1>6, <2>5, <2>6, <2>7, Zenon DEF ModCases
<1> QED
  BY <1>4, <1>6, <1>7, Zenon DEF ModCases

\* A fake ClientHello stays one, whatever mods are asked for (TLSMod).
THEOREM HelloStaysWhole == CallSpec => []ModKeepsHello
<1>1. ASSUME call = NoCall \/ CallInit PROVE ModKeepsHello
  <2> SUFFICES ASSUME call.k = "tls_mod" PROVE ModKeepsHello
    BY DEF ModKeepsHello
  <2>1. PICK h \in Hellos(0), mod \in Mods, payload \in Payloads, room \in {0, 9} :
          call = [k |-> "tls_mod", h |-> h, mod |-> mod, payload |-> payload, room |-> room]
    <3>1. CASE call = NoCall
      BY <3>1 DEF NoCall
    <3>2. CASE \E p \in Whole \cup Parts : call = [k |-> "packet", p |-> p]
      BY <3>2
    <3>3. CASE \E m \in Messages : call = [k |-> "message", m |-> m]
      BY <3>3
    <3>4. CASE \E fs \in FrameSeqs : call = [k |-> "crypto", fs |-> fs]
      BY <3>4
    <3> QED
      BY <1>1, <3>1, <3>2, <3>3, <3>4, Zenon DEF CallInit
  <2>2. call.h = h /\ call.mod = mod /\ call.payload = payload /\ call.room = room
    BY <2>1, SMT
  <2>3. mod.name \in Names
    BY SMT DEF Mods
  <2>4. PICK n \in Nat : payload.len = n
    BY ProtocolAssumption, SMT
  <2>5. PICK r : r = TLSMod(mod, h, payload, h.size + room)
    OBVIOUS
  <2>6. Given(h)
    BY HelloGood
  <2>7. ModResult(mod, n, r)
    BY <2>3, <2>4, <2>5, <2>6, ModGood, Zenon
  <2>8. /\ WellFormed(r.h) \/ (n # 0 /\ WellFormed(WithPayload(r.h, n)))
        /\ r.ok /\ mod.set \cap {"sni", "rndsni"} = {"sni"} => HostOf(r.h) = mod.name
        /\ r.ok /\ "padencap" \in mod.set /\ n # 0 =>
             /\ WellFormed(WithPayload(r.h, n)) /\ r.h.exts[Len(r.h.exts)].type = PADDING
             /\ r.h.exts[Len(r.h.exts)].len >= n
    BY <2>7, Zenon DEF ModResult, OnlySni, PaddedBy, EndsPadded, Good
  <2>9. /\ WellFormed(r.h) \/ (n # 0 /\ WellFormed([r.h EXCEPT !.size = @ + n]))
        /\ r.ok /\ mod.set \cap {"sni", "rndsni"} = {"sni"} => HostOf(r.h) = mod.name
        /\ r.ok /\ "padencap" \in mod.set /\ n # 0 =>
             /\ WellFormed([r.h EXCEPT !.size = @ + n]) /\ r.h.exts[Len(r.h.exts)].type = PADDING
             /\ r.h.exts[Len(r.h.exts)].len >= n
    BY <2>8, SMT DEF WithPayload
  <2> QED
    BY <2>2, <2>4, <2>5, <2>9, SMT DEF ModKeepsHello
<1>2. ModKeepsHello /\ UNCHANGED call => ModKeepsHello'
  BY DEF ModKeepsHello
<1> QED
  BY <1>1, <1>2, PTL DEF CallSpec

-----------------------------------------------------------------------------
(* Position markers                                                        *)

\* a position is not found, or is b
Steady(a, b) == a = POS_NOT_FOUND \/ a = b
InMessage(p, sz) == p = POS_NOT_FOUND \/ p \in 0 .. sz - 1

\* what is found in sz bytes is found in all of size
LEMMA CheckSteady ==
  ASSUME NEW sz \in Int, NEW size \in Int, sz <= size, NEW o \in Int
  PROVE  Steady(CheckPos(sz, o), CheckPos(size, o)) /\ InMessage(CheckPos(sz, o), sz)
  BY DEF Steady, InMessage, CheckPos, POS_NOT_FOUND

LEMMA NotFoundSteady ==
  ASSUME NEW b, NEW sz
  PROVE  Steady(POS_NOT_FOUND, b) /\ InMessage(POS_NOT_FOUND, sz)
  BY DEF Steady, InMessage

IsHostMarker(m) == m \in {"host", "sld", "midsld", "endsld", "endhost"}
LEMMA HostMarkerIs == {HostMarkers[i] : i \in DOMAIN HostMarkers} = {"host", "sld", "midsld", "endsld", "endhost"}
  BY DEF HostMarkers

\* the labels of a name
LEMMA LabelsAre ==
  ASSUME NEW name \in Names
  PROVE  /\ name \in Seq(Nat) /\ name # <<>> /\ Len(name) \in Nat \ {0}
         /\ \A i \in 1 .. Len(name) : name[i] \in Nat \ {0}
         /\ NameLen(name) \in Nat \ {0} /\ NameLen(name) >= name[Len(name)]
         /\ Len(name) >= 2 => name[Len(name) - 1] \in Nat \ {0} /\ Sld(name) \in Nat
<1> DEFINE n == Len(name)
           x == Sums(name)
<1>1. /\ name \in Seq(Nat) /\ name # <<>> /\ NameLen(name) <= 255 /\ \A i \in DOMAIN name : name[i] # 0
  BY ProtocolAssumption
<1>2. n \in Nat \ {0} /\ name \in [1 .. n -> Int] /\ \A i \in 1 .. n : name[i] \in Nat \ {0} /\ name[i] >= 0
  BY <1>1
<1>3. x \in [0 .. n -> Int] /\ x[0] = 0 /\ \A i \in 1 .. n : x[i] = x[i - 1] + name[i]
  <2> HIDE DEF n
  <2> QED
    BY <1>2, SumsIs
<1>4. \A i, j \in 0 .. n : i < j => x[i] + 0 <= x[j]
  <2> HIDE DEF n
  <2> QED
    BY <1>2, SumsGrow
<1>5. NameLen(name) = x[n] + n - 1
  BY DEF NameLen, Total
<1> HIDE DEF x
<1>6. \A i \in 0 .. n : x[i] \in Nat
  BY <1>2, <1>3, <1>4
<1>7. x[n] = x[n - 1] + name[n] /\ x[n - 1] \in Nat /\ name[n] \in Nat \ {0}
  <2>1. n \in 1 .. n /\ n - 1 \in 0 .. n
    BY <1>2
  <2> QED
    BY <1>2, <1>3, <1>6, <2>1
<1>8. NameLen(name) \in Nat \ {0} /\ NameLen(name) >= name[n]
  <2> HIDE DEF n
  <2> QED
    BY <1>2, <1>5, <1>7
<1>9. ASSUME n >= 2 PROVE name[n - 1] \in Nat \ {0} /\ Sld(name) \in Nat
  <2>1. n - 1 \in 1 .. n /\ n - 2 \in 0 .. n /\ n - 1 - 1 = n - 2
    BY <1>2, <1>9
  <2>2. name[n - 1] \in Nat \ {0} /\ x[n - 1] = x[n - 2] + name[n - 1] /\ x[n - 2] \in Nat
    BY <1>2, <1>3, <1>6, <2>1
  <2>3. Sld(name) = NameLen(name) - name[n] - 1 - name[n - 1]
    BY DEF Sld
  <2> HIDE DEF n
  <2>4. Sld(name) = x[n - 2] + n - 2
    <3>1. PICK l, u, v, y, z : l = NameLen(name) /\ u = x[n - 2] /\ v = x[n - 1] /\ y = name[n] /\ z = name[n - 1]
      OBVIOUS
    <3>2. l = v + y + n - 1 /\ v = u + z /\ u \in Nat /\ y \in Nat /\ z \in Nat /\ n \in Nat
      BY <1>2, <1>5, <1>7, <2>2, <3>1
    <3>3. l - y - 1 - z = u + n - 2
      BY <3>2
    <3> QED
      BY <2>3, <3>1, <3>3
  <2> QED
    BY <1>2, <1>9, <2>2, <2>4
<1> QED
  BY <1>1, <1>2, <1>8, <1>9

\* where a marker of the host is, before it is asked whether that is in the message
HostMark(marker, pos, offset, len, name) ==
    LET slen == name[Len(name) - 1]
        p == offset + Sld(name)
    IN  CASE marker = "host" -> offset + pos
          [] marker = "endhost" -> offset + len + pos
          [] marker = "sld" -> pos + p
          [] marker = "endsld" -> pos + (p + slen)
          [] OTHER -> pos + (IF slen = 1 THEN p + 1 ELSE p + slen \div 2)
NeedsAll(marker) == marker \in {"sld", "midsld", "endsld"}

LEMMA HostPosIs ==
  ASSUME NEW m, IsHostMarker(m), NEW pos, NEW sz, NEW offset, NEW len, NEW name
  PROVE  HostPos(m, pos, sz, offset, len, name) =
           IF NeedsAll(m) => offset + len <= sz /\ Len(name) >= 2
           THEN CheckPos(sz, HostMark(m, pos, offset, len, name)) ELSE POS_NOT_FOUND
<1>1. CASE m = "host"
  BY <1>1 DEF HostPos, HostMark, NeedsAll
<1>2. CASE m = "endhost"
  BY <1>2 DEF HostPos, HostMark, NeedsAll
<1>3. CASE m = "sld"
  BY <1>3 DEF HostPos, HostMark, NeedsAll
<1>4. CASE m = "endsld"
  BY <1>4 DEF HostPos, HostMark, NeedsAll
<1>5. CASE m = "midsld"
  BY <1>5 DEF HostPos, HostMark, NeedsAll
<1> QED
  BY <1>1, <1>2, <1>3, <1>4, <1>5 DEF IsHostMarker

LEMMA HostMarkIs ==
  ASSUME NEW m, IsHostMarker(m), NEW pos \in Int, NEW offset \in Int, NEW len \in Int,
         NEW name \in Names, NeedsAll(m) => Len(name) >= 2
  PROVE  HostMark(m, pos, offset, len, name) \in Int
<1>1. CASE m = "host"
  BY <1>1 DEF HostMark
<1>2. CASE m = "endhost"
  BY <1>2 DEF HostMark
<1>3. CASE NeedsAll(m)
  <2>1. PICK s \in Nat, q \in Nat : name[Len(name) - 1] = s /\ Sld(name) = q
    BY <1>3, LabelsAre
  <2>2. PICK half \in Int : half = s \div 2
    OBVIOUS
  <2>3. CASE m = "sld"
    BY <2>1, <2>3 DEF HostMark
  <2>4. CASE m = "endsld"
    BY <2>1, <2>4 DEF HostMark
  <2>5. CASE m = "midsld"
    <3>1. HostMark(m, pos, offset, len, name) = pos + (IF s = 1 THEN offset + q + 1 ELSE offset + q + half)
      BY <2>1, <2>2, <2>5 DEF HostMark
    <3> QED
      BY <3>1
  <2> QED
    BY <1>3, <2>3, <2>4, <2>5 DEF NeedsAll
<1> QED
  BY <1>1, <1>2, <1>3 DEF IsHostMarker, NeedsAll

LEMMA HostSteady ==
  ASSUME NEW m, IsHostMarker(m), NEW pos \in Int, NEW sz \in Int, NEW size \in Int, sz <= size,
         NEW offset \in Int, NEW len \in Int, NEW name \in Names
  PROVE  /\ Steady(HostPos(m, pos, sz, offset, len, name), HostPos(m, pos, size, offset, len, name))
         /\ InMessage(HostPos(m, pos, sz, offset, len, name), sz)
<1> DEFINE mark == HostMark(m, pos, offset, len, name)
           ok(z) == NeedsAll(m) => offset + len <= z /\ Len(name) >= 2
<1>1. \A z : HostPos(m, pos, z, offset, len, name) = IF ok(z) THEN CheckPos(z, mark) ELSE POS_NOT_FOUND
  BY HostPosIs
<1>2. CASE ok(sz)
  <2>1. ok(size)
    BY <1>2
  <2>2. mark \in Int
    BY <1>2, HostMarkIs
  <2> HIDE DEF mark, ok
  <2> QED
    BY <1>1, <1>2, <2>1, <2>2, CheckSteady
<1>3. CASE ~ok(sz)
  <2> HIDE DEF mark, ok
  <2> QED
    BY <1>1, <1>3, NotFoundSteady
<1> QED
  BY <1>2, <1>3

LEMMA AbsSteady ==
  ASSUME NEW m, NEW pos \in Int, NEW sz \in Int, NEW size \in Int, sz <= size
  PROVE  /\ (m = "abs" => pos >= 0) => Steady(AnyProtoPos(m, pos, sz), AnyProtoPos(m, pos, size))
         /\ InMessage(AnyProtoPos(m, pos, sz), sz)
<1>1. CASE m = "abs"
  BY <1>1, CheckSteady DEF AnyProtoPos, InMessage, CheckPos, POS_NOT_FOUND
<1>2. CASE m # "abs"
  BY <1>2, NotFoundSteady DEF AnyProtoPos
<1> QED
  BY <1>1, <1>2

-----------------------------------------------------------------------------
(* HTTP requests                                                           *)

IsRequest(r) ==
    /\ r.k = "http" /\ r.breaks \in Nat /\ r.method \in Nat /\ r.host \in Nat /\ r.blanks \in 0 .. 1
    /\ r.name \in Names /\ r.size = r.host + 5 + r.blanks + NameLen(r.name) + 4

LEMMA RequestIs ==
  ASSUME NEW r \in Requests
  PROVE  IsRequest(r) /\ r.size \in Int
<1>1. PICK b \in 0 .. 2, at \in HttpHosts, w \in 0 .. 1, n \in Names :
        r = [k |-> "http", breaks |-> b, method |-> 3, host |-> at, blanks |-> w, name |-> n,
             size |-> at + 5 + w + NameLen(n) + 4]
  BY DEF Requests
<1>2. at \in Nat /\ NameLen(n) \in Nat
  BY ProtocolAssumption, LabelsAre
<1>3. PICK z \in Int : z = at + 5 + w + NameLen(n) + 4
  BY <1>2
<1> QED
  BY <1>1, <1>2, <1>3 DEF IsRequest

\* the blanks before the name belong to it, but one
LEMMA LineIs ==
  ASSUME NEW r, IsRequest(r)
  PROVE  [r.name EXCEPT ![1] = @ + r.blanks - Smaller(r.blanks, 1)] = r.name
<1>1. r.name \in Seq(Nat) /\ Smaller(r.blanks, 1) = r.blanks /\ r.blanks \in Nat
  BY LabelsAre, SMTT(30) DEF IsRequest, Smaller
<1>2. r.name[1] + r.blanks - Smaller(r.blanks, 1) = r.name[1]
  <2>1. r.name[1] \in Nat
    BY LabelsAre, SMTT(30) DEF IsRequest
  <2> QED
    BY <1>1, <2>1
<1> QED
  BY <1>1, <1>2

LEMMA WholeName ==
  ASSUME NEW name \in Names
  PROVE  FirstBytes(name, NameLen(name)) = name
<1> DEFINE n == Len(name)
           x == Sums(name)
           L == NameLen(name)
           S == {j \in DOMAIN name : j = 1 \/ LabelAt(name, j) <= L}
<1>1. n \in Nat \ {0} /\ name \in [1 .. n -> Int] /\ \A i \in 1 .. n : name[i] \in Nat \ {0} /\ name[i] >= 0
  BY LabelsAre
<1>2. x \in [0 .. n -> Int] /\ x[0] = 0 /\ \A i \in 1 .. n : x[i] = x[i - 1] + name[i]
  <2> HIDE DEF n
  <2> QED
    BY <1>1, SumsIs
<1>3. \A i, j \in 0 .. n : i < j => x[i] + 0 <= x[j]
  <2> HIDE DEF n
  <2> QED
    BY <1>1, SumsGrow
<1>4. L = x[n] + n - 1 /\ \A i : LabelAt(name, i) = x[i - 1] + i - 1
  BY DEF NameLen, Total, LabelAt
<1> HIDE DEF x, L, n
<1>5. ASSUME NEW i \in 1 .. n PROVE LabelAt(name, i) <= L /\ Smaller(name[i], L - LabelAt(name, i)) = name[i]
  <2>1. x[i] = x[i - 1] + name[i] /\ x[i - 1] \in Int /\ x[i] \in Int /\ x[n] \in Int /\ name[i] \in Nat
    <3>1. i - 1 \in 0 .. n /\ i \in 0 .. n /\ n \in 0 .. n
      BY <1>1
    <3> QED
      BY <1>1, <1>2, <3>1
  <2>2. x[i] <= x[n]
    <3>1. CASE i = n
      BY <2>1, <3>1
    <3>2. CASE i # n
      <4>1. i < n /\ i \in 0 .. n /\ n \in 0 .. n
        BY <1>1, <3>2
      <4>2. x[i] + 0 <= x[n]
        BY <1>3, <4>1
      <4> QED
        BY <2>1, <4>2
    <3> QED
      BY <3>1, <3>2
  <2>3. LabelAt(name, i) = x[i - 1] + i - 1
    BY <1>4
  <2>4. LabelAt(name, i) <= L /\ name[i] <= L - LabelAt(name, i) /\ LabelAt(name, i) \in Int /\ L \in Int
    <3>1. PICK a \in Int, b \in Int, c \in Int, e \in Nat : a = x[i - 1] /\ b = x[i] /\ c = x[n] /\ e = name[i]
      BY <2>1
    <3>2. b = a + e /\ b <= c /\ LabelAt(name, i) = a + i - 1 /\ L = c + n - 1 /\ n \in Int
      BY <1>1, <1>4, <2>1, <2>2, <2>3, <3>1
    <3>3. a + i - 1 <= c + n - 1 /\ e <= c + n - 1 - (a + i - 1)
      BY <3>2
    <3> QED
      BY <3>1, <3>2, <3>3
  <2> QED
    BY <2>1, <2>4 DEF Smaller
<1>6. S = 1 .. n
  <2>1. DOMAIN name = 1 .. n /\ \A i \in 1 .. n : LabelAt(name, i) <= L
    BY <1>1, <1>5
  <2> QED
    BY <2>1
<1>7. Cardinality(S) = n
  <2>1. 1 \in Int /\ n \in Int /\ n - 1 + 1 = n /\ ~(1 > n)
    BY <1>1
  <2>2. Cardinality(1 .. n) = n
    BY <2>1, FS_Interval
  <2> QED
    BY <1>6, <2>2
<1>8. FirstBytes(name, L) = [i \in 1 .. n |-> Smaller(name[i], L - LabelAt(name, i))]
  BY <1>7 DEF FirstBytes
<1>9. FirstBytes(name, L) = [i \in 1 .. n |-> name[i]]
  BY <1>5, <1>8
<1>10. name = [i \in 1 .. n |-> name[i]]
  BY <1>1
<1> QED
  BY <1>9, <1>10 DEF L

RequestHost(r) == r.host + 5 + r.blanks

\* where a marker of the host is, if the request is there up to the end of its host
LEMMA HttpHostIs ==
  ASSUME NEW r, IsRequest(r), NEW m, IsHostMarker(m), NEW pos \in Int, NEW sz \in Int,
         m = "host" \/ sz >= RequestHost(r) + NameLen(r.name)
  PROVE  HttpPos(m, pos, r, sz) =
           IF r.host + 7 < sz THEN HostPos(m, pos, sz, RequestHost(r), NameLen(r.name), r.name)
           ELSE POS_NOT_FOUND
<1> DEFINE line == [r.name EXCEPT ![1] = @ + r.blanks - Smaller(r.blanks, 1)]
           len == IF m = "host" THEN 0 ELSE Smaller(sz - HttpHostAt(r), NameLen(line))
           there == r.host + 5 <= sz /\ r.host + 7 < sz
<1>1. HttpPos(m, pos, r, sz) =
        IF there THEN HostPos(m, pos, sz, HttpHostAt(r), len, FirstBytes(line, len)) ELSE POS_NOT_FOUND
  <2>1. m # "method" /\ m \in {HostMarkers[i] : i \in DOMAIN HostMarkers}
    BY HostMarkerIs DEF IsHostMarker
  <2> HIDE DEF line
  <2> QED
    BY <2>1, Zenon DEF HttpPos, line
<1>2. line = r.name
  BY LineIs
<1>3. HttpHostAt(r) = RequestHost(r) /\ RequestHost(r) \in Int /\ r.host \in Nat /\ r.name \in Names
  BY DEF HttpHostAt, RequestHost, IsRequest, Smaller
<1>4. NameLen(r.name) \in Nat
  BY <1>3, LabelsAre
<1>5. there <=> r.host + 7 < sz
  BY <1>3
<1> HIDE DEF line, there
<1>6. CASE m = "host"
  BY <1>1, <1>3, <1>5, <1>6 DEF HostPos
<1>7. CASE m # "host"
  <2>1. len = NameLen(r.name)
    BY <1>2, <1>3, <1>4, <1>7 DEF Smaller
  <2>2. FirstBytes(line, len) = r.name
    BY <1>2, <1>3, <2>1, WholeName
  <2> HIDE DEF len
  <2> QED
    BY <1>1, <1>3, <1>5, <2>1, <2>2
<1> QED
  BY <1>6, <1>7

LEMMA HttpSteady ==
  ASSUME NEW r, IsRequest(r), r.size \in Int, NEW m, NEW pos \in Int,
         NEW sz \in Int, sz <= r.size,
         m \in {"host", "method", "abs"} \/ sz >= RequestHost(r) + NameLen(r.name)
  PROVE  /\ (m = "abs" => pos >= 0) => Steady(HttpPos(m, pos, r, sz), HttpPos(m, pos, r, r.size))
         /\ InMessage(HttpPos(m, pos, r, sz), sz)
<1> DEFINE size == r.size
<1>1. CASE m = "method"
  <2> DEFINE ok(z) == z >= 12 /\ r.method \in 3 .. 9
  <2>1. \A z : HttpPos(m, pos, r, z) = IF ok(z) THEN CheckPos(z, r.breaks + pos) ELSE POS_NOT_FOUND
    <3>1. m \notin {HostMarkers[i] : i \in DOMAIN HostMarkers}
      BY <1>1, HostMarkerIs
    <3> QED
      BY <1>1, <3>1, Zenon DEF HttpPos
  <2>2. r.breaks + pos \in Int
    BY DEF IsRequest
  <2>3. ok(sz) => ok(size)
    OBVIOUS
  <2> HIDE DEF ok
  <2> QED
    BY <2>1, <2>2, <2>3, CheckSteady, NotFoundSteady
<1>2. CASE IsHostMarker(m)
  <2> DEFINE at == RequestHost(r)
             n == NameLen(r.name)
  <2>1. r.name \in Names /\ n \in Nat /\ at \in Int /\ size = at + n + 4 /\ r.host \in Nat
    <3>1. r.name \in Names
      BY DEF IsRequest
    <3>2. n \in Nat
      BY <3>1, LabelsAre
    <3> QED
      BY <3>1, <3>2 DEF IsRequest, RequestHost
  <2>2. m # "method" /\ m # "abs"
    BY <1>2 DEF IsHostMarker
  <2>3. HttpPos(m, pos, r, sz) = IF r.host + 7 < sz THEN HostPos(m, pos, sz, at, n, r.name) ELSE POS_NOT_FOUND
    BY <1>2, <2>2, HttpHostIs
  <2>4. HttpPos(m, pos, r, size) = IF r.host + 7 < size THEN HostPos(m, pos, size, at, n, r.name) ELSE POS_NOT_FOUND
    <3>1. size >= at + n
      BY <2>1
    <3> QED
      BY <1>2, <3>1, HttpHostIs
  <2>5. r.host + 7 < sz => r.host + 7 < size
    BY <2>1
  <2>6. /\ Steady(HostPos(m, pos, sz, at, n, r.name), HostPos(m, pos, size, at, n, r.name))
        /\ InMessage(HostPos(m, pos, sz, at, n, r.name), sz)
    BY <1>2, <2>1, HostSteady
  <2> HIDE DEF at, n
  <2> QED
    BY <2>3, <2>4, <2>5, <2>6, NotFoundSteady
<1>3. CASE m # "method" /\ ~IsHostMarker(m)
  <2>1. \A z : HttpPos(m, pos, r, z) = AnyProtoPos(m, pos, z)
    <3>1. m # "method" /\ m \notin {HostMarkers[i] : i \in DOMAIN HostMarkers}
      BY <1>3, HostMarkerIs DEF IsHostMarker
    <3> QED
      BY <3>1, Zenon DEF HttpPos
  <2> QED
    BY <2>1, AbsSteady
<1> QED
  BY <1>1, <1>2, <1>3

\* in a whole message, the host markers lie around the host
LEMMA HostAround ==
  ASSUME NEW name \in Names, NEW at \in Nat, NEW size \in Int, at + NameLen(name) <= size,
         NEW P, \A m : IsHostMarker(m) => P[m] = HostPos(m, 0, size, at, NameLen(name), name)
  PROVE  /\ P["host"] = at /\ P["endhost"] \in {at + NameLen(name), POS_NOT_FOUND}
         /\ Len(name) >= 2 =>
              /\ P["host"] <= P["sld"] /\ P["sld"] < P["midsld"] /\ P["midsld"] <= P["endsld"]
              /\ P["endsld"] < at + NameLen(name)
              /\ P["endsld"] = at + NameLen(name) - 1 - name[Len(name)]
<1> DEFINE M(m) == HostMark(m, 0, at, NameLen(name), name)
<1>1. PICK n \in Nat \ {0} : n = NameLen(name)
  BY LabelsAre
<1>2. \A m : IsHostMarker(m) => P[m] = IF NeedsAll(m) => at + n <= size /\ Len(name) >= 2
                                        THEN CheckPos(size, M(m)) ELSE POS_NOT_FOUND
  BY <1>1, HostPosIs
<1>3. P["host"] = at
  <2>1. M("host") = at
    BY DEF HostMark
  <2>2. P["host"] = CheckPos(size, M("host"))
    BY <1>2 DEF IsHostMarker, NeedsAll
  <2> HIDE DEF M
  <2> QED
    BY <1>1, <2>1, <2>2 DEF CheckPos
<1>4. P["endhost"] \in {at + n, POS_NOT_FOUND}
  <2>1. M("endhost") = at + n
    BY <1>1 DEF HostMark
  <2>2. P["endhost"] = CheckPos(size, M("endhost"))
    BY <1>2 DEF IsHostMarker, NeedsAll
  <2> HIDE DEF M
  <2> QED
    BY <1>1, <2>1, <2>2 DEF CheckPos
<1>5. ASSUME Len(name) >= 2
      PROVE  /\ at <= P["sld"] /\ P["sld"] < P["midsld"] /\ P["midsld"] <= P["endsld"]
             /\ P["endsld"] < at + n /\ P["endsld"] = at + n - 1 - name[Len(name)]
  <2>1. PICK l \in Nat \ {0}, s \in Nat \ {0}, q \in Nat :
          l = name[Len(name)] /\ s = name[Len(name) - 1] /\ q = Sld(name)
    <3>1. Len(name) \in 1 .. Len(name)
      BY LabelsAre
    <3> QED
      BY <1>5, <3>1, LabelsAre
  <2>2. q = n - l - 1 - s
    BY <1>1, <2>1 DEF Sld
  <2>3. PICK half \in Int : half = s \div 2
    OBVIOUS
  <2>4. (s # 1 => half >= 1) /\ half <= s
    BY <2>3
  <2>5. M("sld") = at + q /\ M("endsld") = at + q + s
    BY <2>1 DEF HostMark
  <2>6. M("midsld") = IF s = 1 THEN at + q + 1 ELSE at + q + half
    BY <2>1, <2>3, SMTT(30) DEF HostMark
  <2>7. /\ P["sld"] = CheckPos(size, M("sld")) /\ P["midsld"] = CheckPos(size, M("midsld"))
        /\ P["endsld"] = CheckPos(size, M("endsld"))
    BY <1>1, <1>2, <1>5 DEF IsHostMarker
  <2> HIDE DEF M
  <2>8. PICK x \in Int : x = M("midsld")
    BY <2>6
  <2>9. at + q < x /\ x <= at + q + s /\ at + q + s < at + n /\ at + n <= size
    BY <1>1, <2>2, <2>4, <2>6, <2>8
  <2>10. P["sld"] = at + q /\ P["midsld"] = x /\ P["endsld"] = at + q + s
    BY <2>5, <2>7, <2>8, <2>9 DEF CheckPos
  <2>11. at <= at + q /\ at + q + s = at + n - 1 - l
    BY <2>2
  <2> QED
    BY <2>1, <2>9, <2>10, <2>11
<1> QED
  BY <1>1, <1>3, <1>4, <1>5

-----------------------------------------------------------------------------
(* ClientHellos in parts                                                   *)

LEMMA NamedExt ==
  ASSUME NEW exts \in ExtLists, NEW i \in 1 .. Len(exts), exts[i].type = SNI
  PROVE  \E name \in Names : exts[i] = SniExt(name)
<1>1. /\ OtherExt(10, 4).type # SNI /\ OtherExt(23, 0).type # SNI
      /\ OtherExt(PADDING, 3).type # SNI /\ OtherExt(PADDING, 2).type # SNI
  BY OtherExtIs DEF SNI, PADDING
<1>2. CASE exts = <<>> \/ exts = <<OtherExt(10, 4)>>
  BY <1>1, <1>2
<1>3. CASE \E n \in Names : \/ exts = <<SniExt(n)>> \/ exts = <<SniExt(n), OtherExt(10, 4)>>
                            \/ exts = <<OtherExt(23, 0), SniExt(n), OtherExt(PADDING, 3)>>
                            \/ exts = <<OtherExt(PADDING, 2), SniExt(n)>>
  BY <1>1, <1>3
<1> QED
  BY <1>2, <1>3 DEF ExtLists

LEMMA HelloSizes ==
  ASSUME NEW later \in Nat, NEW h \in Hellos(later)
  PROVE  /\ h \in HelloRec /\ h.exts \in ExtLists /\ h.extl = SizeOfExts(h.exts)
         /\ h.exts \in Seq(Ext) /\ OneSni(h.exts)
         /\ \E sid \in Nat, e \in Nat :
              /\ h.sid = sid /\ h.extl = e /\ ExtLenAt(h) = 50 + sid /\ h.rec = 47 + sid + e - later
              /\ h.size = IF later = 0 THEN 52 + sid + e ELSE 57 + sid + e
<1>1. /\ h \in HelloRec /\ h.sid \in 0 .. 255 /\ h.exts \in ExtLists
      /\ ExtLenAt(h) = 50 + h.sid /\ h.extl = SizeOfExts(h.exts) /\ h.extl \in 0 .. 792
      /\ h.hs = 43 + h.sid + h.extl /\ h.rec = 47 + h.sid + h.extl - later
      /\ h.size = IF later = 0 THEN 52 + h.sid + h.extl ELSE 57 + h.sid + h.extl
  BY HelloIs
<1>2. PICK sid \in 0 .. 255, e \in 0 .. 792 : h.sid = sid /\ h.extl = e
  BY <1>1, ZenonT(30)
<1>3. /\ ExtLenAt(h) = 50 + sid /\ h.rec = 47 + sid + e - later
      /\ h.size = IF later = 0 THEN 52 + sid + e ELSE 57 + sid + e
  BY <1>1, <1>2
<1>4. h.exts \in Seq(Ext) /\ OneSni(h.exts)
  BY <1>1, ExtListIs
<1>5. sid \in Nat /\ e \in Nat
  OBVIOUS
<1> QED
  BY <1>1, <1>2, <1>3, <1>4, <1>5, ZenonT(30)

LEMMA HelloPlace ==
  ASSUME NEW later \in Nat, NEW h \in Hellos(later)
  PROVE  \E sid \in Nat : ExtLenAt(h) = 50 + sid
BY HelloSizes, ZenonT(30)

LEMMA HelloSize ==
  ASSUME NEW later \in Nat, NEW h \in Hellos(later)
  PROVE  \E sid \in Nat, e \in Nat : h.size = IF later = 0 THEN 52 + sid + e ELSE 57 + sid + e
<1>1. h.sid \in 0 .. 255 /\ h.extl \in 0 .. 792 /\ h.size = IF later = 0 THEN 52 + h.sid + h.extl ELSE 57 + h.sid + h.extl
  BY HelloIs
<1>2. PICK sid, e : sid = h.sid /\ e = h.extl
  OBVIOUS
<1>3. sid \in Nat /\ e \in Nat
  BY <1>1, <1>2
<1>4. h.size = IF later = 0 THEN 52 + sid + e ELSE 57 + sid + e
  BY <1>1, <1>2
<1> QED
  BY <1>3, <1>4, Zenon

LEMMA HelloExts ==
  ASSUME NEW later \in Nat, NEW h \in Hellos(later)
  PROVE  h \in HelloRec /\ h.exts \in ExtLists /\ h.extl = SizeOfExts(h.exts) /\ h.exts \in Seq(Ext) /\ OneSni(h.exts)
BY HelloSizes, ZenonT(30)

\* the extension i, from behind its header to its end
ExtAt(h, i) == ExtLenAt(h) + 2 + EndsOf(h.exts)[i - 1] + 4
ExtEnd(h, i) == ExtLenAt(h) + 2 + EndsOf(h.exts)[i]
NoExt == [i |-> 0, at |-> 0]

LEMMA FindPart ==
  ASSUME NEW later \in Nat, NEW h \in Hellos(later), NEW sz \in Int, NEW i \in 1 .. Len(h.exts),
         h.exts[i].type = SNI
  PROVE  TLSFindExt(h, sz, SNI, TRUE) =
           IF ExtEnd(h, i) <= sz /\ ExtEnd(h, i) <= h.rec + 5
           THEN [i |-> i, at |-> ExtAt(h, i)] ELSE NoExt
<1> DEFINE a == ExtLenAt(h)
           N == Len(h.exts)
           x == EndsOf(h.exts)
           len == Smaller(sz, h.rec + 5)
           have == len - a - 2
           left == Smaller(have, h.extl)
           w == WalkExts(h.exts, SNI, a + 2, left)
           f == TLSFindExt(h, sz, SNI, TRUE)
<1>1. /\ h \in HelloRec /\ h.exts \in ExtLists /\ h.extl = SizeOfExts(h.exts)
      /\ \E sid \in Nat : a = 50 + sid
  BY HelloExts, HelloPlace, ZenonT(30)
<1>2. h.exts \in Seq(Ext) /\ OneSni(h.exts)
  BY HelloSizes, Zenon
<1>3. /\ N \in Nat /\ x[N] \in Nat /\ h.extl = x[N] /\ x[i] \in Nat /\ x[i] <= x[N]
      /\ x[i - 1] \in Nat /\ x[i] >= 4
  <2>1. /\ N \in Nat /\ SizeOfExts(h.exts) = x[N]
        /\ \A j \in 1 .. N : x[j] = x[j - 1] + 4 + h.exts[j].len /\ h.exts[j].len \in Nat
        /\ \A j \in 0 .. N : x[j] \in Nat /\ x[j] <= x[N]
    BY <1>2, EndsIs, SMTT(30)
  <2>2. i - 1 \in 0 .. N /\ i \in 0 .. N /\ N \in 0 .. N /\ i \in 1 .. N
    BY <2>1
  <2> HIDE DEF x, N
  <2>3. x[i] = x[i - 1] + 4 + h.exts[i].len /\ h.exts[i].len \in Nat /\ x[i - 1] \in Nat
    BY <2>1, <2>2
  <2>4. x[i] >= 4
    <3>1. PICK y \in Nat, z \in Nat : y = x[i - 1] /\ z = h.exts[i].len
      BY <2>3
    <3> QED
      BY <2>3, <3>1, SMTT(30)
  <2>5. x[N] \in Nat /\ x[i] \in Nat /\ x[i] <= x[N]
    BY <2>1, <2>2
  <2> QED
    BY <1>1, <2>1, <2>3, <2>4, <2>5
<1>4. h.rec \in Int
  BY <1>1 DEF HelloRec
<1>5. f = IF ~IsTLSClientHello(h, sz, TRUE) \/ TLSFindExtLen(h, len) = POS_NOT_FOUND THEN NoExt ELSE w
  BY DEF TLSFindExt, NoExt
<1>6. len \in Int /\ \A y \in Int : y <= len <=> y <= sz /\ y <= h.rec + 5
  BY <1>4 DEF Smaller
<1>7. a \in Nat /\ a >= 50
  BY <1>1
<1>8. have \in Int /\ left \in Int /\ \A y \in Int : y <= left <=> y <= have /\ y <= x[N]
  <2> HIDE DEF a, len, x
  <2> QED
    BY <1>3, <1>6, <1>7 DEF Smaller
<1>9. FoundNone(h.exts, SNI, left, w) \/ \E j \in 1 .. N : FoundFirst(h.exts, SNI, a + 2, left, w, j)
  <2>1. a + 2 \in Int /\ left \in Int
    BY <1>7, <1>8
  <2> HIDE DEF a, left
  <2> QED
    BY <1>2, <2>1, WalkIs
<1>10. ExtEnd(h, i) = a + 2 + x[i] /\ ExtAt(h, i) = a + 2 + x[i - 1] + 4
  BY DEF ExtEnd, ExtAt
<1> HIDE DEF a, x, left, w
<1>11. ExtEnd(h, i) <= sz /\ ExtEnd(h, i) <= h.rec + 5 <=> x[i] <= left
  <2>1. x[i] <= left <=> x[i] <= have
    BY <1>3, <1>8
  <2>2. x[i] <= have <=> a + 2 + x[i] <= len
    <3> HIDE DEF len
    <3> QED
      BY <1>3, <1>6, <1>7
  <2>3. a + 2 + x[i] <= len <=> a + 2 + x[i] <= sz /\ a + 2 + x[i] <= h.rec + 5
    <3> HIDE DEF len
    <3> QED
      BY <1>3, <1>6, <1>7, SMTT(30)
  <2> QED
    BY <1>10, <2>1, <2>2, <2>3
<1>12. CASE x[i] <= left
  <2>1. a + 2 + x[i] <= len /\ a + 2 + x[i] <= sz
    <3>1. x[i] <= have
      BY <1>3, <1>8, <1>12
    <3> HIDE DEF len
    <3>2. a + 2 + x[i] <= len /\ a + 2 + x[i] \in Int
      BY <1>3, <1>6, <1>7, <3>1
    <3> QED
      BY <1>6, <3>2
  <2>2. sz >= 11 /\ len >= a + 2
    <3> HIDE DEF len
    <3> QED
      BY <1>3, <1>6, <1>7, <2>1
  <2>3. IsTLSClientHello(h, sz, TRUE) /\ TLSFindExtLen(h, len) # POS_NOT_FOUND
    <3> HIDE DEF len
    <3> QED
      BY <1>7, <2>2 DEF IsTLSClientHello, TLSFindExtLen, POS_NOT_FOUND, a
  <2>4. PICK j \in 1 .. N : FoundFirst(h.exts, SNI, a + 2, left, w, j)
    BY <1>9, <1>12 DEF FoundNone, x
  <2>5. j = i
    BY <1>2, <2>4 DEF OneSni, FoundFirst
  <2>6. w = [i |-> i, at |-> a + 2 + x[i - 1] + 4]
    BY <2>4, <2>5 DEF FoundFirst, x
  <2> HIDE DEF len, f
  <2> QED
    BY <1>5, <1>10, <1>11, <1>12, <2>3, <2>6 DEF f
<1>13. CASE ~(x[i] <= left)
  <2>1. ASSUME NEW j \in 1 .. N, FoundFirst(h.exts, SNI, a + 2, left, w, j) PROVE FALSE
    <3>1. j = i
      BY <1>2, <2>1 DEF OneSni, FoundFirst
    <3> QED
      BY <1>13, <2>1, <3>1 DEF FoundFirst, x
  <2>2. w = NoExt
    BY <1>9, <2>1 DEF FoundNone, NoExt
  <2> HIDE DEF len, f
  <2> QED
    BY <1>5, <1>11, <1>13, <2>2 DEF f
<1> QED
  BY <1>12, <1>13

LEMMA FindNothing ==
  ASSUME NEW later \in Nat, NEW h \in Hellos(later), NEW sz \in Int,
         \A i \in 1 .. Len(h.exts) : h.exts[i].type # SNI
  PROVE  TLSFindExt(h, sz, SNI, TRUE) = NoExt
<1> DEFINE at == ExtLenAt(h) + 2
           left == Smaller(Smaller(sz, h.rec + 5) - ExtLenAt(h) - 2, h.extl)
           w == WalkExts(h.exts, SNI, at, left)
<1>1. h \in HelloRec /\ \E sid \in Nat : ExtLenAt(h) = 50 + sid
  BY HelloExts, HelloPlace, ZenonT(30)
<1>2. h.exts \in Seq(Ext)
  BY HelloSizes, Zenon
<1>3. TLSFindExt(h, sz, SNI, TRUE) \in {NoExt, w}
  BY DEF TLSFindExt, NoExt
<1>4. at \in Int /\ left \in Int
  BY <1>1, SMTT(30) DEF HelloRec, Smaller
<1> HIDE DEF at, left
<1>5. FoundNone(h.exts, SNI, left, w) \/ \E j \in 1 .. Len(h.exts) : FoundFirst(h.exts, SNI, at, left, w, j)
  BY <1>2, <1>4, WalkIs
<1>6. w = NoExt
  BY <1>5 DEF FoundNone, FoundFirst, NoExt
<1> QED
  BY <1>3, <1>6

\* extension i is the one with the name
HasName(h, i, name) == i \in 1 .. Len(h.exts) /\ h.exts[i].type = SNI /\ h.exts[i] = SniExt(name)
Complete(h, i, sz) == ExtEnd(h, i) <= sz /\ ExtEnd(h, i) <= h.rec + 5

LEMMA TlsHostIs ==
  ASSUME NEW later \in Nat, NEW h \in Hellos(later), NEW i, NEW name \in Names, HasName(h, i, name),
         NEW m, NEW pos, NEW sz \in Int
  PROVE  /\ IsHostMarker(m) =>
              TLSPos(m, pos, h, sz) = IF Complete(h, i, sz)
                                      THEN HostPos(m, pos, sz, ExtAt(h, i) + 5, NameLen(name), name)
                                      ELSE POS_NOT_FOUND
         /\ m = "sniext" =>
              TLSPos(m, pos, h, sz) = IF Complete(h, i, sz) THEN CheckPos(sz, ExtAt(h, i) + pos)
                                      ELSE POS_NOT_FOUND
<1> DEFINE f == TLSFindExt(h, sz, SNI, TRUE)
           e == h.exts[f.i]
<1>1. f = IF Complete(h, i, sz) THEN [i |-> i, at |-> ExtAt(h, i)] ELSE NoExt
  BY FindPart DEF HasName, Complete
<1>2. i # 0
  BY DEF HasName
<1>3. CASE Complete(h, i, sz)
  <2>1. f.i = i /\ f.at = ExtAt(h, i)
    <3> HIDE DEF f
    <3> QED
      BY <1>1, <1>3, Fields
  <2>2. e = SniExt(name)
    BY <2>1 DEF HasName
  <2>3. SniOk(e) /\ e.slen = NameLen(name) /\ e.name = name
    <3>1. NameLen(name) \in Nat
      BY LabelsAre
    <3> QED
      BY <2>2, <3>1 DEF SniExt, SniOk
  <2> HIDE DEF e, f
  <2>4. CASE IsHostMarker(m)
    <3>1. m \in {HostMarkers[j] : j \in DOMAIN HostMarkers} /\ m # "sniext" /\ m # "extlen"
      BY <2>4, HostMarkerIs DEF IsHostMarker
    <3>2. TLSPos(m, pos, h, sz) = IF f.i # 0 /\ SniOk(e) THEN HostPos(m, pos, sz, f.at + 5, e.slen, e.name)
                                  ELSE POS_NOT_FOUND
      BY <3>1, Zenon DEF TLSPos, e, f
    <3> QED
      BY <1>2, <1>3, <2>1, <2>3, <3>1, <3>2
  <2>5. CASE m = "sniext"
    <3>1. m \notin {HostMarkers[j] : j \in DOMAIN HostMarkers} /\ ~IsHostMarker(m)
      BY <2>5, HostMarkerIs DEF IsHostMarker
    <3>2. TLSPos(m, pos, h, sz) = IF f.i # 0 THEN CheckPos(sz, f.at + pos) ELSE POS_NOT_FOUND
      BY <2>5, <3>1, Zenon DEF TLSPos, f
    <3> QED
      BY <1>2, <1>3, <2>1, <3>1, <3>2
  <2> QED
    BY <2>4, <2>5
<1>4. CASE ~Complete(h, i, sz)
  <2>1. f.i = 0
    <3> HIDE DEF f
    <3> QED
      BY <1>1, <1>4, Fields DEF NoExt
  <2> HIDE DEF e, f
  <2>2. CASE IsHostMarker(m)
    <3>1. m \in {HostMarkers[j] : j \in DOMAIN HostMarkers} /\ m # "sniext" /\ m # "extlen"
      BY <2>2, HostMarkerIs DEF IsHostMarker
    <3>2. TLSPos(m, pos, h, sz) = IF f.i # 0 /\ SniOk(e) THEN HostPos(m, pos, sz, f.at + 5, e.slen, e.name)
                                  ELSE POS_NOT_FOUND
      BY <3>1, Zenon DEF TLSPos, e, f
    <3> QED
      BY <1>4, <2>1, <3>1, <3>2
  <2>3. CASE m = "sniext"
    <3>1. m \notin {HostMarkers[j] : j \in DOMAIN HostMarkers} /\ ~IsHostMarker(m)
      BY <2>3, HostMarkerIs DEF IsHostMarker
    <3>2. TLSPos(m, pos, h, sz) = IF f.i # 0 THEN CheckPos(sz, f.at + pos) ELSE POS_NOT_FOUND
      BY <2>3, <3>1, Zenon DEF TLSPos, f
    <3> QED
      BY <1>4, <2>1, <3>1, <3>2
  <2> QED
    BY <2>2, <2>3
<1> QED
  BY <1>3, <1>4

\* without a name
LEMMA TlsNoHost ==
  ASSUME NEW later \in Nat, NEW h \in Hellos(later), \A i \in 1 .. Len(h.exts) : h.exts[i].type # SNI,
         NEW m, IsHostMarker(m) \/ m = "sniext", NEW pos, NEW sz \in Int
  PROVE  TLSPos(m, pos, h, sz) = POS_NOT_FOUND
<1> DEFINE f == TLSFindExt(h, sz, SNI, TRUE)
<1>1. f.i = 0
  <2>1. f = [i |-> 0, at |-> 0]
    BY FindNothing DEF NoExt
  <2> HIDE DEF f
  <2> QED
    BY <2>1, Fields
<1> HIDE DEF f
<1>2. CASE IsHostMarker(m)
  <2>1. m \in {HostMarkers[j] : j \in DOMAIN HostMarkers} /\ m # "sniext" /\ m # "extlen"
    BY <1>2, HostMarkerIs DEF IsHostMarker
  <2> QED
    BY <1>1, <2>1, Zenon DEF TLSPos, f
<1>3. CASE m = "sniext"
  <2>1. m \notin {HostMarkers[j] : j \in DOMAIN HostMarkers}
    BY <1>3, HostMarkerIs
  <2> QED
    BY <1>1, <1>3, <2>1, Zenon DEF TLSPos, f
<1> QED
  BY <1>2, <1>3

\* a hello has the name of one of Names, or none
LEMMA NamesOrNot ==
  ASSUME NEW later \in Nat, NEW h \in Hellos(later)
  PROVE  \/ \A i \in 1 .. Len(h.exts) : h.exts[i].type # SNI
         \/ \E i \in 1 .. Len(h.exts), name \in Names : HasName(h, i, name)
<1>1. h.exts \in ExtLists
  BY HelloSizes, Zenon
<1>2. ASSUME NEW i \in 1 .. Len(h.exts), h.exts[i].type = SNI
      PROVE  \E name \in Names : HasName(h, i, name)
  BY <1>1, <1>2, NamedExt DEF HasName
<1> QED
  BY <1>2

LEMMA ExtPlace ==
  ASSUME NEW later \in Nat, NEW h \in Hellos(later), NEW i, NEW name \in Names, HasName(h, i, name)
  PROVE  ExtAt(h, i) \in Nat /\ ExtEnd(h, i) = ExtAt(h, i) + 5 + NameLen(name) /\ NameLen(name) \in Nat \ {0}
<1>1. h.exts \in Seq(Ext) /\ \E sid \in Nat : ExtLenAt(h) = 50 + sid
  BY HelloSizes, ZenonT(30)
<1>0. PICK exts \in Seq(Ext) : exts = h.exts
  BY <1>1
<1> DEFINE x == EndsOf(exts)
           N == Len(exts)
<1>2. /\ N \in Nat /\ \A j \in 1 .. N : x[j] = x[j - 1] + 4 + exts[j].len
      /\ \A j \in 0 .. N : x[j] \in Nat
  <2>1. PICK n : n = N
    OBVIOUS
  <2>2. n \in Nat /\ \A j \in 1 .. n : EndsOf(exts)[j] = EndsOf(exts)[j - 1] + 4 + exts[j].len
    BY <2>1, EndsIs, ZenonT(30)
  <2>3. \A j \in 0 .. n : EndsOf(exts)[j] \in Nat
    BY <2>1, EndsIs, ZenonT(30)
  <2> QED
    BY <2>1, <2>2, <2>3
<1>3. i \in 1 .. N /\ exts[i] = SniExt(name)
  BY <1>0 DEF HasName
<1>4. ExtAt(h, i) = ExtLenAt(h) + 2 + x[i - 1] + 4 /\ ExtEnd(h, i) = ExtLenAt(h) + 2 + x[i]
  BY <1>0 DEF ExtAt, ExtEnd
<1>5. exts[i].len = NameLen(name) + 5 /\ NameLen(name) \in Nat \ {0}
  BY <1>3, LabelsAre DEF SniExt
<1> HIDE DEF x, N
<1>6. i - 1 \in 0 .. N /\ i \in 1 .. N
  BY <1>2, <1>3
<1>7. PICK y \in Nat, a \in Nat, n \in Nat \ {0} : y = x[i - 1] /\ a = ExtLenAt(h) /\ n = NameLen(name)
  <2>1. PICK sid \in Nat : ExtLenAt(h) = 50 + sid
    BY <1>1
  <2>2. ExtLenAt(h) \in Nat
    BY <2>1
  <2>3. x[i - 1] \in Nat
    BY <1>2, <1>6
  <2> QED
    BY <1>5, <2>2, <2>3
<1>8. x[i] = y + 4 + (n + 5)
  BY <1>2, <1>5, <1>6, <1>7
<1>9. ExtAt(h, i) = a + 2 + y + 4 /\ ExtEnd(h, i) = a + 2 + (y + 4 + (n + 5))
  BY <1>4, <1>7, <1>8
<1>10. a + 2 + y + 4 \in Nat /\ a + 2 + (y + 4 + (n + 5)) = a + 2 + y + 4 + 5 + n
  OBVIOUS
<1> QED
  BY <1>7, <1>9, <1>10

LEMMA TlsSteady ==
  ASSUME NEW later \in Nat, NEW h \in Hellos(later), NEW m, NEW pos \in Int,
         NEW sz \in Int, NEW size \in Int, sz <= size
  PROVE  /\ (m = "abs" => pos >= 0) => Steady(TLSPos(m, pos, h, sz), TLSPos(m, pos, h, size))
         /\ InMessage(TLSPos(m, pos, h, sz), sz)
<1>1. CASE m = "extlen"
  <2> DEFINE a == ExtLenAt(h)
  <2>1. a \in Int /\ a # POS_NOT_FOUND
    <3>1. \E sid \in Nat : a = 50 + sid
      BY HelloPlace, ZenonT(30)
    <3> QED
      BY <3>1 DEF POS_NOT_FOUND
  <2>2. \A z : TLSPos(m, pos, h, z) = IF z >= a + 2 THEN CheckPos(z, a + pos) ELSE POS_NOT_FOUND
    <3>1. m \notin {HostMarkers[i] : i \in DOMAIN HostMarkers}
      BY <1>1, HostMarkerIs
    <3>2. \A z : TLSPos(m, pos, h, z) = IF TLSFindExtLen(h, z) # POS_NOT_FOUND
                                        THEN CheckPos(z, TLSFindExtLen(h, z) + pos) ELSE POS_NOT_FOUND
      BY <1>1, <3>1, Zenon DEF TLSPos
    <3>3. \A z : TLSFindExtLen(h, z) = IF z >= a + 2 THEN a ELSE POS_NOT_FOUND
      BY DEF TLSFindExtLen
    <3> HIDE DEF a
    <3> QED
      BY <2>1, <3>2, <3>3
  <2> HIDE DEF a
  <2>3. sz >= a + 2 => size >= a + 2
    BY <2>1
  <2> QED
    BY <2>1, <2>2, <2>3, CheckSteady, NotFoundSteady
<1>2. CASE IsHostMarker(m) \/ m = "sniext"
  <2>0. m # "abs"
    BY <1>2 DEF IsHostMarker
  <2>1. CASE \A i \in 1 .. Len(h.exts) : h.exts[i].type # SNI
    <3>1. TLSPos(m, pos, h, sz) = POS_NOT_FOUND
      BY <1>2, <2>1, TlsNoHost
    <3> QED
      BY <3>1, NotFoundSteady
  <2>2. ASSUME NEW i \in 1 .. Len(h.exts), NEW name \in Names, HasName(h, i, name)
        PROVE  Steady(TLSPos(m, pos, h, sz), TLSPos(m, pos, h, size)) /\ InMessage(TLSPos(m, pos, h, sz), sz)
    <3> DEFINE at == ExtAt(h, i)
               n == NameLen(name)
               ok(z) == Complete(h, i, z)
    <3>1. at \in Nat /\ n \in Nat
      BY <2>2, ExtPlace
    <3>2. ok(sz) => ok(size)
      <4>1. ExtEnd(h, i) \in Int
        BY <2>2, <3>1, ExtPlace
      <4> QED
        BY <4>1 DEF Complete
    <3>3. CASE IsHostMarker(m)
      <4>1. \A z \in Int : TLSPos(m, pos, h, z) = IF ok(z) THEN HostPos(m, pos, z, at + 5, n, name)
                                                  ELSE POS_NOT_FOUND
        BY <2>2, <3>3, TlsHostIs
      <4>2. /\ Steady(HostPos(m, pos, sz, at + 5, n, name), HostPos(m, pos, size, at + 5, n, name))
            /\ InMessage(HostPos(m, pos, sz, at + 5, n, name), sz)
        <5>1. at + 5 \in Int /\ n \in Int
          BY <3>1
        <5> HIDE DEF at, n
        <5> QED
          BY <3>3, <5>1, HostSteady
      <4> HIDE DEF at, n, ok
      <4> QED
        BY <3>2, <4>1, <4>2, NotFoundSteady
    <3>4. CASE m = "sniext"
      <4>1. \A z \in Int : TLSPos(m, pos, h, z) = IF ok(z) THEN CheckPos(z, at + pos) ELSE POS_NOT_FOUND
        BY <2>2, <3>4, TlsHostIs
      <4>2. at + pos \in Int
        BY <3>1
      <4> HIDE DEF at, n, ok
      <4> QED
        BY <3>2, <4>1, <4>2, CheckSteady, NotFoundSteady
    <3> QED
      BY <1>2, <3>3, <3>4
  <2> QED
    BY <2>1, <2>2, NamesOrNot
<1>3. CASE m # "extlen" /\ ~(IsHostMarker(m) \/ m = "sniext")
  <2>1. \A z : TLSPos(m, pos, h, z) = AnyProtoPos(m, pos, z)
    <3>1. m # "extlen" /\ m # "sniext" /\ m \notin {HostMarkers[i] : i \in DOMAIN HostMarkers}
      BY <1>3, HostMarkerIs DEF IsHostMarker
    <3> QED
      BY <3>1, Zenon DEF TLSPos
  <2> QED
    BY <2>1, AbsSteady
<1> QED
  BY <1>1, <1>2, <1>3

-----------------------------------------------------------------------------
(* all messages                                                            *)

\* the four kinds of messages
MessageCases(msg) ==
    \/ \E later \in {0, 3} : msg \in Hellos(later) /\ msg.k = "tls"
    \/ IsRequest(msg)
    \/ msg.k = "other"

LEMMA MessageIs ==
  ASSUME NEW msg \in Messages
  PROVE  MessageCases(msg) /\ msg.size \in Nat \ {0}
<1>1. ASSUME NEW later \in {0, 3}, msg \in Hellos(later) PROVE msg.k = "tls" /\ msg.size \in Nat \ {0}
  <2>1. PICK l \in Nat : l = later
    OBVIOUS
  <2>2. msg \in HelloRec
    BY <1>1, <2>1, HelloExts, Zenon
  <2>3. PICK sid \in Nat, e \in Nat : msg.size = IF l = 0 THEN 52 + sid + e ELSE 57 + sid + e
    <3>1. msg \in Hellos(l)
      BY <1>1, <2>1
    <3> QED
      BY <3>1, HelloSize, ZenonT(30)
  <2>4. msg.k = "tls"
    BY <2>2 DEF HelloRec
  <2> QED
    BY <2>3, <2>4
<1>2. ASSUME msg \in Requests PROVE IsRequest(msg) /\ msg.size \in Nat \ {0}
  <2>1. IsRequest(msg) /\ msg.size \in Int
    BY <1>2, RequestIs
  <2>2. PICK n \in Nat : n = NameLen(msg.name)
    BY <2>1, LabelsAre DEF IsRequest
  <2>3. msg.size = msg.host + 5 + msg.blanks + n + 4 /\ msg.host \in Nat /\ msg.blanks \in 0 .. 1
    BY <2>1, <2>2 DEF IsRequest
  <2> QED
    BY <2>1, <2>3
<1>3. ASSUME msg \in Others PROVE msg.k = "other" /\ msg.size \in Nat \ {0}
  BY <1>3 DEF Others
<1>4. msg \in Hellos(0) \/ msg \in Hellos(3) \/ msg \in Requests \/ msg \in Others
  BY DEF Messages, ManyRecords
<1> QED
  BY <1>1, <1>2, <1>3, <1>4 DEF MessageCases

LEMMA ResolveSteady ==
  ASSUME NEW msg \in Messages, NEW mk \in Markers, NEW sz \in Int, sz <= msg.size
  PROVE  /\ Decided(msg, sz, mk) => Steady(ResolvePos(msg, sz, mk), ResolvePos(msg, msg.size, mk))
         /\ InMessage(ResolvePos(msg, msg.size, mk), msg.size)
<1> DEFINE size == msg.size
<1>1. mk.pos \in Int /\ size \in Int /\ size <= size
  BY MessageIs, ProtocolAssumption DEF Markers
<1>2. ASSUME NEW later \in Nat, msg \in Hellos(later), msg.k = "tls"
      PROVE  /\ Decided(msg, sz, mk) => Steady(ResolvePos(msg, sz, mk), ResolvePos(msg, size, mk))
             /\ InMessage(ResolvePos(msg, size, mk), size)
  <2>1. \A z : ResolvePos(msg, z, mk) = TLSPos(mk.m, mk.pos, msg, z)
    BY <1>2, Zenon DEF ResolvePos
  <2>2. Decided(msg, sz, mk) => (mk.m = "abs" => mk.pos >= 0)
    BY Zenon DEF Decided
  <2>3. /\ (mk.m = "abs" => mk.pos >= 0) => Steady(TLSPos(mk.m, mk.pos, msg, sz), TLSPos(mk.m, mk.pos, msg, size))
        /\ InMessage(TLSPos(mk.m, mk.pos, msg, size), size)
    BY <1>1, <1>2, TlsSteady
  <2> QED
    BY <2>1, <2>2, <2>3
<1>3. ASSUME IsRequest(msg)
      PROVE  /\ Decided(msg, sz, mk) => Steady(ResolvePos(msg, sz, mk), ResolvePos(msg, size, mk))
             /\ InMessage(ResolvePos(msg, size, mk), size)
  <2>1. msg.k = "http"
    BY <1>3 DEF IsRequest
  <2>2. \A z : ResolvePos(msg, z, mk) = HttpPos(mk.m, mk.pos, msg, z)
    BY <2>1, Zenon DEF ResolvePos
  <2>3. HostOffset(msg) = RequestHost(msg)
    BY <2>1 DEF HostOffset, RequestHost
  <2>4. Decided(msg, sz, mk) => /\ mk.m = "abs" => mk.pos >= 0
                                /\ \/ mk.m \in {"host", "method", "abs"}
                                   \/ sz >= RequestHost(msg) + NameLen(msg.name)
    BY <2>1, <2>3, Zenon DEF Decided
  <2>5. size >= RequestHost(msg) + NameLen(msg.name)
    <3>1. msg.name \in Names
      BY <1>3 DEF IsRequest
    <3>2. PICK n \in Nat : n = NameLen(msg.name)
      BY <3>1, LabelsAre
    <3> QED
      BY <1>3, <3>2 DEF IsRequest, RequestHost
  <2>6. ASSUME Decided(msg, sz, mk)
        PROVE  Steady(HttpPos(mk.m, mk.pos, msg, sz), HttpPos(mk.m, mk.pos, msg, size))
    BY <1>1, <1>3, <2>4, <2>6, HttpSteady
  <2>7. InMessage(HttpPos(mk.m, mk.pos, msg, size), size)
    BY <1>1, <1>3, <2>5, HttpSteady
  <2> QED
    BY <2>2, <2>6, <2>7
<1>4. ASSUME msg.k = "other"
      PROVE  /\ Decided(msg, sz, mk) => Steady(ResolvePos(msg, sz, mk), ResolvePos(msg, size, mk))
             /\ InMessage(ResolvePos(msg, size, mk), size)
  <2>1. \A z : ResolvePos(msg, z, mk) = AnyProtoPos(mk.m, mk.pos, z)
    <3>1. msg.k # "http" /\ msg.k # "tls"
      BY <1>4
    <3> QED
      BY <3>1, Zenon DEF ResolvePos
  <2>2. Decided(msg, sz, mk) => (mk.m = "abs" => mk.pos >= 0)
    BY Zenon DEF Decided
  <2>3. /\ (mk.m = "abs" => mk.pos >= 0) => Steady(AnyProtoPos(mk.m, mk.pos, sz), AnyProtoPos(mk.m, mk.pos, size))
        /\ InMessage(AnyProtoPos(mk.m, mk.pos, size), size)
    BY <1>1, AbsSteady
  <2> QED
    BY <2>1, <2>2, <2>3
<1>5. 0 \in Nat /\ 3 \in Nat
  OBVIOUS
<1> QED
  BY <1>2, <1>3, <1>4, <1>5, MessageIs DEF MessageCases

\* a marker does not move while a message arrives
LEMMA MessageStable ==
  ASSUME NEW msg \in Messages
  PROVE  Stable(msg)
<1> SUFFICES ASSUME NEW mk \in Markers, NEW sz \in 1 .. msg.size, Decided(msg, sz, mk)
             PROVE  ResolvePos(msg, sz, mk) \in {POS_NOT_FOUND, ResolvePos(msg, msg.size, mk)}
  BY DEF Stable
<1>1. sz \in Int /\ sz <= msg.size
  BY MessageIs
<1> QED
  BY <1>1, ResolveSteady DEF Steady

\* at most two numbers can be put in order
Ordered(S) == \E s \in [1 .. Cardinality(S) -> S] : \A i, j \in DOMAIN s : i < j => s[i] < s[j]
LEMMA TwoAscending ==
  ASSUME NEW a \in Int, NEW b \in Int, NEW S, S = {} \/ S = {a} \/ S = {b} \/ S = {a, b}
  PROVE  Ordered(S)
<1>1. CASE S = {}
  <2>1. Cardinality(S) = 0
    BY <1>1, FS_EmptySet
  <2>2. [i \in 1 .. 0 |-> 0] \in [1 .. Cardinality(S) -> S]
    BY <2>1
  <2>3. DOMAIN [i \in 1 .. 0 |-> 0] = {}
    OBVIOUS
  <2> QED
    BY <2>2, <2>3 DEF Ordered
<1>2. ASSUME NEW c \in Int, S = {c} PROVE Ordered(S)
  <2>1. Cardinality(S) = 1
    BY <1>2, FS_Singleton
  <2>2. [i \in 1 .. 1 |-> c] \in [1 .. Cardinality(S) -> S]
    BY <1>2, <2>1
  <2>3. \A i, j \in 1 .. 1 : ~(i < j)
    OBVIOUS
  <2> QED
    BY <2>2, <2>3 DEF Ordered
<1>3. ASSUME NEW c \in Int, NEW d \in Int, c < d, S = {c, d}
      PROVE  Ordered(S)
  <2>1. Cardinality(S) = 2
    <3>1. IsFiniteSet({c}) /\ Cardinality({c}) = 1
      BY FS_Singleton
    <3>2. d \notin {c} /\ S = {c} \cup {d}
      BY <1>3
    <3>3. Cardinality({c} \cup {d}) = Cardinality({c}) + 1
      BY <3>1, <3>2, FS_AddElement
    <3> QED
      BY <3>1, <3>2, <3>3
  <2> DEFINE s == [i \in 1 .. 2 |-> IF i = 1 THEN c ELSE d]
  <2>2. s \in [1 .. Cardinality(S) -> S]
    BY <1>3, <2>1
  <2>3. \A i, j \in 1 .. 2 : i < j => i = 1 /\ j = 2
    OBVIOUS
  <2>4. \A i, j \in DOMAIN s : i < j => s[i] < s[j]
    BY <1>3, <2>3
  <2> QED
    BY <2>2, <2>4 DEF Ordered
<1>4. CASE S = {a, b} /\ a # b
  <2>1. CASE a < b
    BY <1>3, <1>4, <2>1
  <2>2. CASE b < a
    <3>1. S = {b, a}
      BY <1>4
    <3> QED
      BY <1>3, <2>2, <3>1
  <2> QED
    BY <1>4, <2>1, <2>2
<1>5. CASE S = {a, b} /\ a = b
  <2>1. S = {a}
    BY <1>5
  <2> QED
    BY <1>2, <2>1
<1> QED
  BY <1>1, <1>2, <1>4, <1>5

LEMMA AscendingIs ==
  ASSUME NEW a \in Int, NEW b \in Int, NEW S, S = {} \/ S = {a} \/ S = {b} \/ S = {a, b}
  PROVE  /\ Ascending(S) \in [1 .. Cardinality(S) -> S]
         /\ \A i, j \in DOMAIN Ascending(S) : i < j => Ascending(S)[i] < Ascending(S)[j]
<1>1. \E s \in [1 .. Cardinality(S) -> S] : \A i, j \in DOMAIN s : i < j => s[i] < s[j]
  BY TwoAscending DEF Ordered
<1> QED
  BY <1>1, Zenon DEF Ascending

LEMMA PairIs ==
  ASSUME NEW x, NEW y, NEW r, r = <<x, y>>
  PROVE  r[1] = x /\ r[2] = y
  OBVIOUS

\* what Lua gets of two markers are cuts inside the message in order
LEMMA MessageCuttable ==
  ASSUME NEW msg \in Messages
  PROVE  Cuttable(msg)
<1> SUFFICES ASSUME NEW mk1 \in Markers, NEW mk2 \in Markers,
                    NEW ps, ps = ResolveMultiPos(msg, msg.size, <<mk1, mk2>>),
                    NEW r, r = resolve_range(msg, msg.size, mk1, mk2, FALSE)
             PROVE  /\ \A i \in DOMAIN ps : ps[i] \in 0 .. msg.size - 1 /\ (i > 1 => ps[i - 1] < ps[i])
                    /\ r # <<>> => 0 <= r[1] /\ r[1] <= r[2] /\ r[2] < msg.size
  BY DEF Cuttable
<1>1. PICK size \in Nat \ {0} : size = msg.size
  BY MessageIs
<1>2. PICK p1 : p1 = ResolvePos(msg, size, mk1)
  OBVIOUS
<1>3. PICK p2 : p2 = ResolvePos(msg, size, mk2)
  OBVIOUS
<1>4. (p1 = -1 \/ p1 \in 0 .. size - 1) /\ (p2 = -1 \/ p2 \in 0 .. size - 1)
  <2>1. size \in Int /\ size <= msg.size
    BY <1>1
  <2> QED
    BY <1>1, <1>2, <1>3, <2>1, ResolveSteady DEF InMessage, POS_NOT_FOUND
<1>5. \A i \in DOMAIN ps : ps[i] \in 0 .. size - 1 /\ (i > 1 => ps[i - 1] < ps[i])
  <2> DEFINE S == {p1, p2} \ {-1}
  <2>1. ps = Ascending(S)
    <3>1. {ResolvePos(msg, size, <<mk1, mk2>>[i]) : i \in DOMAIN <<mk1, mk2>>} = {p1, p2}
      BY <1>2, <1>3
    <3> QED
      BY <1>1, <3>1, Zenon DEF ResolveMultiPos, POS_NOT_FOUND
  <2>2. p1 \in Int /\ p2 \in Int /\ S \subseteq 0 .. size - 1
    BY <1>4
  <2>3. S = {} \/ S = {p1} \/ S = {p2} \/ S = {p1, p2}
    OBVIOUS
  <2> HIDE DEF S
  <2>4. ps \in [1 .. Cardinality(S) -> S] /\ \A i, j \in DOMAIN ps : i < j => ps[i] < ps[j]
    BY <2>1, <2>2, <2>3, AscendingIs
  <2>5. Cardinality(S) \in Nat
    <3>1. IsFiniteSet(S)
      <4>1. IsFiniteSet({}) /\ IsFiniteSet({p1}) /\ IsFiniteSet({p2})
        BY FS_EmptySet, FS_Singleton
      <4>2. IsFiniteSet({p1} \cup {p2}) /\ {p1} \cup {p2} = {p1, p2}
        BY <4>1, FS_AddElement
      <4> QED
        BY <2>3, <4>1, <4>2
    <3> QED
      BY <3>1, FS_CardinalityType
  <2>6. ASSUME NEW i \in DOMAIN ps PROVE ps[i] \in 0 .. size - 1 /\ (i > 1 => ps[i - 1] < ps[i])
    <3>1. ps[i] \in S /\ i \in 1 .. Cardinality(S)
      BY <2>4
    <3>2. ASSUME i > 1 PROVE i - 1 \in DOMAIN ps /\ i - 1 < i
      BY <2>4, <2>5, <3>1, <3>2
    <3> QED
      BY <2>2, <2>4, <3>1, <3>2
  <2> QED
    BY <2>6
<1>6. r # <<>> => 0 <= r[1] /\ r[1] <= r[2] /\ r[2] < size
  <2> DEFINE a == IF p1 = -1 THEN 0 ELSE p1
             b == IF p2 = -1 THEN size - 1 ELSE p2
  <2>1. a \in 0 .. size - 1 /\ b \in 0 .. size - 1
    <3>1. 0 \in 0 .. size - 1 /\ size - 1 \in 0 .. size - 1
      OBVIOUS
    <3>2. CASE p1 = -1
      BY <1>4, <3>1, <3>2
    <3>3. CASE p1 # -1
      BY <1>4, <3>1, <3>3
    <3> QED
      BY <3>2, <3>3
  <2>2. r = <<>> \/ (r = <<a, b>> /\ ~(<<a, b>>[1] > <<a, b>>[2]))
    BY <1>1, <1>2, <1>3, Zenon DEF resolve_range, POS_NOT_FOUND
  <2>3. ASSUME r = <<a, b>>, ~(<<a, b>>[1] > <<a, b>>[2]) PROVE 0 <= r[1] /\ r[1] <= r[2] /\ r[2] < size
    <3> HIDE DEF a, b
    <3>1. PICK x \in 0 .. size - 1, y \in 0 .. size - 1 : x = a /\ y = b
      BY <2>1
    <3>2. r = <<x, y>> /\ ~(<<x, y>>[1] > <<x, y>>[2])
      BY <2>3, <3>1
    <3>3. r[1] = x /\ r[2] = y /\ <<x, y>>[1] = x /\ <<x, y>>[2] = y
      <4>1. <<x, y>>[1] = x /\ <<x, y>>[2] = y
        OBVIOUS
      <4>2. r = <<x, y>>
        BY <3>2
      <4> QED
        BY <4>1, <4>2, Zenon
    <3>4. ~(x > y)
      BY <3>2, <3>3
    <3>5. 0 <= x /\ x <= y /\ y < size
      BY <3>4
    <3> QED
      BY <3>3, <3>5
  <2> QED
    BY <2>2, <2>3
<1> QED
  BY <1>1, <1>5, <1>6

\* a record of what was found
LEMMA FoundIs ==
  ASSUME NEW x, NEW b, NEW at, NEW len, x = [found |-> b, at |-> at, len |-> len]
  PROVE  x.at = at /\ x.len = len
  OBVIOUS

\* host markers around the host, in whole messages
AroundHost(msg, at, name) ==
    LET P(m) == ResolvePos(msg, msg.size, [m |-> m, pos |-> 0])
    IN  /\ P("host") = at /\ P("endhost") \in {at + NameLen(name), POS_NOT_FOUND}
        /\ Len(name) >= 2 =>
             /\ P("host") <= P("sld") /\ P("sld") < P("midsld") /\ P("midsld") <= P("endsld")
             /\ P("endsld") < at + NameLen(name)
             /\ P("endsld") = at + NameLen(name) - 1 - name[Len(name)]

LEMMA AroundIs ==
  ASSUME NEW msg, NEW name \in Names, NEW at \in Nat, msg.size \in Int, at + NameLen(name) <= msg.size,
         \A m : IsHostMarker(m) =>
                 ResolvePos(msg, msg.size, [m |-> m, pos |-> 0])
                   = HostPos(m, 0, msg.size, at, NameLen(name), name)
  PROVE  AroundHost(msg, at, name)
<1> DEFINE P == [m \in {"host", "sld", "midsld", "endsld", "endhost"} |->
                   ResolvePos(msg, msg.size, [m |-> m, pos |-> 0])]
<1>1. \A m : IsHostMarker(m) => P[m] = ResolvePos(msg, msg.size, [m |-> m, pos |-> 0])
  BY DEF IsHostMarker
<1>2. \A m : IsHostMarker(m) => P[m] = HostPos(m, 0, msg.size, at, NameLen(name), name)
  BY <1>1
<1>3. /\ P["host"] = ResolvePos(msg, msg.size, [m |-> "host", pos |-> 0])
      /\ P["endhost"] = ResolvePos(msg, msg.size, [m |-> "endhost", pos |-> 0])
      /\ P["sld"] = ResolvePos(msg, msg.size, [m |-> "sld", pos |-> 0])
      /\ P["midsld"] = ResolvePos(msg, msg.size, [m |-> "midsld", pos |-> 0])
      /\ P["endsld"] = ResolvePos(msg, msg.size, [m |-> "endsld", pos |-> 0])
  BY <1>1 DEF IsHostMarker
<1> HIDE DEF P
<1>4. /\ P["host"] = at /\ P["endhost"] \in {at + NameLen(name), POS_NOT_FOUND}
      /\ Len(name) >= 2 =>
           /\ P["host"] <= P["sld"] /\ P["sld"] < P["midsld"] /\ P["midsld"] <= P["endsld"]
           /\ P["endsld"] < at + NameLen(name)
           /\ P["endsld"] = at + NameLen(name) - 1 - name[Len(name)]
  BY <1>2, HostAround
<1> QED
  BY <1>3, <1>4, Zenon DEF AroundHost

LEMMA MarkIs ==
  ASSUME NEW m, NEW pos
  PROVE  [m |-> m, pos |-> pos].m = m /\ [m |-> m, pos |-> pos].pos = pos
  OBVIOUS

\* the name is in the message, or in its first record
Here(msg) ==
    /\ HostOffset(msg) # 0
    /\ HostOffset(msg) + NameLen(HostOf(msg)) <= IF msg.k = "tls" THEN msg.rec + 5 ELSE msg.size

\* AroundHost is what Around asks for
LEMMA AroundBy ==
  ASSUME NEW msg, NEW name, HostOf(msg) = name,
         Here(msg) => AroundHost(msg, HostOffset(msg), name),
         Here(msg) =>
           (IF msg.k = "http" THEN HttpExtractHost(msg, msg.size) ELSE TLSHelloExtractHost(msg, msg.size, TRUE))
             = [found |-> TRUE, at |-> HostOffset(msg), len |-> NameLen(name)]
  PROVE  Around(msg)
<1> DEFINE x == IF msg.k = "http" THEN HttpExtractHost(msg, msg.size) ELSE TLSHelloExtractHost(msg, msg.size, TRUE)
           at(i) == ResolvePos(msg, msg.size, [m |-> HostMarkers[i], pos |-> 0])
<1>1. CASE ~Here(msg)
  BY <1>1, Zenon DEF Around, Here
<1>2. CASE Here(msg)
  <2>1. PICK o, n : o = HostOffset(msg) /\ n = NameLen(name)
    OBVIOUS
  <2>2. x = [found |-> TRUE, at |-> o, len |-> n]
    BY <1>2, <2>1
  <2>3. x.at = o /\ x.len = n
    <3> HIDE DEF x
    <3> QED
      BY <2>2, FoundIs
  <2>4. /\ HostMarkers[1] = "host" /\ HostMarkers[2] = "sld" /\ HostMarkers[3] = "midsld"
        /\ HostMarkers[4] = "endsld" /\ HostMarkers[5] = "endhost"
    BY DEF HostMarkers
  <2>5. AroundHost(msg, o, name)
    BY <1>2, <2>1
  <2>6. /\ at(1) = o /\ at(5) \in {o + n, POS_NOT_FOUND}
        /\ Len(name) >= 2 => /\ at(1) <= at(2) /\ at(2) < at(3) /\ at(3) <= at(4)
                             /\ at(4) < o + n /\ at(4) = o + n - 1 - name[Len(name)]
    BY <2>1, <2>4, <2>5, Zenon DEF AroundHost
  <2> HIDE DEF at, x
  <2>7. /\ x = [found |-> TRUE, at |-> HostOffset(msg), len |-> NameLen(HostOf(msg))]
        /\ at(1) = x.at /\ at(5) \in {x.at + x.len, POS_NOT_FOUND}
        /\ Len(HostOf(msg)) >= 2 =>
             /\ at(1) <= at(2) /\ at(2) < at(3) /\ at(3) <= at(4) /\ at(4) < x.at + x.len
             /\ at(4) = x.at + x.len - 1 - HostOf(msg)[Len(HostOf(msg))]
    BY <2>1, <2>2, <2>3, <2>6, Zenon
  <2> QED
    BY <2>7, Zenon DEF Around, at, x
<1> QED
  BY <1>1, <1>2

LEMMA RequestAround ==
  ASSUME NEW r, IsRequest(r), r.size \in Int
  PROVE  Around(r)
<1> DEFINE at == RequestHost(r)
           n == NameLen(r.name)
<1>1. r.k = "http" /\ r.name \in Names /\ r.host \in Nat /\ r.blanks \in 0 .. 1 /\ r.size = at + n + 4
  BY DEF IsRequest, RequestHost
<1>2. n \in Nat \ {0}
  BY <1>1, LabelsAre
<1>3. at \in Nat /\ at >= r.host + 5 /\ at = r.host + 5 + r.blanks
  BY <1>1 DEF RequestHost
<1>4. HostOffset(r) = at /\ HostOf(r) = r.name
  BY <1>1 DEF HostOffset, RequestHost, HostOf
<1>5. HttpExtractHost(r, r.size) = [found |-> TRUE, at |-> at, len |-> n]
  <2>1. r.host + 5 <= r.size /\ at < r.size /\ Smaller(n, r.size - at) = n
    <3> HIDE DEF at, n
    <3> QED
      BY <1>1, <1>2, <1>3 DEF Smaller
  <2> QED
    BY <2>1 DEF HttpExtractHost, RequestHost
<1>6. AroundHost(r, at, r.name)
  <2>1. ASSUME NEW m, IsHostMarker(m)
        PROVE  ResolvePos(r, r.size, [m |-> m, pos |-> 0]) = HostPos(m, 0, r.size, at, n, r.name)
    <3>1. ResolvePos(r, r.size, [m |-> m, pos |-> 0]) = HttpPos(m, 0, r, r.size)
      BY <1>1, MarkIs, Zenon DEF ResolvePos
    <3>2. r.size >= at + n /\ r.host + 7 < r.size
      <4> HIDE DEF at, n
      <4> QED
        BY <1>1, <1>2, <1>3
    <3>3. HttpPos(m, 0, r, r.size) = HostPos(m, 0, r.size, at, n, r.name)
      BY <2>1, <3>2, HttpHostIs
    <3> QED
      BY <3>1, <3>3
  <2>2. at + n <= r.size
    <3> HIDE DEF at, n
    <3> QED
      BY <1>1, <1>2, <1>3
  <2> HIDE DEF at
  <2> QED
    BY <1>1, <1>3, <2>1, <2>2, AroundIs
<1> QED
  BY <1>1, <1>4, <1>5, <1>6, AroundBy

LEMMA SizeBefore ==
  ASSUME NEW exts \in Seq(Ext), NEW i \in 1 .. Len(exts)
  PROVE  SizeOfExts(SubSeq(exts, 1, i - 1)) = EndsOf(exts)[i - 1]
<1> DEFINE n == Len(exts)
           k == i - 1
           sub == SubSeq(exts, 1, k)
           s == ExtSizes(exts)
           t == ExtSizes(sub)
<1>1. n \in Nat /\ k \in Nat /\ k <= n /\ k <= k
  OBVIOUS
<1>2. sub \in Seq(Ext) /\ Len(sub) = k /\ \A j \in 1 .. k : sub[j] = exts[j]
  BY <1>1
<1> HIDE DEF n, k, sub
<1>3. s \in [1 .. n -> Int] /\ \A j \in 1 .. n : s[j] = 4 + exts[j].len
  BY EndsIs DEF n
<1>4. t \in [1 .. k -> Int] /\ \A j \in 1 .. k : t[j] = 4 + sub[j].len
  BY <1>2, EndsIs
<1>5. \A j \in 1 .. k : s[j] = t[j]
  BY <1>1, <1>2, <1>3, <1>4, SMTT(30)
<1>6. Len(t) = k
  BY <1>1, <1>4
<1> HIDE DEF s, t
<1>7. Sums(s)[k] = Sums(t)[k]
  BY <1>1, <1>3, <1>4, <1>5, SumsSame
<1>8. SizeOfExts(sub) = Sums(t)[k]
  BY <1>6, Zenon DEF SizeOfExts, Total, t
<1> QED
  BY <1>7, <1>8, Zenon DEF EndsOf, sub, s, k

LEMMA HelloHost ==
  ASSUME NEW later \in Nat, NEW h \in Hellos(later), h.k = "tls", NEW i, NEW name \in Names, HasName(h, i, name)
  PROVE  HostOffset(h) = ExtAt(h, i) + 5 /\ HostOf(h) = name
<1>1. PICK exts \in Seq(Ext) : exts = h.exts /\ OneSni(exts)
  BY HelloSizes, Zenon
<1>2. i \in 1 .. Len(exts) /\ exts[i].type = SNI /\ exts[i] = SniExt(name)
  BY <1>1 DEF HasName
<1>3. \A j \in 1 .. Len(exts) : exts[j].type = SNI => j = i
  BY <1>1, <1>2 DEF OneSni
<1>4. DOMAIN exts = 1 .. Len(exts)
  OBVIOUS
<1>5. HostOf(h) = name
  <2>1. exts[i].name = name
    BY <1>2, SniExtIs
  <2>2. Named(h, i, name)
    BY <1>1, <1>2, <1>3, <2>1, Zenon DEF Named
  <2> QED
    BY <1>1, <2>2, NamedHost, Zenon
<1>6. (CHOOSE j \in DOMAIN exts : exts[j].type = SNI) = i
  BY <1>2, <1>3, <1>4
<1>7. HostOffset(h) = ExtLenAt(h) + 2 + SizeOfExts(SubSeq(exts, 1, i - 1)) + 9
  <2>1. h.k # "http" /\ \E j \in DOMAIN exts : exts[j].type = SNI
    BY <1>2, <1>4
  <2> QED
    BY <1>1, <1>6, <2>1, Zenon DEF HostOffset
<1>8. SizeOfExts(SubSeq(exts, 1, i - 1)) = EndsOf(exts)[i - 1]
  BY <1>2, SizeBefore
<1>9. PICK a \in Nat : a = ExtLenAt(h)
  <2>1. PICK sid \in Nat : ExtLenAt(h) = 50 + sid
    BY HelloSizes, ZenonT(30)
  <2> QED
    BY <2>1
<1>10. EndsOf(exts)[i - 1] \in Nat
  <2>1. \A j \in 0 .. Len(exts) : EndsOf(exts)[j] \in Nat
    BY EndsIs, ZenonT(30)
  <2>2. i - 1 \in 0 .. Len(exts)
    BY <1>2
  <2> QED
    BY <2>1, <2>2
<1>11. PICK y \in Nat : y = EndsOf(exts)[i - 1]
  BY <1>10
<1>12. HostOffset(h) = a + 2 + y + 9 /\ ExtAt(h, i) = a + 2 + y + 4
  BY <1>1, <1>7, <1>8, <1>9, <1>11, Zenon DEF ExtAt
<1>13. a + 2 + y + 9 = a + 2 + y + 4 + 5
  OBVIOUS
<1> QED
  BY <1>5, <1>12, <1>13

LEMMA HelloAround ==
  ASSUME NEW later \in {0, 3}, NEW h \in Hellos(later), h.k = "tls"
  PROVE  Around(h)
<1>0. later \in Nat
  OBVIOUS
<1>1. CASE \A i \in 1 .. Len(h.exts) : h.exts[i].type # SNI
  <2>1. DOMAIN h.exts = 1 .. Len(h.exts)
    <3>1. h.exts \in Seq(Ext)
      BY <1>0, HelloSizes, Zenon
    <3> QED
      BY <3>1
  <2>2. HostOffset(h) = 0
    <3>1. h.k # "http"
      OBVIOUS
    <3> QED
      BY <1>1, <2>1, <3>1, Zenon DEF HostOffset
  <2>3. ~Here(h)
    BY <2>2 DEF Here
  <2> QED
    BY <2>3, AroundBy
<1>2. ASSUME NEW i, NEW name \in Names, HasName(h, i, name), Here(h)
      PROVE  /\ AroundHost(h, HostOffset(h), name)
             /\ TLSHelloExtractHost(h, h.size, TRUE)
                  = [found |-> TRUE, at |-> HostOffset(h), len |-> NameLen(name)]
  <2>1. PICK at \in Nat, n \in Nat \ {0} : ExtAt(h, i) = at /\ NameLen(name) = n /\ ExtEnd(h, i) = at + 5 + n
    BY <1>0, <1>2, ExtPlace
  <2>2. HostOffset(h) = at + 5 /\ HostOf(h) = name
    BY <1>0, <1>2, <2>1, HelloHost, Zenon
  <2>3. at + 5 + n <= h.rec + 5
    BY <1>2, <2>1, <2>2, Zenon DEF Here
  <2>4. PICK sid \in Nat, e \in Nat :
          /\ h.sid = sid /\ h.extl = e /\ ExtLenAt(h) = 50 + sid /\ h.rec = 47 + sid + e - later
          /\ h.size = IF later = 0 THEN 52 + sid + e ELSE 57 + sid + e
    BY <1>0, HelloSizes, ZenonT(30)
  <2>5. h.size \in Int /\ at + 5 + n <= h.size
    BY <2>3, <2>4
  <2>6. Complete(h, i, h.size)
    BY <2>1, <2>3, <2>5 DEF Complete
  <2>7. ASSUME NEW m, IsHostMarker(m)
        PROVE  ResolvePos(h, h.size, [m |-> m, pos |-> 0]) = HostPos(m, 0, h.size, at + 5, NameLen(name), name)
    <3>1. ResolvePos(h, h.size, [m |-> m, pos |-> 0]) = TLSPos(m, 0, h, h.size)
      <4>1. h.k # "http"
        OBVIOUS
      <4> QED
        BY <4>1, MarkIs, Zenon DEF ResolvePos
    <3>2. TLSPos(m, 0, h, h.size) = HostPos(m, 0, h.size, ExtAt(h, i) + 5, NameLen(name), name)
      BY <1>0, <1>2, <2>5, <2>6, <2>7, TlsHostIs
    <3> QED
      BY <2>1, <3>1, <3>2
  <2>8. AroundHost(h, at + 5, name)
    <3>1. at + 5 \in Nat /\ at + 5 + NameLen(name) <= h.size
      BY <2>1, <2>5
    <3> QED
      BY <2>5, <2>7, <3>1, AroundIs
  <2>9. TLSHelloExtractHost(h, h.size, TRUE) = [found |-> TRUE, at |-> at + 5, len |-> n]
    <3> DEFINE f == TLSFindExt(h, h.size, SNI, TRUE)
    <3>1. f = [i |-> i, at |-> at]
      BY <1>0, <1>2, <2>1, <2>5, <2>6, FindPart, Zenon DEF HasName, Complete
    <3> HIDE DEF f
    <3>2. f.i = i /\ f.at = at
      BY <3>1, Fields
    <3>3. i # 0 /\ h.exts[i] = SniExt(name)
      BY <1>2 DEF HasName
    <3>4. SniOk(SniExt(name)) /\ SniExt(name).slen = n
      BY <2>1 DEF SniExt, SniOk
    <3> QED
      BY <3>2, <3>3, <3>4 DEF TLSHelloExtractHost, f
  <2> QED
    BY <2>1, <2>2, <2>8, <2>9
<1>3. ASSUME NEW i, NEW name \in Names, HasName(h, i, name) PROVE Around(h)
  <2>1. HostOf(h) = name
    BY <1>0, <1>3, HelloHost, Zenon
  <2>2. h.k # "http"
    OBVIOUS
  <2> QED
    BY <1>2, <1>3, <2>1, <2>2, AroundBy
<1> QED
  BY <1>0, <1>1, <1>3, NamesOrNot

LEMMA MessageAround ==
  ASSUME NEW msg \in Messages
  PROVE  Around(msg)
<1>1. msg.size \in Int
  BY MessageIs
<1>2. CASE msg.k = "other"
  BY <1>2, Zenon DEF Around
<1> QED
  BY <1>1, <1>2, MessageIs, RequestAround, HelloAround DEF MessageCases

\* Markers do not move while a message arrives, lie around the host, and cut the
\* message in order (resolve_pos and its relatives).
THEOREM MarkersStay == CallSpec => []MarkersAreStable
<1>1. ASSUME call = NoCall \/ CallInit PROVE MarkersAreStable
  <2> SUFFICES ASSUME call.k = "message" PROVE Stable(call.m) /\ Around(call.m) /\ Cuttable(call.m)
    BY DEF MarkersAreStable
  <2>1. PICK m \in Messages : call = [k |-> "message", m |-> m]
    <3>1. CASE call = NoCall
      BY <3>1 DEF NoCall
    <3>2. CASE \E p \in Whole \cup Parts : call = [k |-> "packet", p |-> p]
      BY <3>2
    <3>3. CASE \E h \in Hellos(0), mod \in Mods, payload \in Payloads, room \in {0, 9} :
             call = [k |-> "tls_mod", h |-> h, mod |-> mod, payload |-> payload, room |-> room]
      BY <3>3
    <3>4. CASE \E fs \in FrameSeqs : call = [k |-> "crypto", fs |-> fs]
      BY <3>4
    <3> QED
      BY <1>1, <3>1, <3>2, <3>3, <3>4, Zenon DEF CallInit
  <2>2. call.m = m
    BY <2>1
  <2> QED
    BY <2>2, MessageStable, MessageAround, MessageCuttable
<1>2. MarkersAreStable /\ UNCHANGED call => MarkersAreStable'
  BY DEF MarkersAreStable
<1> QED
  BY <1>1, <1>2, PTL DEF CallSpec

-----------------------------------------------------------------------------
(* The command line as it is written                                       *)

\* What is given up to a position, from what is given up to the one before.
LEMMA PlacesStep ==
  ASSUME NEW c, NEW names, NEW k \in Nat
  PROVE  /\ Places(c, names, 0) = {} /\ Places(c, names, k) \subseteq 1 .. k
         /\ c[k + 1].o = "new" =>
              Places(c, names, k + 1) = IF "new" \in names THEN {k + 1} ELSE {}
         /\ c[k + 1].o # "new" =>
              Places(c, names, k + 1) =
                Places(c, names, k) \cup (IF c[k + 1].o \in names THEN {k + 1} ELSE {})
<1>1. \A p \in Nat : Places(c, names, p) \subseteq 1 .. p
  BY DEF Places
<1>2. Places(c, names, 0) = {}
  <2>1. 1 .. 0 = {} /\ 0 \in Nat
    OBVIOUS
  <2> QED
    BY <1>1, <2>1
<1>3. k + 1 \in Nat /\ k + 1 \in 1 .. k + 1 /\ k + 1 + 1 .. k + 1 = {}
  OBVIOUS
<1>4. k + 1 \in Places(c, names, k + 1) <=> c[k + 1].o \in names
  BY <1>3 DEF Places
<1>5. ASSUME NEW i \in 1 .. k
      PROVE  i \in Places(c, names, k + 1) <=> i \in Places(c, names, k) /\ c[k + 1].o # "new"
  <2>1. i + 1 .. k + 1 = (i + 1 .. k) \cup {k + 1} /\ i \in 1 .. k + 1
    OBVIOUS
  <2>2. (\A j \in i + 1 .. k + 1 : c[j].o # "new")
          <=> (\A j \in i + 1 .. k : c[j].o # "new") /\ c[k + 1].o # "new"
    BY <2>1
  <2> QED
    BY <2>1, <2>2 DEF Places
<1>6. \A x \in Places(c, names, k + 1) : x \in 1 .. k \/ x = k + 1
  BY <1>1, <1>3
<1>7. Places(c, names, k) \subseteq 1 .. k
  BY <1>1
<1> QED
  BY <1>2, <1>4, <1>5, <1>6, <1>7, Zenon

LEMMA LastValueIs ==
  ASSUME NEW c, NEW d, NEW k \in Nat, NEW ps \in SUBSET (1 .. k)
  PROVE  LastValue(c, {}, d) = d /\ LastValue(c, ps \cup {k + 1}, d) = c[k + 1].v
<1>1. LastValue(c, {}, d) = d
  BY DEF LastValue
<1>2. (CHOOSE i \in ps \cup {k + 1} : \A j \in ps \cup {k + 1} : j <= i) = k + 1
  <2>1. \A j \in ps \cup {k + 1} : j <= k + 1
    OBVIOUS
  <2>2. \A i \in ps \cup {k + 1} : (\A j \in ps \cup {k + 1} : j <= i) => i = k + 1
    OBVIOUS
  <2> QED
    BY <2>1, <2>2
<1> QED
  BY <1>1, <1>2 DEF LastValue

LEMMA NameStep ==
  ASSUME NEW c, NEW k \in Nat
  PROVE  /\ NameAt(c, 0) = NoName
         /\ c[k + 1].o = "new" => NameAt(c, k + 1) = c[k + 1].v
         /\ c[k + 1].o \in {"template", "name"} =>
              NameAt(c, k + 1) = IF c[k + 1].v = NoName THEN NameAt(c, k) ELSE c[k + 1].v
         /\ c[k + 1].o \notin {"new", "template", "name"} => NameAt(c, k + 1) = NameAt(c, k)
<1> DEFINE names == {"new", "template", "name"}
           S(p) == {i \in Places(c, names, p) : c[i].v # NoName}
<1>1. /\ Places(c, names, 0) = {} /\ Places(c, names, k) \subseteq 1 .. k
      /\ c[k + 1].o = "new" => Places(c, names, k + 1) = {k + 1}
      /\ c[k + 1].o # "new" => Places(c, names, k + 1) =
              Places(c, names, k) \cup (IF c[k + 1].o \in names THEN {k + 1} ELSE {})
  <2>1. "new" \in names
    OBVIOUS
  <2> HIDE DEF names
  <2> QED
    BY <2>1, PlacesStep
<1>2. \A p : NameAt(c, p) = LastValue(c, S(p), NoName)
  BY DEF NameAt
<1>3. /\ S(0) = {} /\ S(k) \in SUBSET (1 .. k)
      /\ c[k + 1].o = "new" => S(k + 1) = IF c[k + 1].v = NoName THEN {} ELSE {k + 1}
      /\ c[k + 1].o # "new" => S(k + 1) =
              S(k) \cup (IF c[k + 1].o \in names /\ c[k + 1].v # NoName THEN {k + 1} ELSE {})
  <2> HIDE DEF names
  <2> QED
    BY <1>1
<1> HIDE DEF S
<1>4. /\ LastValue(c, {}, NoName) = NoName
      /\ LastValue(c, {k + 1}, NoName) = c[k + 1].v
      /\ LastValue(c, S(k) \cup {k + 1}, NoName) = c[k + 1].v
  <2>1. {} \in SUBSET (1 .. k) /\ {} \cup {k + 1} = {k + 1} /\ S(k) \in SUBSET (1 .. k)
    BY <1>3
  <2>2. LastValue(c, {} \cup {k + 1}, NoName) = c[k + 1].v /\ LastValue(c, {}, NoName) = NoName
    BY <2>1, LastValueIs
  <2>3. LastValue(c, S(k) \cup {k + 1}, NoName) = c[k + 1].v
    BY <2>1, LastValueIs
  <2> QED
    BY <2>1, <2>2, <2>3
<1>5. S(k) \cup {} = S(k)
  OBVIOUS
<1> QED
  BY <1>2, <1>3, <1>4, <1>5

LEMMA InForceStep ==
  ASSUME NEW c, NEW k \in Nat, NEW f \in InFields
  PROVE  /\ InForce(c, f, 0) = InProfile[f]
         /\ c[k + 1].o = "new" => InForce(c, f, k + 1) = InProfile[f]
         /\ c[k + 1].o = f => InForce(c, f, k + 1) = c[k + 1].v
         /\ c[k + 1].o \notin {"new", f} => InForce(c, f, k + 1) = InForce(c, f, k)
<1>1. "new" \notin {f} /\ f # "new"
  BY DEF InFields
<1> DEFINE S(p) == Places(c, {f}, p)
<1>2. /\ S(0) = {} /\ S(k) \in SUBSET (1 .. k)
      /\ c[k + 1].o = "new" => S(k + 1) = IF "new" \in {f} THEN {k + 1} ELSE {}
      /\ c[k + 1].o # "new" => S(k + 1) = S(k) \cup (IF c[k + 1].o \in {f} THEN {k + 1} ELSE {})
  BY PlacesStep, Zenon
<1>3. \A p : InForce(c, f, p) = LastValue(c, S(p), InProfile[f])
  BY DEF InForce
<1>4. /\ LastValue(c, {}, InProfile[f]) = InProfile[f]
      /\ LastValue(c, S(k) \cup {k + 1}, InProfile[f]) = c[k + 1].v
  <2>1. {} \in SUBSET (1 .. k) /\ S(k) \in SUBSET (1 .. k)
    BY <1>2
  <2> HIDE DEF S
  <2> QED
    BY <2>1, LastValueIs, Zenon
<1> HIDE DEF S
<1>5. /\ S(0) = {} /\ S(k) \cup {} = S(k)
      /\ c[k + 1].o = "new" => S(k + 1) = {}
      /\ c[k + 1].o = f => S(k + 1) = S(k) \cup {k + 1}
      /\ c[k + 1].o \notin {"new", f} => S(k + 1) = S(k)
  BY <1>1, <1>2
<1> QED
  BY <1>3, <1>4, <1>5

LEMMA FlagStep ==
  ASSUME NEW c, NEW k \in Nat
  PROVE  /\ ~IsSkipped(c, 0) /\ ~IsTemplate(c, 0)
         /\ c[k + 1].o = "new" => ~IsSkipped(c, k + 1) /\ ~IsTemplate(c, k + 1)
         /\ c[k + 1].o # "new" =>
              /\ IsSkipped(c, k + 1) <=> IsSkipped(c, k) \/ c[k + 1].o = "skip"
              /\ IsTemplate(c, k + 1) <=> IsTemplate(c, k) \/ c[k + 1].o = "template"
<1>1. ASSUME NEW name, name # "new"
      PROVE  /\ Places(c, {name}, 0) = {}
             /\ c[k + 1].o = "new" => Places(c, {name}, k + 1) = {}
             /\ c[k + 1].o # "new" =>
                  (Places(c, {name}, k + 1) # {} <=> Places(c, {name}, k) # {} \/ c[k + 1].o = name)
  <2>1. /\ Places(c, {name}, 0) = {}
        /\ c[k + 1].o = "new" => Places(c, {name}, k + 1) = IF "new" \in {name} THEN {k + 1} ELSE {}
        /\ c[k + 1].o # "new" => Places(c, {name}, k + 1) =
             Places(c, {name}, k) \cup (IF c[k + 1].o \in {name} THEN {k + 1} ELSE {})
    BY PlacesStep, Zenon
  <2>2. ASSUME c[k + 1].o = "new" PROVE Places(c, {name}, k + 1) = {}
    BY <1>1, <2>1, <2>2
  <2>3. ASSUME c[k + 1].o # "new"
        PROVE  Places(c, {name}, k + 1) # {} <=> (Places(c, {name}, k) # {} \/ c[k + 1].o = name)
    BY <1>1, <2>1, <2>3
  <2> QED
    BY <2>1, <2>2, <2>3
<1>2. "skip" # "new" /\ "template" # "new"
  OBVIOUS
<1> QED
  BY <1>1, <1>2, Zenon DEF IsSkipped, IsTemplate

-----------------------------------------------------------------------------
(* Sections                                                                *)

LEMMA EndsStep ==
  ASSUME NEW c, Len(c) \in Nat, NEW k \in 0 .. Len(c)
  PROVE  /\ ProfileEnds(c, 0) = {} /\ TemplateEnds(c, 0) = {}
         /\ c[k + 1].o # "new" /\ k # Len(c) => /\ ProfileEnds(c, k + 1) = ProfileEnds(c, k)
                                                 /\ TemplateEnds(c, k + 1) = TemplateEnds(c, k)
         /\ c[k + 1].o = "new" \/ k = Len(c) =>
              /\ ProfileEnds(c, k + 1) =
                   ProfileEnds(c, k) \cup (IF IsTemplate(c, k) \/ IsSkipped(c, k) THEN {} ELSE {k})
              /\ TemplateEnds(c, k + 1) =
                   TemplateEnds(c, k) \cup (IF IsTemplate(c, k) /\ ~IsSkipped(c, k) THEN {k} ELSE {})
<1>1. 0 .. 0 - 1 = {}
  OBVIOUS
<1> QED
  BY <1>1 DEF ProfileEnds, TemplateEnds, IsEnd

LEMMA NumberStep ==
  ASSUME NEW c, Len(c) \in Nat, NEW k \in 0 .. Len(c)
  PROVE  /\ Number(c, 0) = 1 /\ Number(c, k) \in Nat /\ Number(c, k) > 0
         /\ c[k + 1].o # "new" /\ k # Len(c) => Number(c, k + 1) = Number(c, k)
         /\ c[k + 1].o = "new" \/ k = Len(c) =>
              Number(c, k + 1) = IF IsTemplate(c, k) \/ IsSkipped(c, k)
                                 THEN Number(c, k) ELSE Number(c, k) + 1
<1> DEFINE P == ProfileEnds(c, k)
<1>1. P \subseteq 0 .. k - 1 /\ k \notin P
  BY DEF ProfileEnds
<1>2. IsFiniteSet(P) /\ Cardinality(P) \in Nat
  <2>1. IsFiniteSet(0 .. k - 1)
    BY FS_Interval
  <2> HIDE DEF P
  <2> QED
    BY <1>1, <2>1, FS_Subset, FS_CardinalityType
<1>3. Cardinality(P \cup {k}) = Cardinality(P) + 1
  <2> HIDE DEF P
  <2> QED
    BY <1>1, <1>2, FS_AddElement
<1>4. Number(c, k) = 1 + Cardinality(P) /\ Number(c, k + 1) = 1 + Cardinality(ProfileEnds(c, k + 1))
  BY DEF Number
<1>5. Number(c, 0) = 1
  <2> HIDE DEF P
  <2>1. ProfileEnds(c, 0) = {}
    BY EndsStep
  <2>2. Cardinality({}) = 0
    BY FS_EmptySet
  <2>3. Number(c, 0) = 1 + Cardinality(ProfileEnds(c, 0))
    BY DEF Number
  <2>4. Cardinality(ProfileEnds(c, 0)) = 0
    BY <2>1, <2>2, Zenon
  <2> QED
    BY <2>3, <2>4
<1>6. ASSUME c[k + 1].o # "new", k # Len(c) PROVE ProfileEnds(c, k + 1) = P
  BY <1>6, EndsStep
<1>7. ASSUME c[k + 1].o = "new" \/ k = Len(c)
      PROVE  ProfileEnds(c, k + 1) = P \cup (IF IsTemplate(c, k) \/ IsSkipped(c, k) THEN {} ELSE {k})
  BY <1>7, EndsStep
<1> HIDE DEF P
<1>8. P \cup {} = P
  OBVIOUS
<1>9. ASSUME c[k + 1].o # "new", k # Len(c) PROVE Number(c, k + 1) = Number(c, k)
  BY <1>4, <1>6, <1>9
<1>10. ASSUME c[k + 1].o = "new" \/ k = Len(c)
       PROVE  Number(c, k + 1) = IF IsTemplate(c, k) \/ IsSkipped(c, k)
                                 THEN Number(c, k) ELSE Number(c, k) + 1
  <2>1. CASE IsTemplate(c, k) \/ IsSkipped(c, k)
    <3>1. ProfileEnds(c, k + 1) = P
      BY <1>7, <1>8, <1>10, <2>1
    <3> QED
      BY <1>4, <2>1, <3>1
  <2>2. CASE ~(IsTemplate(c, k) \/ IsSkipped(c, k))
    <3>1. Cardinality(ProfileEnds(c, k + 1)) = Cardinality(P) + 1
      BY <1>3, <1>7, <1>10, <2>2
    <3> QED
      BY <1>2, <1>4, <2>2, <3>1
  <2> QED
    BY <2>1, <2>2
<1>11. Number(c, k) \in Nat /\ Number(c, k) > 0
  BY <1>2, <1>4
<1> QED
  BY <1>5, <1>9, <1>10, <1>11

-----------------------------------------------------------------------------
(* The instances of a section                                              *)

InstanceAt(c, p) == Instance(c[p].v, [f \in DOMAIN InProfile |-> InForce(c, f, p)])
Imported(c, p) == CHOOSE e \in TemplatesCalled(c, c[p].v, p) : TRUE

\* what stands at p, if lua is what stands before it
At(c, lua, p) ==
    IF p = 0 \/ c[p].o = "new" THEN <<>>
    ELSE CASE c[p].o = "lua_desync" -> Append(lua[p - 1], InstanceAt(c, p))
           [] c[p].o = "import" /\ TemplatesCalled(c, c[p].v, p) # {} -> lua[p - 1] \o lua[Imported(c, p)]
           [] OTHER -> lua[p - 1]

LEMMA ImportedIs ==
  ASSUME NEW c, NEW p \in Nat, TemplatesCalled(c, c[p].v, p) # {}
  PROVE  Imported(c, p) \in TemplatesCalled(c, c[p].v, p) /\ Imported(c, p) \in 0 .. p - 1
<1>1. Imported(c, p) \in TemplatesCalled(c, c[p].v, p)
  BY Zenon DEF Imported
<1> QED
  BY <1>1 DEF TemplatesCalled, TemplateEnds

LEMMA AtIs ==
  ASSUME NEW c, NEW lua, NEW p \in Nat
  PROVE  /\ p = 0 \/ c[p].o = "new" => At(c, lua, p) = <<>>
         /\ p # 0 /\ c[p].o = "lua_desync" => At(c, lua, p) = Append(lua[p - 1], InstanceAt(c, p))
         /\ p # 0 /\ c[p].o = "import" /\ TemplatesCalled(c, c[p].v, p) # {} =>
              At(c, lua, p) = lua[p - 1] \o lua[Imported(c, p)]
         /\ p # 0 /\ c[p].o \notin {"new", "lua_desync", "import"} => At(c, lua, p) = lua[p - 1]
         /\ p # 0 /\ c[p].o = "import" /\ TemplatesCalled(c, c[p].v, p) = {} => At(c, lua, p) = lua[p - 1]
<1>1. /\ "new" # "lua_desync" /\ "new" # "import" /\ "lua_desync" # "import"
  OBVIOUS
<1>2. ASSUME p = 0 \/ c[p].o = "new" PROVE At(c, lua, p) = <<>>
  BY <1>2 DEF At
<1>3. ASSUME p # 0, c[p].o = "lua_desync" PROVE At(c, lua, p) = Append(lua[p - 1], InstanceAt(c, p))
  BY <1>1, <1>3, Zenon DEF At
<1>4. ASSUME p # 0, c[p].o = "import", TemplatesCalled(c, c[p].v, p) # {}
      PROVE  At(c, lua, p) = lua[p - 1] \o lua[Imported(c, p)]
  BY <1>1, <1>4, Zenon DEF At
<1>5. ASSUME p # 0, c[p].o # "new", c[p].o # "lua_desync",
             ~(c[p].o = "import" /\ TemplatesCalled(c, c[p].v, p) # {})
      PROVE  At(c, lua, p) = lua[p - 1]
  BY <1>5, Zenon DEF At
<1> QED
  BY <1>1, <1>2, <1>3, <1>4, <1>5

LEMMA AtAlike ==
  ASSUME NEW c, NEW p \in Nat, NEW g, NEW h, \A i \in 0 .. p - 1 : g[i] = h[i]
  PROVE  At(c, g, p) = At(c, h, p)
<1>1. CASE p = 0 \/ c[p].o = "new"
  BY <1>1, AtIs
<1>2. CASE p # 0 /\ c[p].o # "new"
  <2>1. p - 1 \in 0 .. p - 1
    BY <1>2
  <2>2. g[p - 1] = h[p - 1]
    BY <2>1
  <2>3. CASE c[p].o = "import" /\ TemplatesCalled(c, c[p].v, p) # {}
    <3>1. g[Imported(c, p)] = h[Imported(c, p)]
      BY <2>3, ImportedIs
    <3>2. At(c, g, p) = g[p - 1] \o g[Imported(c, p)]
      BY <1>2, <2>3, AtIs, Zenon
    <3>3. At(c, h, p) = h[p - 1] \o h[Imported(c, p)]
      BY <1>2, <2>3, AtIs, Zenon
    <3> QED
      BY <2>2, <3>1, <3>2, <3>3, Zenon
  <2>4. CASE c[p].o = "lua_desync"
    <3>1. At(c, g, p) = Append(g[p - 1], InstanceAt(c, p))
      BY <1>2, <2>4, AtIs, Zenon
    <3>2. At(c, h, p) = Append(h[p - 1], InstanceAt(c, p))
      BY <1>2, <2>4, AtIs, Zenon
    <3> QED
      BY <2>2, <3>1, <3>2, Zenon
  <2>5. CASE ~(c[p].o = "import" /\ TemplatesCalled(c, c[p].v, p) # {}) /\ c[p].o # "lua_desync"
    <3>1. \/ c[p].o \notin {"new", "lua_desync", "import"}
          \/ c[p].o = "import" /\ TemplatesCalled(c, c[p].v, p) = {}
      BY <1>2, <2>5, Zenon
    <3>2. At(c, g, p) = g[p - 1]
      BY <1>2, <3>1, AtIs, Zenon
    <3>3. At(c, h, p) = h[p - 1]
      BY <1>2, <3>1, AtIs, Zenon
    <3> QED
      BY <2>2, <3>2, <3>3, Zenon
  <2> QED
    BY <2>3, <2>4, <2>5, Zenon
<1> QED
  BY <1>1, <1>2

\* a reading up to p
Reads(c, g, p) == g = [i \in 0 .. p |-> At(c, g, i)]

LEMMA ReadsOn ==
  ASSUME NEW c, NEW n \in Nat
  PROVE  \E g : Reads(c, g, n)
<1> DEFINE T == {k \in 0 .. n : \E g : Reads(c, g, k)}
<1>1. 0 \in T
  <2> DEFINE g == [i \in 0 .. 0 |-> At(c, <<>>, i)]
  <2>1. \A i \in 0 .. 0 : At(c, g, i) = At(c, <<>>, i)
    <3> HIDE DEF g
    <3>1. \A i \in 0 .. 0 : i = 0 /\ i \in Nat
      OBVIOUS
    <3> QED
      BY <3>1, AtIs
  <2>2. Reads(c, g, 0)
    BY <2>1 DEF Reads
  <2> QED
    BY <2>2
<1>2. ASSUME NEW k \in 1 .. n, k - 1 \in T PROVE k \in T
  <2>1. PICK g : Reads(c, g, k - 1)
    BY <1>2
  <2> DEFINE h == [i \in 0 .. k |-> IF i = k THEN At(c, g, k) ELSE g[i]]
  <2>2. \A i \in 0 .. k - 1 : i \in 0 .. k /\ i # k /\ h[i] = g[i]
    OBVIOUS
  <2>3. ASSUME NEW i \in 0 .. k PROVE h[i] = At(c, h, i)
    <3>1. i \in Nat /\ k \in Nat
      OBVIOUS
    <3>2. \A j \in 0 .. i - 1 : g[j] = h[j]
      BY <2>2
    <3>3. At(c, h, i) = At(c, g, i)
      <4> HIDE DEF h
      <4> QED
        BY <3>1, <3>2, AtAlike
    <3>4. CASE i = k
      BY <3>3, <3>4
    <3>5. CASE i # k
      <4>1. i \in 0 .. k - 1
        BY <3>5
      <4> QED
        BY <2>1, <2>2, <3>3, <4>1 DEF Reads
    <3> QED
      BY <3>4, <3>5
  <2>4. Reads(c, h, k)
    <3>1. h = [i \in 0 .. k |-> h[i]]
      OBVIOUS
    <3> HIDE DEF h
    <3> QED
      BY <2>3, <3>1 DEF Reads
  <2> HIDE DEF h
  <2> QED
    BY <2>4
<1>3. \A i \in 0 .. n : i \in T
  <2> HIDE DEF T
  <2> QED
    BY <1>1, <1>2, UpTo
<1> QED
  BY <1>3

LEMMA InstancesAre ==
  ASSUME NEW c, Len(c) \in Nat
  PROVE  \A p \in 0 .. Len(c) : Instances(c)[p] = At(c, Instances(c), p)
<1>1. PICK g : Reads(c, g, Len(c))
  BY ReadsOn
<1>2. g = [p \in Positions(c) |->
             IF p = 0 \/ c[p].o = "new" THEN <<>>
             ELSE CASE c[p].o = "lua_desync" ->
                         Append(g[p - 1],
                                Instance(c[p].v, [f \in DOMAIN InProfile |-> InForce(c, f, p)]))
                    [] c[p].o = "import" /\ TemplatesCalled(c, c[p].v, p) # {} ->
                         g[p - 1] \o g[CHOOSE e \in TemplatesCalled(c, c[p].v, p) : TRUE]
                    [] OTHER -> g[p - 1]]
  BY <1>1, Zenon DEF Reads, At, InstanceAt, Imported, Positions
<1> DEFINE f == Instances(c)
<1>3. f = [p \in Positions(c) |-> At(c, f, p)]
  BY <1>2, Zenon DEF Instances, At, InstanceAt, Imported
<1> HIDE DEF f
<1>4. \A p \in 0 .. Len(c) : f[p] = At(c, f, p)
  BY <1>3, Zenon DEF Positions
<1> QED
  BY <1>4 DEF f

LEMMA InstancesStep ==
  ASSUME NEW c, Len(c) \in Nat, NEW k \in 0 .. Len(c) - 1
  PROVE  /\ Instances(c)[0] = <<>>
         /\ c[k + 1].o = "new" => Instances(c)[k + 1] = <<>>
         /\ c[k + 1].o = "lua_desync" =>
              Instances(c)[k + 1] = Append(Instances(c)[k], InstanceAt(c, k + 1))
         /\ c[k + 1].o = "import" /\ TemplatesCalled(c, c[k + 1].v, k + 1) # {} =>
              Instances(c)[k + 1] = Instances(c)[k] \o Instances(c)[Imported(c, k + 1)]
         /\ c[k + 1].o \notin {"new", "lua_desync", "import"} =>
              Instances(c)[k + 1] = Instances(c)[k]
<1>1. 0 \in 0 .. Len(c) /\ k + 1 \in 0 .. Len(c) /\ k + 1 \in Nat /\ k + 1 # 0 /\ k + 1 - 1 = k
  OBVIOUS
<1>2. /\ Instances(c)[0] = At(c, Instances(c), 0)
      /\ Instances(c)[k + 1] = At(c, Instances(c), k + 1)
  BY <1>1, InstancesAre
<1>3. At(c, Instances(c), 0) = <<>>
  BY AtIs
<1> DEFINE lua == Instances(c)
           q == k + 1
<1>4. /\ c[q].o = "new" => At(c, lua, q) = <<>>
      /\ c[q].o = "lua_desync" => At(c, lua, q) = Append(lua[k], InstanceAt(c, q))
      /\ c[q].o = "import" /\ TemplatesCalled(c, c[q].v, q) # {} =>
           At(c, lua, q) = lua[k] \o lua[Imported(c, q)]
      /\ c[q].o \notin {"new", "lua_desync", "import"} => At(c, lua, q) = lua[k]
  <2>1. q \in Nat /\ q # 0 /\ q - 1 = k
    OBVIOUS
  <2> HIDE DEF q, lua
  <2> QED
    BY <2>1, AtIs
<1> HIDE DEF q, lua
<1>5. lua[0] = <<>> /\ lua[q] = At(c, lua, q)
  BY <1>2, <1>3 DEF lua, q
<1>6. /\ lua[0] = <<>>
      /\ c[q].o = "new" => lua[q] = <<>>
      /\ c[q].o = "lua_desync" => lua[q] = Append(lua[k], InstanceAt(c, q))
      /\ c[q].o = "import" /\ TemplatesCalled(c, c[q].v, q) # {} => lua[q] = lua[k] \o lua[Imported(c, q)]
      /\ c[q].o \notin {"new", "lua_desync", "import"} => lua[q] = lua[k]
  BY <1>4, <1>5
<1> QED
  BY <1>6 DEF lua, q

-----------------------------------------------------------------------------
(* What has been read                                                      *)

LocFields == {"skip", "template", "in", "count"}
ReadLoc(c, k, l) ==
    /\ LocFields \subseteq DOMAIN l
    /\ l.skip \in BOOLEAN /\ (l.skip <=> IsSkipped(c, k))
    /\ l.template \in BOOLEAN /\ (l.template <=> IsTemplate(c, k))
    /\ \A f \in InFields : l.in[f] = InForce(c, f, k)
    /\ l.count = Number(c, k)

DpFields == {"n", "name", "lua"}
ReadDp(c, k, d) ==
    /\ DpFields \subseteq DOMAIN d
    /\ d.n = Number(c, k) /\ d.name = NameAt(c, k) /\ d.lua = Instances(c)[k]

\* the profiles before the one at hand
ReadProfiles(c, k, ps) ==
    /\ Len(ps) = Number(c, k)
    /\ \A e \in ProfileEnds(c, k) :
         /\ Number(c, e) \in 1 .. Len(ps) - 1
         /\ ps[Number(c, e)].n = Number(c, e) /\ ps[Number(c, e)].lua = Instances(c)[e]

\* the templates are those of the text, no two with the same name
ReadTemplates(c, k, T) ==
    /\ \A e \in TemplateEnds(c, k) : \E t \in T : t.name = NameAt(c, e) /\ t.lua = Instances(c)[e]
    /\ \A t \in T : \E e \in TemplateEnds(c, k) : t.name = NameAt(c, e)
    /\ \A t, u \in T : t.name = u.name /\ t.name # NoName => t = u

\* the options that are left
ReadRest(c, k, av) == Len(av) = Len(c) - k /\ \A i \in 1 .. Len(av) : av[i] = c[k + i]

ReadTo(k) ==
    /\ ReadRest(cmdline, k, argv) /\ ReadLoc(cmdline, k, loc) /\ ReadDp(cmdline, k, dp)
    /\ ReadProfiles(cmdline, k, profiles) /\ ReadTemplates(cmdline, k, ToSet(templates))

TextInv == phase = "options" => \E k \in 0 .. Len(cmdline) : ReadTo(k)

LEMMA RestStep ==
  ASSUME NEW c, Len(c) \in Nat, NEW k \in 0 .. Len(c), NEW S, NEW av \in Seq(S), ReadRest(c, k, av)
  PROVE  /\ av = <<>> => k = Len(c)
         /\ av # <<>> => /\ k \in 0 .. Len(c) - 1 /\ k + 1 \in 0 .. Len(c)
                         /\ Head(av) = c[k + 1] /\ ReadRest(c, k + 1, Tail(av))
<1>1. CASE av = <<>>
  BY <1>1 DEF ReadRest
<1>2. CASE av # <<>>
  <2>1. Len(av) \in Nat /\ Len(av) > 0 /\ Head(av) = av[1] /\ Len(Tail(av)) = Len(av) - 1
        /\ \A i \in 1 .. Len(Tail(av)) : Tail(av)[i] = av[i + 1]
    BY <1>2
  <2>2. Len(av) = Len(c) - k /\ \A i \in 1 .. Len(av) : av[i] = c[k + i]
    BY DEF ReadRest
  <2>3. k \in 0 .. Len(c) - 1 /\ k + 1 \in 0 .. Len(c) /\ Head(av) = c[k + 1]
        /\ Len(Tail(av)) = Len(c) - (k + 1)
    BY <2>1, <2>2
  <2>4. ASSUME NEW i \in 1 .. Len(Tail(av)) PROVE Tail(av)[i] = c[k + 1 + i]
    <3>1. i + 1 \in 1 .. Len(av) /\ k + (i + 1) = k + 1 + i
      BY <2>1
    <3> QED
      BY <2>1, <2>2, <3>1
  <2> QED
    BY <1>2, <2>3, <2>4 DEF ReadRest
<1> QED
  BY <1>1, <1>2

LEMMA ProfilesOn ==
  ASSUME NEW c, Len(c) \in Nat, NEW k \in 0 .. Len(c) - 1, c[k + 1].o # "new",
         NEW ps, ReadProfiles(c, k, ps),
         NEW qs, Len(qs) = Len(ps), \A i \in 1 .. Len(ps) - 1 : qs[i] = ps[i]
  PROVE  ReadProfiles(c, k + 1, qs)
<1>1. k \in 0 .. Len(c) /\ k # Len(c)
  OBVIOUS
<1>2. ProfileEnds(c, k + 1) = ProfileEnds(c, k) /\ Number(c, k + 1) = Number(c, k)
  BY <1>1, EndsStep, NumberStep
<1> QED
  BY <1>2 DEF ReadProfiles

LEMMA TemplatesOn ==
  ASSUME NEW c, Len(c) \in Nat, NEW k \in 0 .. Len(c) - 1, c[k + 1].o # "new",
         NEW T, ReadTemplates(c, k, T)
  PROVE  ReadTemplates(c, k + 1, T)
<1>1. k \in 0 .. Len(c) /\ k # Len(c)
  OBVIOUS
<1>2. TemplateEnds(c, k + 1) = TemplateEnds(c, k)
  BY <1>1, EndsStep
<1> QED
  BY <1>2 DEF ReadTemplates

LEMMA LocOn ==
  ASSUME NEW c, Len(c) \in Nat, NEW k \in 0 .. Len(c) - 1,
         c[k + 1].o \notin {"new", "skip", "template"} \cup InFields, NEW l, ReadLoc(c, k, l),
         NEW m, LocFields \subseteq DOMAIN m, \A f \in LocFields : m[f] = l[f]
  PROVE  ReadLoc(c, k + 1, m)
<1>1. k \in 0 .. Len(c) /\ k # Len(c) /\ k \in Nat
  OBVIOUS
<1>2. /\ m.skip = l.skip /\ m.template = l.template /\ m.in = l.in /\ m.count = l.count
  BY DEF LocFields
<1>3. Number(c, k + 1) = Number(c, k)
  BY <1>1, NumberStep
<1>4. (IsSkipped(c, k + 1) <=> IsSkipped(c, k)) /\ (IsTemplate(c, k + 1) <=> IsTemplate(c, k))
  BY <1>1, FlagStep
<1>5. \A f \in InFields : InForce(c, f, k + 1) = InForce(c, f, k)
  BY <1>1, InForceStep
<1> QED
  BY <1>2, <1>3, <1>4, <1>5 DEF ReadLoc

LEMMA DpOn ==
  ASSUME NEW c, Len(c) \in Nat, NEW k \in 0 .. Len(c) - 1,
         c[k + 1].o \notin {"new", "name", "template", "lua_desync", "import"}, NEW d, ReadDp(c, k, d),
         NEW e, DpFields \subseteq DOMAIN e, \A f \in DpFields : e[f] = d[f]
  PROVE  ReadDp(c, k + 1, e)
<1>1. k \in 0 .. Len(c) /\ k # Len(c) /\ k \in Nat
  OBVIOUS
<1>2. e.n = d.n /\ e.name = d.name /\ e.lua = d.lua
  BY DEF DpFields
<1>3. Number(c, k + 1) = Number(c, k) /\ NameAt(c, k + 1) = NameAt(c, k)
  BY <1>1, NumberStep, NameStep
<1>4. Instances(c)[k + 1] = Instances(c)[k]
  BY InstancesStep
<1> QED
  BY <1>2, <1>3, <1>4 DEF ReadDp

\* the end of a section: it is gone, or stays as a profile
LEMMA ProfilesNew ==
  ASSUME NEW c, Len(c) \in Nat, NEW k \in 0 .. Len(c), c[k + 1].o = "new" \/ k = Len(c),
         NEW ps, ReadProfiles(c, k, ps), NEW qs,
         IF IsTemplate(c, k) \/ IsSkipped(c, k)
         THEN /\ Len(qs) = Len(ps)
              /\ \A i \in 1 .. Len(ps) - 1 : qs[i].n = ps[i].n /\ qs[i].lua = ps[i].lua
         ELSE /\ Len(qs) = Len(ps) + 1 /\ \A i \in 1 .. Len(ps) : qs[i].n = ps[i].n /\ qs[i].lua = ps[i].lua
              /\ ReadDp(c, k, ps[Len(ps)])
  PROVE  ReadProfiles(c, k + 1, qs)
<1>1. /\ Number(c, k) \in Nat
      /\ Number(c, k + 1) = IF IsTemplate(c, k) \/ IsSkipped(c, k)
                            THEN Number(c, k) ELSE Number(c, k) + 1
  BY NumberStep
<1>2. ProfileEnds(c, k + 1) =
        ProfileEnds(c, k) \cup (IF IsTemplate(c, k) \/ IsSkipped(c, k) THEN {} ELSE {k})
  BY EndsStep
<1>3. /\ Len(ps) = Number(c, k)
      /\ \A e \in ProfileEnds(c, k) :
           /\ Number(c, e) \in 1 .. Len(ps) - 1
           /\ ps[Number(c, e)].n = Number(c, e) /\ ps[Number(c, e)].lua = Instances(c)[e]
  BY DEF ReadProfiles
<1>4. CASE IsTemplate(c, k) \/ IsSkipped(c, k)
  <2>1. ProfileEnds(c, k + 1) = ProfileEnds(c, k) /\ Len(qs) = Number(c, k + 1)
    BY <1>1, <1>2, <1>3, <1>4
  <2> QED
    BY <1>3, <1>4, <2>1 DEF ReadProfiles
<1>5. CASE ~(IsTemplate(c, k) \/ IsSkipped(c, k))
  <2>1. Len(qs) = Number(c, k + 1) /\ Len(qs) - 1 = Len(ps) /\ Len(ps) \in Nat
    BY <1>1, <1>3, <1>5
  <2>2. Number(c, k) > 0
    BY NumberStep
  <2>3. ASSUME NEW e \in ProfileEnds(c, k)
        PROVE  /\ Number(c, e) \in 1 .. Len(qs) - 1
               /\ qs[Number(c, e)].n = Number(c, e) /\ qs[Number(c, e)].lua = Instances(c)[e]
    <3>1. Number(c, e) \in 1 .. Len(ps)
      BY <1>3, <2>1
    <3> QED
      BY <1>3, <1>5, <2>1, <3>1
  <2>4. /\ Number(c, k) \in 1 .. Len(qs) - 1
        /\ qs[Number(c, k)].n = Number(c, k) /\ qs[Number(c, k)].lua = Instances(c)[k]
    <3>1. Number(c, k) \in 1 .. Len(ps)
      BY <1>1, <1>3, <2>2
    <3> QED
      BY <1>3, <1>5, <2>1, <3>1 DEF ReadDp
  <2>5. \A e \in ProfileEnds(c, k + 1) : e \in ProfileEnds(c, k) \/ e = k
    BY <1>2, <1>5
  <2> QED
    BY <2>1, <2>3, <2>4, <2>5, Zenon DEF ReadProfiles
<1> QED
  BY <1>4, <1>5

LEMMA TemplatesNew ==
  ASSUME NEW c, Len(c) \in Nat, NEW k \in 0 .. Len(c), c[k + 1].o = "new" \/ k = Len(c),
         NEW T, ReadTemplates(c, k, T), NEW U,
         IF IsTemplate(c, k) /\ ~IsSkipped(c, k)
         THEN \E d : /\ U = T \cup {d} /\ d.name = NameAt(c, k) /\ d.lua = Instances(c)[k]
                     /\ d.name = NoName \/ \A t \in T : t.name # d.name
         ELSE U = T
  PROVE  ReadTemplates(c, k + 1, U)
<1>1. TemplateEnds(c, k + 1) =
        TemplateEnds(c, k) \cup (IF IsTemplate(c, k) /\ ~IsSkipped(c, k) THEN {k} ELSE {})
  BY EndsStep
<1>2. CASE ~(IsTemplate(c, k) /\ ~IsSkipped(c, k))
  <2>1. TemplateEnds(c, k + 1) = TemplateEnds(c, k) /\ U = T
    BY <1>1, <1>2
  <2> QED
    BY <2>1 DEF ReadTemplates
<1>3. CASE IsTemplate(c, k) /\ ~IsSkipped(c, k)
  <2>1. TemplateEnds(c, k + 1) = TemplateEnds(c, k) \cup {k}
    BY <1>1, <1>3
  <2>2. PICK d : /\ U = T \cup {d} /\ d.name = NameAt(c, k) /\ d.lua = Instances(c)[k]
                 /\ d.name = NoName \/ \A t \in T : t.name # d.name
    BY <1>3
  <2>3. \A e \in TemplateEnds(c, k + 1) : \E t \in U : t.name = NameAt(c, e) /\ t.lua = Instances(c)[e]
    BY <2>1, <2>2 DEF ReadTemplates
  <2>4. \A t \in U : \E e \in TemplateEnds(c, k + 1) : t.name = NameAt(c, e)
    BY <2>1, <2>2 DEF ReadTemplates
  <2>5. \A t, u \in U : t.name = u.name /\ t.name # NoName => t = u
    BY <2>2 DEF ReadTemplates
  <2> QED
    BY <2>3, <2>4, <2>5 DEF ReadTemplates
<1> QED
  BY <1>2, <1>3

-----------------------------------------------------------------------------
(* Each option keeps TextInv                                               *)

LEMMA CommandLineIs ==
  ASSUME CfgInv
  PROVE  Len(cmdline) \in Nat /\ DOMAIN cmdline = 1 .. Len(cmdline)
<1>1. cmdline \in Seq({cmdline[i] : i \in DOMAIN cmdline})
  BY ConfigAssumption DEF CfgInv
<1> QED
  BY <1>1

LEMMA PlaceOfOption ==
  ASSUME NEW n \in Nat, NEW k \in 0 .. n - 1
  PROVE  k \in Nat /\ k \in 0 .. n /\ k # n /\ k + 1 \in 1 .. n
OBVIOUS

LEMMA OptionRead ==
  ASSUME CfgInv, argv # <<>>, NEW k \in 0 .. Len(cmdline), ReadTo(k)
  PROVE  /\ Len(cmdline) \in Nat /\ k \in 0 .. Len(cmdline) - 1 /\ k + 1 \in 0 .. Len(cmdline)
         /\ opt = cmdline[k + 1] /\ ReadRest(cmdline, k + 1, Tail(argv))
<1>1. Len(cmdline) \in Nat /\ argv \in Seq({cmdline[i] : i \in DOMAIN cmdline})
  BY CommandLineIs DEF CfgInv
<1>2. ReadRest(cmdline, k, argv)
  BY DEF ReadTo
<1> QED
  BY <1>1, <1>2, RestStep DEF opt

LEMMA SeqSetAt ==
  ASSUME NEW s, IsSeq(s), s # <<>>, NEW x, NEW t, t = [s EXCEPT ![Len(s)] = x]
  PROVE  Len(t) = Len(s) /\ t[Len(s)] = x /\ \A i \in 1 .. Len(s) - 1 : t[i] = s[i]
<1>1. Len(s) \in Nat /\ DOMAIN s = 1 .. Len(s) /\ Len(s) \in DOMAIN s
  BY DEF IsSeq
<1>2. Len(t) = Len(s)
  BY SeqSet
<1> QED
  BY <1>1, <1>2

\* an option within a section, that leaves the profile d
LEMMA SectionStep ==
  ASSUME CfgInv, argv # <<>>, NEW k \in 0 .. Len(cmdline), ReadTo(k), opt.o # "new",
         Done, UNCHANGED templates, ReadLoc(cmdline, k + 1, loc'),
         NEW d, ReadDp(cmdline, k + 1, d), SetDp(d) \/ (UNCHANGED profiles /\ d = dp)
  PROVE  TextInv'
<1>1. /\ Len(cmdline) \in Nat /\ k \in 0 .. Len(cmdline) - 1 /\ k + 1 \in 0 .. Len(cmdline)
      /\ opt = cmdline[k + 1] /\ ReadRest(cmdline, k + 1, Tail(argv))
  BY OptionRead
<1>2. IsSeq(profiles) /\ profiles # <<>>
  BY DEF CfgInv
<1>3. Len(profiles') = Len(profiles) /\ dp' = d
      /\ \A i \in 1 .. Len(profiles) - 1 : profiles'[i] = profiles[i]
  <2>2. CASE SetDp(d)
    <3>1. profiles' = [profiles EXCEPT ![Len(profiles)] = d]
      BY <2>2 DEF SetDp
    <3>2. Len(profiles') = Len(profiles) /\ profiles'[Len(profiles)] = d
          /\ \A i \in 1 .. Len(profiles) - 1 : profiles'[i] = profiles[i]
      BY <1>2, <3>1, SeqSetAt
    <3> QED
      BY <3>2 DEF dp
  <2>3. CASE UNCHANGED profiles /\ d = dp
    BY <2>3 DEF dp
  <2> QED
    BY <2>2, <2>3
<1>4. ReadProfiles(cmdline, k + 1, profiles') /\ ReadTemplates(cmdline, k + 1, ToSet(templates))
  <2>1. ReadProfiles(cmdline, k, profiles) /\ ReadTemplates(cmdline, k, ToSet(templates))
    BY DEF ReadTo
  <2>2. ReadProfiles(cmdline, k + 1, profiles')
    BY <1>1, <1>3, <2>1, ProfilesOn
  <2> QED
    BY <1>1, <2>1, <2>2, TemplatesOn
<1>5. cmdline' = cmdline /\ argv' = Tail(argv) /\ templates' = templates
  BY DEF Done
<1>6. /\ ReadRest(cmdline', k + 1, argv') /\ ReadLoc(cmdline', k + 1, loc')
      /\ ReadDp(cmdline', k + 1, dp') /\ ReadProfiles(cmdline', k + 1, profiles')
      /\ k + 1 \in 0 .. Len(cmdline')
  BY <1>1, <1>3, <1>4, <1>5
<1>7. ReadTemplates(cmdline', k + 1, ToSet(templates'))
  BY <1>4, <1>5
<1> QED
  BY <1>6, <1>7 DEF TextInv, ReadTo

Reserved == {"new", "skip", "name", "template", "lua_desync", "import"} \cup InFields

\* an option that has nothing to do with the reading
LEMMA PlainStep ==
  ASSUME CfgInv, argv # <<>>, NEW k \in 0 .. Len(cmdline), ReadTo(k), opt.o \notin Reserved,
         Done, UNCHANGED templates,
         LocFields \subseteq DOMAIN loc', \A f \in LocFields : loc'[f] = loc[f],
         NEW d, DpFields \subseteq DOMAIN d, \A f \in DpFields : d[f] = dp[f],
         SetDp(d) \/ (UNCHANGED profiles /\ d = dp)
  PROVE  TextInv'
<1>1. /\ Len(cmdline) \in Nat /\ k \in 0 .. Len(cmdline) - 1 /\ opt = cmdline[k + 1]
  BY OptionRead
<1>2. ReadLoc(cmdline, k, loc) /\ ReadDp(cmdline, k, dp)
  BY DEF ReadTo
<1>3. cmdline[k + 1].o \notin {"new", "skip", "template"} \cup InFields
      /\ cmdline[k + 1].o \notin {"new", "name", "template", "lua_desync", "import"}
  BY <1>1 DEF Reserved
<1>4. ReadLoc(cmdline, k + 1, loc')
  BY <1>1, <1>2, <1>3, LocOn
<1>5. ReadDp(cmdline, k + 1, d)
  BY <1>1, <1>2, <1>3, DpOn
<1>6. opt.o # "new"
  BY DEF Reserved
<1> QED
  BY <1>4, <1>5, <1>6, SectionStep

\* a field of a profile that is not read
LEMMA FieldStep ==
  ASSUME NEW d, DpFields \subseteq DOMAIN d, NEW f, f \notin DpFields, NEW v
  PROVE  LET e == [d EXCEPT ![f] = v]
         IN  DpFields \subseteq DOMAIN e /\ \A g \in DpFields : e[g] = d[g]
  OBVIOUS

LEMMA PlainOptions ==
  ASSUME CfgInv, phase = "options", NEW k \in 0 .. Len(cmdline), ReadTo(k),
         GlobalOption \/ ListOption \/ ItemsOption \/ FailValueOption \/ FilterOption
  PROVE  TextInv'
<1>0. /\ DpFields \subseteq DOMAIN dp /\ LocFields \subseteq DOMAIN loc
      /\ \A f \in LocFields : loc[f] = loc[f] /\ \A g \in DpFields : dp[g] = dp[g]
  BY DEF ReadTo, ReadDp, ReadLoc
<1>1. CASE GlobalOption
  <2>1. /\ argv # <<>> /\ opt.o \notin Reserved /\ Done /\ UNCHANGED <<templates, loc, profiles>>
    BY <1>1 DEF GlobalOption, Option, GlobDefault, Reserved, InFields
  <2> QED
    BY <1>0, <2>1, PlainStep
<1>2. CASE ListOption
  <2> DEFINE d == [dp EXCEPT ![opt.o] = @ \cup {opt.v}]
  <2>1. /\ argv # <<>> /\ opt.o \notin Reserved /\ opt.o \notin DpFields
        /\ Done /\ UNCHANGED <<templates, loc>>
    BY <1>2 DEF ListOption, Option, ListKinds, Reserved, InFields, DpFields
  <2>2. UNCHANGED profiles \/ SetDp(d)
    BY <1>2 DEF ListOption
  <2>3. DpFields \subseteq DOMAIN d /\ \A g \in DpFields : d[g] = dp[g]
    BY <1>0, <2>1, FieldStep, Zenon
  <2> HIDE DEF d
  <2> QED
    BY <1>0, <2>1, <2>2, <2>3, PlainStep
<1>3. CASE ItemsOption
  <2> DEFINE kind == ItemKinds[opt.o]
             id == IF loc.anon[kind] = NoList THEN <<"", loc.anons + 1>> ELSE loc.anon[kind]
             d == [dp EXCEPT ![kind] = @ \cup {id}]
             l == [loc EXCEPT !.anon[kind] = id,
                              !.anons = IF loc.anon[kind] = NoList THEN @ + 1 ELSE @]
  <2>1. /\ argv # <<>> /\ opt.o \notin Reserved /\ kind \notin DpFields
        /\ Done /\ UNCHANGED templates
    <3>1. argv # <<>> /\ Done /\ UNCHANGED templates /\ opt.o \in DOMAIN ItemKinds
      BY <1>3 DEF ItemsOption, Option
    <3>2. opt.o \in {"hl_domains", "hl_exclude_domains", "ips_ip", "ips_exclude_ip"}
      BY <3>1 DEF ItemKinds
    <3>3. kind \in {"hl", "hl_exclude", "ips", "ips_exclude"}
      <4>1. PICK o : o = opt.o
        OBVIOUS
      <4>2. ItemKinds[o] \in {"hl", "hl_exclude", "ips", "ips_exclude"}
        BY <3>2, <4>1 DEF ItemKinds
      <4> QED
        BY <4>1, <4>2
    <3> HIDE DEF kind
    <3> QED
      BY <3>1, <3>2, <3>3, SMTT(30) DEF Reserved, InFields, DpFields
  <2>2. UNCHANGED <<profiles, loc>> \/ (SetDp(d) /\ loc' = l)
    BY <1>3, ZenonT(30) DEF ItemsOption
  <2>3. DpFields \subseteq DOMAIN d /\ \A g \in DpFields : d[g] = dp[g]
    <3> HIDE DEF kind, id
    <3> QED
      BY <1>0, <2>1, FieldStep, Zenon
  <2>4. LocFields \subseteq DOMAIN l /\ \A f \in LocFields : l[f] = loc[f]
    <3> HIDE DEF kind, id
    <3> QED
      BY <1>0 DEF LocFields
  <2> HIDE DEF d, l
  <2>5. LocFields \subseteq DOMAIN loc' /\ \A f \in LocFields : loc'[f] = loc[f]
    BY <1>0, <2>2, <2>4
  <2> QED
    BY <1>0, <2>1, <2>2, <2>3, <2>5, PlainStep
<1>4. CASE FailValueOption
  <2> DEFINE d == [dp EXCEPT !.fail = {f \in @ : f.k # opt.v.k} \cup {opt.v}]
  <2>1. /\ argv # <<>> /\ opt.o \notin Reserved /\ Done /\ UNCHANGED <<templates, loc>> /\ SetDp(d)
    BY <1>4 DEF FailValueOption, Option, Reserved, InFields
  <2>2. DpFields \subseteq DOMAIN d /\ \A g \in DpFields : d[g] = dp[g]
    <3>1. "fail" \notin DpFields
      BY DEF DpFields
    <3> QED
      BY <1>0, <3>1, FieldStep, Zenon
  <2> HIDE DEF d
  <2> QED
    BY <1>0, <2>1, <2>2, PlainStep
<1>5. CASE FilterOption
  <2> DEFINE d1 == [dp EXCEPT !.l3 = @ \cup opt.v, !.b_filter_l3 = TRUE]
             d2 == [dp EXCEPT !.filter_l7 = opt.v, !.b_filter_l7 = TRUE]
             d3 == [dp EXCEPT ![opt.o] = @ \cup opt.v]
  <2>1. /\ argv # <<>> /\ opt.o \notin Reserved /\ opt.o \notin DpFields
        /\ Done /\ UNCHANGED <<templates, loc>>
    BY <1>5 DEF FilterOption, Option, Reserved, InFields, DpFields
  <2>2. SetDp(d1) \/ SetDp(d2) \/ SetDp(d3)
    BY <1>5 DEF FilterOption, Option
  <2>3. DpFields \subseteq DOMAIN d3 /\ \A g \in DpFields : d3[g] = dp[g]
    BY <1>0, <2>1, FieldStep, Zenon
  <2>4. /\ DpFields \subseteq DOMAIN d1 /\ \A g \in DpFields : d1[g] = dp[g]
        /\ DpFields \subseteq DOMAIN d2 /\ \A g \in DpFields : d2[g] = dp[g]
    BY <1>0 DEF DpFields
  <2> HIDE DEF d1, d2, d3
  <2> QED
    BY <1>0, <2>1, <2>2, <2>3, <2>4, PlainStep
<1> QED
  BY <1>1, <1>2, <1>3, <1>4, <1>5

LEMMA AutoIsPlain ==
  ASSUME CfgInv, phase = "options", NEW k \in 0 .. Len(cmdline), ReadTo(k), AutoOption, ~exit_clean
  PROVE  TextInv'
<1> DEFINE d == [dp EXCEPT !.hostlist_auto = opt.v, !.hl = @ \cup {opt.v}]
<1>0. /\ DpFields \subseteq DOMAIN dp /\ LocFields \subseteq DOMAIN loc
  BY DEF ReadTo, ReadDp, ReadLoc
<1>1. /\ argv # <<>> /\ opt.o \notin Reserved
  BY DEF AutoOption, Option, Reserved, InFields
<1>2. Done /\ UNCHANGED <<templates, loc>> /\ (UNCHANGED profiles \/ SetDp(d))
  BY DEF AutoOption
<1>3. DpFields \subseteq DOMAIN d /\ \A g \in DpFields : d[g] = dp[g]
  BY <1>0 DEF DpFields
<1> HIDE DEF d
<1> QED
  BY <1>0, <1>1, <1>2, <1>3, PlainStep

LEMMA InProfileStep ==
  ASSUME CfgInv, phase = "options", NEW k \in 0 .. Len(cmdline), ReadTo(k), InProfileOption
  PROVE  TextInv'
<1>1. /\ argv # <<>> /\ opt.o \in InFields /\ Done /\ UNCHANGED <<templates, profiles>>
      /\ loc' = [loc EXCEPT !.in[opt.o] = opt.v]
  BY DEF InProfileOption, Option, InProfile, InFields
<1>2. /\ Len(cmdline) \in Nat /\ k \in 0 .. Len(cmdline) - 1 /\ opt = cmdline[k + 1]
      /\ k \in Nat /\ k \in 0 .. Len(cmdline) /\ k # Len(cmdline)
  BY <1>1, OptionRead
<1>3. ReadLoc(cmdline, k, loc) /\ ReadDp(cmdline, k, dp)
  BY DEF ReadTo
<1>4. /\ LocFields \subseteq DOMAIN loc' /\ loc'.in = [loc.in EXCEPT ![opt.o] = opt.v]
      /\ loc'.skip = loc.skip /\ loc'.template = loc.template /\ loc'.count = loc.count
  BY <1>1, <1>3 DEF ReadLoc, LocFields
<1>5. \A f \in InFields : loc'.in[f] = InForce(cmdline, f, k + 1)
  <2>1. InFields \subseteq DOMAIN loc.in
    BY DEF CfgInv, IsInProfile
  <2>2. ASSUME NEW f \in InFields PROVE loc'.in[f] = InForce(cmdline, f, k + 1)
    <3>1. loc'.in[f] = IF f = opt.o THEN opt.v ELSE loc.in[f]
      BY <1>4, <2>1
    <3>2. InForce(cmdline, f, k + 1) = IF f = opt.o THEN opt.v ELSE InForce(cmdline, f, k)
      <4>1. opt.o # "new"
        BY <1>1 DEF InFields
      <4> QED
        BY <1>2, <4>1, InForceStep
    <3> QED
      BY <1>3, <3>1, <3>2 DEF ReadLoc
  <2> QED
    BY <2>2
<1>6. opt.o \notin {"new", "skip", "name", "template", "lua_desync", "import"}
  BY <1>1 DEF InFields
<1>7. /\ Number(cmdline, k + 1) = Number(cmdline, k)
      /\ IsSkipped(cmdline, k + 1) <=> IsSkipped(cmdline, k)
      /\ IsTemplate(cmdline, k + 1) <=> IsTemplate(cmdline, k)
  BY <1>2, <1>6, NumberStep, FlagStep
<1>8. ReadLoc(cmdline, k + 1, loc')
  BY <1>3, <1>4, <1>5, <1>7 DEF ReadLoc
<1>9. ReadDp(cmdline, k + 1, dp)
  <2>1. DpFields \subseteq DOMAIN dp
    BY <1>3 DEF ReadDp
  <2> QED
    BY <1>2, <1>3, <1>6, <2>1, DpOn
<1> QED
  BY <1>1, <1>6, <1>8, <1>9, SectionStep

LEMMA LuaDesyncStep ==
  ASSUME CfgInv, phase = "options", NEW k \in 0 .. Len(cmdline), ReadTo(k), LuaDesyncOption
  PROVE  TextInv'
<1> DEFINE d == [dp EXCEPT !.lua = Append(@, Instance(opt.v, loc.in))]
<1>1. argv # <<>> /\ opt.o = "lua_desync" /\ Done /\ UNCHANGED <<templates, loc>> /\ SetDp(d)
  BY DEF LuaDesyncOption, Option
<1>2. /\ Len(cmdline) \in Nat /\ k \in 0 .. Len(cmdline) - 1 /\ opt = cmdline[k + 1]
      /\ k \in Nat /\ k \in 0 .. Len(cmdline) /\ k # Len(cmdline)
  BY <1>1, OptionRead
<1>3. ReadLoc(cmdline, k, loc) /\ ReadDp(cmdline, k, dp)
  BY DEF ReadTo
<1>4. cmdline[k + 1].o \notin {"new", "skip", "template"} \cup InFields
  BY <1>1, <1>2 DEF InFields
<1>5. ReadLoc(cmdline, k + 1, loc')
  <2>1. LocFields \subseteq DOMAIN loc
    BY <1>3 DEF ReadLoc
  <2> QED
    BY <1>1, <1>2, <1>3, <1>4, <2>1, LocOn
<1>6. Instance(opt.v, loc.in) = InstanceAt(cmdline, k + 1)
  <2> DEFINE F == [f \in DOMAIN InProfile |-> InForce(cmdline, f, k + 1)]
  <2>1. DOMAIN InProfile = InFields /\ "payload" \in InFields /\ "in_range" \in InFields /\ "out_range" \in InFields
    BY DEF InProfile, InFields
  <2>2. \A f \in InFields : F[f] = InForce(cmdline, f, k + 1)
    BY <2>1
  <2>3. \A f \in InFields : loc.in[f] = InForce(cmdline, f, k + 1)
    BY <1>1, <1>5 DEF ReadLoc
  <2>4. InstanceAt(cmdline, k + 1) = Instance(opt.v, F)
    BY <1>2 DEF InstanceAt
  <2> HIDE DEF F
  <2>5. F.payload = loc.in.payload /\ F.in_range = loc.in.in_range /\ F.out_range = loc.in.out_range
    BY <2>1, <2>2, <2>3
  <2> QED
    BY <2>4, <2>5 DEF Instance
<1>7. Instances(cmdline)[k + 1] = Append(dp.lua, InstanceAt(cmdline, k + 1))
  BY <1>1, <1>2, <1>3, InstancesStep DEF ReadDp
<1>8. Number(cmdline, k + 1) = Number(cmdline, k) /\ NameAt(cmdline, k + 1) = NameAt(cmdline, k)
  BY <1>1, <1>2, NumberStep, NameStep
<1>9. /\ DpFields \subseteq DOMAIN d /\ d.n = dp.n /\ d.name = dp.name
      /\ d.lua = Append(dp.lua, Instance(opt.v, loc.in))
  BY <1>3 DEF ReadDp, DpFields
<1> HIDE DEF d
<1>10. ReadDp(cmdline, k + 1, d)
  BY <1>3, <1>6, <1>7, <1>8, <1>9 DEF ReadDp
<1>11. opt.o # "new"
  BY <1>1
<1> QED
  BY <1>1, <1>5, <1>10, <1>11, SectionStep

\* --skip, --template and --name
LEMMA FlagOptions ==
  ASSUME CfgInv, phase = "options", NEW k \in 0 .. Len(cmdline), ReadTo(k), SkipOption \/ NameOption
  PROVE  TextInv'
<1> DEFINE d == IF opt.o = "skip" THEN dp
                ELSE [dp EXCEPT !.name = IF opt.v = NoName THEN @ ELSE opt.v]
<1>1. /\ argv # <<>> /\ opt.o \in {"skip", "template", "name"} /\ Done /\ UNCHANGED templates
      /\ SetDp(d) \/ (UNCHANGED profiles /\ d = dp)
  BY DEF SkipOption, NameOption, Option
<1>2. \/ opt.o = "skip" /\ loc' = [loc EXCEPT !.skip = TRUE]
      \/ opt.o # "skip" /\ loc' = [loc EXCEPT !.template = @ \/ opt.o = "template"]
  BY DEF SkipOption, NameOption, Option
<1>3. /\ Len(cmdline) \in Nat /\ k \in 0 .. Len(cmdline) - 1 /\ opt = cmdline[k + 1]
      /\ k \in Nat /\ k \in 0 .. Len(cmdline) /\ k # Len(cmdline)
  BY <1>1, OptionRead
<1>4. ReadLoc(cmdline, k, loc) /\ ReadDp(cmdline, k, dp)
  BY DEF ReadTo
<1>5. /\ LocFields \subseteq DOMAIN loc' /\ loc'.in = loc.in /\ loc'.count = loc.count
      /\ loc'.skip \in BOOLEAN /\ (loc'.skip <=> (loc.skip \/ opt.o = "skip"))
      /\ loc'.template \in BOOLEAN /\ (loc'.template <=> (loc.template \/ opt.o = "template"))
  <2>1. LocFields \subseteq DOMAIN loc /\ loc.skip \in BOOLEAN /\ loc.template \in BOOLEAN
    BY <1>4 DEF ReadLoc
  <2>2. CASE opt.o = "skip"
    BY <1>2, <2>1, <2>2 DEF LocFields
  <2>3. CASE opt.o # "skip"
    BY <1>2, <2>1, <2>3 DEF LocFields
  <2> QED
    BY <2>2, <2>3
<1>6. /\ Number(cmdline, k + 1) = Number(cmdline, k)
      /\ IsSkipped(cmdline, k + 1) <=> (IsSkipped(cmdline, k) \/ opt.o = "skip")
      /\ IsTemplate(cmdline, k + 1) <=> (IsTemplate(cmdline, k) \/ opt.o = "template")
  BY <1>1, <1>3, NumberStep, FlagStep
<1>7. \A f \in InFields : InForce(cmdline, f, k + 1) = InForce(cmdline, f, k)
  <2>1. \A f \in InFields : opt.o \notin {"new", f}
    BY <1>1 DEF InFields
  <2> QED
    BY <1>3, <2>1, InForceStep
<1>8. ReadLoc(cmdline, k + 1, loc')
  BY <1>4, <1>5, <1>6, <1>7 DEF ReadLoc
<1>9. Instances(cmdline)[k + 1] = Instances(cmdline)[k]
  <2>1. opt.o \notin {"new", "lua_desync", "import"}
    BY <1>1
  <2>2. cmdline[k + 1].o \notin {"new", "lua_desync", "import"}
    BY <1>3, <2>1, Zenon
  <2> QED
    BY <1>3, <2>2, InstancesStep, Zenon
<1>10. /\ DpFields \subseteq DOMAIN d /\ d.n = dp.n /\ d.lua = dp.lua
       /\ d.name = IF opt.o = "skip" \/ opt.v = NoName THEN dp.name ELSE opt.v
  BY <1>4 DEF ReadDp, DpFields
<1>11. NameAt(cmdline, k + 1) = IF opt.o = "skip" \/ opt.v = NoName THEN NameAt(cmdline, k) ELSE opt.v
  BY <1>1, <1>3, NameStep
<1> HIDE DEF d
<1>12. ReadDp(cmdline, k + 1, d)
  BY <1>4, <1>6, <1>9, <1>10, <1>11 DEF ReadDp
<1>13. opt.o # "new"
  BY <1>1
<1> QED
  BY <1>1, <1>8, <1>12, <1>13, SectionStep

LEMMA ImportStep ==
  ASSUME CfgInv, phase = "options", NEW k \in 0 .. Len(cmdline), ReadTo(k), ImportOption, ~exit_clean
  PROVE  TextInv'
<1> DEFINE from == CHOOSE t \in ToSet(templates) : t.name = opt.v
           d == [dp_copy(dp, from) EXCEPT !.n = loc.count]
<1>1. /\ argv # <<>> /\ opt.o = "import" /\ opt.v # Bad /\ Done /\ UNCHANGED <<templates, loc>>
      /\ SetDp(d) /\ \E t \in ToSet(templates) : t.name = opt.v
  BY DEF ImportOption, Option
<1>2. /\ Len(cmdline) \in Nat /\ k \in 0 .. Len(cmdline) - 1 /\ opt = cmdline[k + 1]
      /\ k \in Nat /\ k \in 0 .. Len(cmdline) /\ k # Len(cmdline) /\ k + 1 \in DOMAIN cmdline
  <2>1. Len(cmdline) \in Nat /\ k \in 0 .. Len(cmdline) - 1 /\ opt = cmdline[k + 1]
    BY <1>1, OptionRead
  <2>2. DOMAIN cmdline = 1 .. Len(cmdline)
    BY CommandLineIs
  <2>3. k \in Nat /\ k \in 0 .. Len(cmdline) /\ k # Len(cmdline) /\ k + 1 \in 1 .. Len(cmdline)
    BY <2>1, PlaceOfOption
  <2>4. k + 1 \in DOMAIN cmdline
    BY <2>2, <2>3, Zenon
  <2> QED
    BY <2>1, <2>3, <2>4, Zenon
<1>3. /\ ReadLoc(cmdline, k, loc) /\ ReadDp(cmdline, k, dp)
      /\ ReadTemplates(cmdline, k, ToSet(templates))
  BY DEF ReadTo
<1>4. cmdline[k + 1].o \notin {"new", "skip", "template"} \cup InFields
  BY <1>1, <1>2 DEF InFields
<1>5. ReadLoc(cmdline, k + 1, loc')
  <2>1. LocFields \subseteq DOMAIN loc
    BY <1>3 DEF ReadLoc
  <2> QED
    BY <1>1, <1>2, <1>3, <1>4, <2>1, LocOn
<1>6. opt.v # NoName
  BY <1>1, <1>2, ConfigAssumption DEF CfgInv
<1>7. from \in ToSet(templates) /\ from.name = opt.v
  BY <1>1, Zenon
<1>8. /\ DpFields \subseteq DOMAIN d /\ d.n = loc.count /\ d.name = dp.name /\ d.lua = dp.lua \o from.lua
  <2> HIDE DEF from
  <2>1. DpFields \subseteq DOMAIN dp
    BY <1>3 DEF ReadDp
  <2> DEFINE e == dp_copy(dp, from)
  <2>2. DOMAIN e = DOMAIN dp /\ e.name = dp.name /\ e.lua = dp.lua \o from.lua
    BY <2>1 DEF dp_copy, DpFields
  <2> HIDE DEF e
  <2>3. d = [e EXCEPT !.n = loc.count]
    BY DEF e
  <2> HIDE DEF d
  <2> QED
    BY <2>1, <2>2, <2>3 DEF DpFields
<1> HIDE DEF d, from
<1>9. TemplateEnds(cmdline, k + 1) = TemplateEnds(cmdline, k)
  BY <1>1, <1>2, EndsStep
<1>10. TemplatesCalled(cmdline, cmdline[k + 1].v, k + 1) # {}
  <2>1. PICK e \in TemplateEnds(cmdline, k) : from.name = NameAt(cmdline, e)
    BY <1>3, <1>7 DEF ReadTemplates
  <2> QED
    BY <1>2, <1>7, <1>9, <2>1 DEF TemplatesCalled
<1>11. from.lua = Instances(cmdline)[Imported(cmdline, k + 1)]
  <2> DEFINE e == Imported(cmdline, k + 1)
  <2>1. e \in TemplateEnds(cmdline, k) /\ NameAt(cmdline, e) = opt.v
    <3>1. k + 1 \in Nat
      BY <1>2
    <3>2. e \in TemplatesCalled(cmdline, cmdline[k + 1].v, k + 1)
      BY <1>10, <3>1, ImportedIs
    <3> QED
      BY <1>2, <1>9, <3>2 DEF TemplatesCalled
  <2> HIDE DEF e
  <2>2. PICK t \in ToSet(templates) : t.name = NameAt(cmdline, e) /\ t.lua = Instances(cmdline)[e]
    BY <1>3, <2>1 DEF ReadTemplates
  <2>3. t = from
    BY <1>3, <1>6, <1>7, <2>1, <2>2 DEF ReadTemplates
  <2> QED
    BY <2>2, <2>3 DEF e
<1>12. Instances(cmdline)[k + 1] = Instances(cmdline)[k] \o Instances(cmdline)[Imported(cmdline, k + 1)]
  BY <1>1, <1>2, <1>10, InstancesStep
<1>13. Number(cmdline, k + 1) = Number(cmdline, k) /\ NameAt(cmdline, k + 1) = NameAt(cmdline, k)
  BY <1>1, <1>2, NumberStep, NameStep
<1>14. ReadDp(cmdline, k + 1, d)
  BY <1>3, <1>8, <1>11, <1>12, <1>13 DEF ReadDp, ReadLoc
<1>15. opt.o # "new"
  BY <1>1
<1> QED
  BY <1>1, <1>5, <1>14, <1>15, SectionStep

LEMMA FrontIs ==
  ASSUME NEW s, IsSeq(s), s # <<>>
  PROVE  Len(Front(s)) = Len(s) - 1 /\ \A i \in 1 .. Len(s) - 1 : Front(s)[i] = s[i]
<1>1. PICK S : s \in Seq(S)
  BY DEF IsSeq
<1>2. Len(s) \in Nat /\ Len(s) > 0
  BY <1>1
<1>3. Front(s) \in Seq(S) /\ Len(Front(s)) = Len(s) - 1
  <2>1. Front(s) = SubSeq(s, 1, Len(s) - 1)
    BY DEF Front
  <2>2. PICK m \in Nat : m = Len(s) - 1 /\ m <= Len(s)
    BY <1>2, SMTT(30)
  <2>3. \A i \in 1 .. m : i \in 1 .. Len(s)
    BY <1>2, <2>2
  <2>4. SubSeq(s, 1, m) \in Seq(S) /\ Len(SubSeq(s, 1, m)) = m
    BY <1>1, <1>2, <2>2, <2>3
  <2> QED
    BY <2>1, <2>2, <2>4
<1>4. DOMAIN Front(s) = 1 .. Len(s) - 1
  BY <1>2, <1>3
<1> QED
  BY <1>3, <1>4, SeqFront

LEMMA AppendIs ==
  ASSUME NEW s, IsSeq(s), NEW x
  PROVE  /\ IsSeq(Append(s, x)) /\ Len(s) \in Nat
         /\ Len(Append(s, x)) = Len(s) + 1 /\ Append(s, x)[Len(s) + 1] = x
         /\ \A i \in 1 .. Len(s) : Append(s, x)[i] = s[i]
         /\ ToSet(Append(s, x)) = ToSet(s) \cup {x}
<1>1. PICK S : s \in Seq(S)
  BY DEF IsSeq
<1>2. s \in Seq(S \cup {x}) /\ x \in S \cup {x}
  BY <1>1
<1>3. /\ IsSeq(Append(s, x)) /\ Len(s) \in Nat
      /\ Len(Append(s, x)) = Len(s) + 1 /\ Append(s, x)[Len(s) + 1] = x
      /\ \A i \in 1 .. Len(s) : Append(s, x)[i] = s[i]
  BY <1>2, SeqAppend DEF IsSeq
<1>4. ToSet(Append(s, x)) = ToSet(s) \cup {x}
  <2>1. DOMAIN s = 1 .. Len(s) /\ DOMAIN Append(s, x) = 1 .. Len(s) + 1
    BY <1>2, <1>3 DEF IsSeq
  <2>2. ToSet(s) = {s[i] : i \in 1 .. Len(s)}
        /\ ToSet(Append(s, x)) = {Append(s, x)[i] : i \in 1 .. Len(s) + 1}
    BY <2>1 DEF ToSet
  <2>3. ASSUME NEW y \in ToSet(Append(s, x)) PROVE y \in ToSet(s) \cup {x}
    <3>1. PICK i \in 1 .. Len(s) + 1 : y = Append(s, x)[i]
      BY <2>2
    <3>2. i \in 1 .. Len(s) \/ i = Len(s) + 1
      BY <1>3
    <3> QED
      BY <1>3, <2>2, <3>1, <3>2
  <2>4. ASSUME NEW y \in ToSet(s) \cup {x} PROVE y \in ToSet(Append(s, x))
    <3>1. CASE y = x
      <4>1. Len(s) + 1 \in 1 .. Len(s) + 1
        BY <1>3
      <4> QED
        BY <1>3, <2>2, <3>1, <4>1
    <3>2. CASE y \in ToSet(s)
      <4>1. PICK i \in 1 .. Len(s) : y = s[i]
        BY <2>2, <3>2
      <4>2. i \in 1 .. Len(s) + 1 /\ y = Append(s, x)[i]
        BY <1>3, <4>1
      <4> QED
        BY <2>2, <4>2
    <3> QED
      BY <3>1, <3>2
  <2> QED
    BY <2>3, <2>4
<1> QED
  BY <1>3, <1>4

LEMMA NewStep ==
  ASSUME CfgInv, phase = "options", NEW k \in 0 .. Len(cmdline), ReadTo(k), NewOption, ~exit_clean
  PROVE  TextInv'
<1> DEFINE gone == loc.skip \/ loc.template
           put == loc.template /\ ~loc.skip
           number == IF gone THEN loc.count ELSE loc.count + 1
           kept == IF gone THEN Front(profiles) ELSE profiles
           d == [[dp_init EXCEPT !.name = opt.v] EXCEPT !.n = number]
           t == [dp EXCEPT !.n = loc.tcount + 1]
           l == [ResetAtNew(loc) EXCEPT !.count = number, !.tcount = IF put THEN @ + 1 ELSE @]
<1>1. /\ argv # <<>> /\ opt.o = "new" /\ Done /\ profiles' = Append(kept, d)
      /\ templates' = IF put THEN Append(templates, t) ELSE templates
      /\ loc' = l /\ (put => ~TemplateClash)
  BY DEF NewOption, Option
<1>2. /\ Len(cmdline) \in Nat /\ k \in 0 .. Len(cmdline) - 1 /\ opt = cmdline[k + 1]
      /\ k \in Nat /\ k \in 0 .. Len(cmdline) /\ k + 1 \in 0 .. Len(cmdline)
      /\ ReadRest(cmdline, k + 1, Tail(argv))
  BY <1>1, OptionRead
<1>3. /\ ReadLoc(cmdline, k, loc) /\ ReadDp(cmdline, k, dp) /\ ReadProfiles(cmdline, k, profiles)
      /\ ReadTemplates(cmdline, k, ToSet(templates))
  BY DEF ReadTo
<1>4. /\ gone <=> IsTemplate(cmdline, k) \/ IsSkipped(cmdline, k)
      /\ put <=> IsTemplate(cmdline, k) /\ ~IsSkipped(cmdline, k)
  BY <1>3 DEF ReadLoc
<1>5. number = Number(cmdline, k + 1) /\ Number(cmdline, k) \in Nat
  BY <1>1, <1>2, <1>3, <1>4, NumberStep DEF ReadLoc
<1>6. ReadLoc(cmdline, k + 1, l)
  <2>1. /\ LocFields \subseteq DOMAIN l /\ l.skip = FALSE /\ l.template = FALSE /\ l.in = InProfile
        /\ l.count = number
    <3> HIDE DEF number, put
    <3> QED
      BY <1>3 DEF ReadLoc, LocFields, ResetAtNew
  <2>2. ~IsSkipped(cmdline, k + 1) /\ ~IsTemplate(cmdline, k + 1)
    BY <1>1, <1>2, FlagStep
  <2>3. \A f \in InFields : InForce(cmdline, f, k + 1) = InProfile[f]
    BY <1>1, <1>2, InForceStep
  <2> HIDE DEF l
  <2> QED
    BY <1>5, <2>1, <2>2, <2>3 DEF ReadLoc
<1>7. ReadDp(cmdline, k + 1, d)
  <2>1. DpFields \subseteq DOMAIN d /\ d.n = number /\ d.name = opt.v /\ d.lua = <<>>
    <3> HIDE DEF number
    <3> QED
      BY DEF DpFields, dp_init
  <2>2. NameAt(cmdline, k + 1) = opt.v /\ Instances(cmdline)[k + 1] = <<>>
    BY <1>1, <1>2, NameStep, InstancesStep
  <2> HIDE DEF d
  <2> QED
    BY <1>5, <2>1, <2>2 DEF ReadDp
<1>8. t.name = dp.name /\ t.lua = dp.lua
  BY <1>3 DEF ReadDp, DpFields
<1> HIDE DEF number, d, t, l
<1>9. IsSeq(profiles) /\ profiles # <<>> /\ Len(profiles) \in Nat /\ IsSeq(templates)
  BY SeqIs DEF CfgInv
<1>10. /\ IsSeq(kept) /\ Len(kept) = IF gone THEN Len(profiles) - 1 ELSE Len(profiles)
       /\ \A i \in 1 .. Len(kept) : kept[i] = profiles[i]
  <2>1. CASE gone
    BY <1>9, <2>1, SeqFront, FrontIs
  <2>2. CASE ~gone
    BY <1>9, <2>2
  <2> QED
    BY <2>1, <2>2
<1> HIDE DEF kept
<1>11. /\ Len(profiles') = Len(kept) + 1 /\ profiles'[Len(kept) + 1] = d
       /\ \A i \in 1 .. Len(kept) : profiles'[i] = profiles[i]
  <2>1. Len(kept) \in Nat
    BY <1>10, SeqIs
  <2> QED
    BY <1>1, <1>10, <2>1, AppendIs
<1>12. ReadProfiles(cmdline, k + 1, profiles')
  <2>1. CASE gone
    <3>1. /\ Len(profiles') = Len(profiles)
          /\ \A i \in 1 .. Len(profiles) - 1 :
               profiles'[i].n = profiles[i].n /\ profiles'[i].lua = profiles[i].lua
      BY <1>9, <1>10, <1>11, <2>1
    <3>2. IsTemplate(cmdline, k) \/ IsSkipped(cmdline, k)
      BY <1>4, <2>1
    <3> QED
      BY <1>1, <1>2, <1>3, <3>1, <3>2, ProfilesNew
  <2>2. CASE ~gone
    <3>1. /\ Len(profiles') = Len(profiles) + 1
          /\ \A i \in 1 .. Len(profiles) :
               profiles'[i].n = profiles[i].n /\ profiles'[i].lua = profiles[i].lua
      BY <1>9, <1>10, <1>11, <2>2
    <3>2. ~(IsTemplate(cmdline, k) \/ IsSkipped(cmdline, k)) /\ ReadDp(cmdline, k, profiles[Len(profiles)])
      BY <1>3, <1>4, <2>2 DEF dp
    <3> QED
      BY <1>1, <1>2, <1>3, <3>1, <3>2, ProfilesNew
  <2> QED
    BY <2>1, <2>2
<1>13. ReadTemplates(cmdline, k + 1, ToSet(templates'))
  <2>1. CASE ~put
    <3>1. ToSet(templates') = ToSet(templates) /\ ~(IsTemplate(cmdline, k) /\ ~IsSkipped(cmdline, k))
      BY <1>1, <1>4, <2>1
    <3> QED
      BY <1>1, <1>2, <1>3, <3>1, TemplatesNew
  <2>2. CASE put
    <3>1. ToSet(templates') = ToSet(templates) \cup {t}
      <4>1. templates' = Append(templates, t)
        BY <1>1, <2>2
      <4> QED
        BY <1>9, <4>1, AppendIs
    <3>2. t.name = NoName \/ \A u \in ToSet(templates) : u.name # t.name
      BY <1>1, <1>8, <2>2 DEF TemplateClash
    <3>3. t.name = NameAt(cmdline, k) /\ t.lua = Instances(cmdline)[k]
      BY <1>3, <1>8 DEF ReadDp
    <3>4. IsTemplate(cmdline, k) /\ ~IsSkipped(cmdline, k)
      BY <1>4, <2>2
    <3> DEFINE U == ToSet(templates')
    <3>5. \E e : /\ U = ToSet(templates) \cup {e} /\ e.name = NameAt(cmdline, k)
                 /\ e.lua = Instances(cmdline)[k]
                 /\ e.name = NoName \/ \A u \in ToSet(templates) : u.name # e.name
      BY <3>1, <3>2, <3>3
    <3> HIDE DEF U
    <3>6. ReadTemplates(cmdline, k + 1, U)
      BY <1>1, <1>2, <1>3, <3>4, <3>5, TemplatesNew
    <3> QED
      BY <3>6 DEF U
  <2> QED
    BY <2>1, <2>2
<1>14. dp' = d
  BY <1>11 DEF dp
<1>15. /\ cmdline' = cmdline /\ argv' = Tail(argv)
  BY <1>1 DEF Done
<1>16. /\ ReadRest(cmdline', k + 1, argv') /\ ReadLoc(cmdline', k + 1, loc')
       /\ ReadDp(cmdline', k + 1, dp') /\ ReadProfiles(cmdline', k + 1, profiles')
       /\ k + 1 \in 0 .. Len(cmdline')
  BY <1>1, <1>2, <1>6, <1>7, <1>12, <1>14, <1>15
<1>17. ReadTemplates(cmdline', k + 1, ToSet(templates'))
  BY <1>13, <1>15
<1> QED
  BY <1>16, <1>17 DEF TextInv, ReadTo

LEMMA EndReads ==
  ASSUME CfgInv, NEW k \in 0 .. Len(cmdline), ReadTo(k), EndOfOptions, ~exit_clean
  PROVE  AsWritten(cmdline', profiles') /\ phase' = "run"
<1> DEFINE gone == loc.skip \/ loc.template
           user == IF gone THEN Front(profiles) ELSE profiles
           last_ == [dp_init EXCEPT !.name = "no_action"]
           all == Append(user, last_)
<1>1. /\ argv = <<>> /\ phase' = "run" /\ cmdline' = cmdline
      /\ profiles' = [i \in 1 .. Len(all) |-> filter_defaults(all[i])]
  BY DEF EndOfOptions
<1>2. Len(cmdline) \in Nat /\ k = Len(cmdline)
  <2>1. Len(cmdline) \in Nat /\ argv \in Seq({cmdline[i] : i \in DOMAIN cmdline})
    BY CommandLineIs DEF CfgInv
  <2>2. ReadRest(cmdline, k, argv)
    BY DEF ReadTo
  <2> QED
    BY <1>1, <2>1, <2>2, RestStep
<1>3. ReadLoc(cmdline, k, loc) /\ ReadDp(cmdline, k, dp) /\ ReadProfiles(cmdline, k, profiles)
  BY DEF ReadTo
<1>4. gone <=> IsTemplate(cmdline, k) \/ IsSkipped(cmdline, k)
  BY <1>3 DEF ReadLoc
<1>5. IsSeq(profiles) /\ profiles # <<>> /\ Len(profiles) \in Nat
  BY SeqIs DEF CfgInv
<1>6. /\ IsSeq(user) /\ Len(user) = IF gone THEN Len(profiles) - 1 ELSE Len(profiles)
      /\ \A i \in 1 .. Len(user) : user[i] = profiles[i]
  <2>1. CASE gone
    BY <1>5, <2>1, SeqFront, FrontIs
  <2>2. CASE ~gone
    BY <1>5, <2>2
  <2> QED
    BY <2>1, <2>2
<1>7. last_.n = 0 /\ last_.lua = <<>>
  BY DEF dp_init
<1> HIDE DEF user, last_
<1>8. /\ Len(user) \in Nat /\ Len(all) = Len(user) + 1 /\ all[Len(user) + 1] = last_
      /\ \A i \in 1 .. Len(user) : all[i] = profiles[i]
  BY <1>6, AppendIs
<1> HIDE DEF all
<1>9. \A e : filter_defaults(e).n = e.n /\ filter_defaults(e).lua = e.lua
  <2>1. \A e : {"n", "lua"} \cap {"l3", "pf_tcp", "pf_udp", "icf", "ipf"} = {}
    OBVIOUS
  <2> QED
    BY <2>1 DEF filter_defaults
<1>10. /\ Len(profiles') = Len(user) + 1
       /\ \A i \in 1 .. Len(user) : profiles'[i].n = profiles[i].n /\ profiles'[i].lua = profiles[i].lua
       /\ profiles'[Len(user) + 1].n = 0 /\ profiles'[Len(user) + 1].lua = <<>>
  <2>1. Len(profiles') = Len(all)
    BY <1>1, <1>8
  <2>2. \A i \in 1 .. Len(all) : profiles'[i] = filter_defaults(all[i])
    BY <1>1
  <2>3. Len(user) + 1 \in 1 .. Len(all) /\ \A i \in 1 .. Len(user) : i \in 1 .. Len(all)
    BY <1>8
  <2> QED
    BY <1>7, <1>8, <1>9, <2>1, <2>2, <2>3
<1>11. ReadProfiles(cmdline, k + 1, profiles')
  <2>1. CASE gone
    <3>1. /\ Len(profiles') = Len(profiles)
          /\ \A i \in 1 .. Len(profiles) - 1 :
               profiles'[i].n = profiles[i].n /\ profiles'[i].lua = profiles[i].lua
      BY <1>5, <1>6, <1>10, <2>1
    <3>2. IsTemplate(cmdline, k) \/ IsSkipped(cmdline, k)
      BY <1>4, <2>1
    <3> QED
      BY <1>2, <1>3, <3>1, <3>2, ProfilesNew
  <2>2. CASE ~gone
    <3>1. /\ Len(profiles') = Len(profiles) + 1
          /\ \A i \in 1 .. Len(profiles) :
               profiles'[i].n = profiles[i].n /\ profiles'[i].lua = profiles[i].lua
      BY <1>5, <1>6, <1>10, <2>2
    <3>2. ~(IsTemplate(cmdline, k) \/ IsSkipped(cmdline, k)) /\ ReadDp(cmdline, k, profiles[Len(profiles)])
      BY <1>3, <1>4, <2>2 DEF dp
    <3> QED
      BY <1>2, <1>3, <3>1, <3>2, ProfilesNew
  <2> QED
    BY <2>1, <2>2
<1>12. Last(profiles').n = 0 /\ Last(profiles').lua = <<>>
  BY <1>10 DEF Last
<1> QED
  BY <1>1, <1>2, <1>11, <1>12 DEF AsWritten, ReadProfiles

LEMMA TextStart == CfgInit => TextInv
<1> SUFFICES ASSUME CfgInit PROVE TextInv
  OBVIOUS
<1>1. CfgInv
  BY CfgInitInv
<1>2. Len(cmdline) \in Nat /\ 0 \in 0 .. Len(cmdline) /\ argv = cmdline
  BY <1>1, CommandLineIs DEF CfgInit
<1>3. ReadRest(cmdline, 0, argv)
  BY <1>2 DEF ReadRest
<1> DEFINE d == [dp_init EXCEPT !.n = 1]
<1>4. DpFields \subseteq DOMAIN d /\ d.n = 1 /\ d.name = NoName /\ d.lua = <<>>
  BY DEF dp_init, DpFields
<1>5. profiles = <<d>> /\ templates = <<>>
  BY DEF CfgInit
<1> HIDE DEF d
<1>6. Number(cmdline, 0) = 1 /\ ProfileEnds(cmdline, 0) = {} /\ TemplateEnds(cmdline, 0) = {}
  BY <1>2, NumberStep, EndsStep
<1>7. ~IsSkipped(cmdline, 0) /\ ~IsTemplate(cmdline, 0) /\ NameAt(cmdline, 0) = NoName
      /\ \A f \in InFields : InForce(cmdline, f, 0) = InProfile[f]
  <2>1. 0 \in Nat
    OBVIOUS
  <2> QED
    BY <2>1, FlagStep, NameStep, InForceStep
<1>8. Instances(cmdline)[0] = <<>>
  <2>1. Instances(cmdline)[0] = At(cmdline, Instances(cmdline), 0)
    BY <1>2, InstancesAre
  <2>2. At(cmdline, Instances(cmdline), 0) = <<>>
    BY AtIs
  <2> QED
    BY <2>1, <2>2
<1>9. dp = d /\ Len(profiles) = 1 /\ ToSet(templates) = {}
  BY <1>5 DEF dp, ToSet
<1>10. ReadDp(cmdline, 0, dp)
  BY <1>4, <1>6, <1>7, <1>8, <1>9 DEF ReadDp
<1>11. ReadLoc(cmdline, 0, loc)
  <2>1. /\ LocFields \subseteq DOMAIN loc /\ loc.skip = FALSE /\ loc.template = FALSE
        /\ loc.in = InProfile /\ loc.count = 1
    BY DEF CfgInit, LocFields
  <2> QED
    BY <1>6, <1>7, <2>1 DEF ReadLoc
<1>12. ReadProfiles(cmdline, 0, profiles) /\ ReadTemplates(cmdline, 0, ToSet(templates))
  BY <1>6, <1>9 DEF ReadProfiles, ReadTemplates
<1> QED
  BY <1>2, <1>3, <1>10, <1>11, <1>12 DEF TextInv, ReadTo

LEMMA TextStep ==
  ASSUME CfgInv, TextInv, CfgNext
  PROVE  TextInv' /\ (phase' = "run" /\ phase # "run" => AsWritten(cmdline', profiles'))
<1>1. phase = "options"
  BY ZenonT(30) DEF CfgNext, BadOption, GlobalOption, ListOption, ItemsOption, AutoOption, FailValueOption,
         FilterOption, InProfileOption, LuaDesyncOption, NewOption, SkipOption, NameOption,
         ImportOption, EndOfOptions, Option
<1>2. PICK k \in 0 .. Len(cmdline) : ReadTo(k)
  BY <1>1 DEF TextInv
<1>3. CASE exit_clean
  <2>1. phase' = "exit"
    BY <1>3 DEF exit_clean
  <2> QED
    BY <2>1 DEF TextInv
<1>4. CASE EndOfOptions /\ ~exit_clean
  <2>1. AsWritten(cmdline', profiles') /\ phase' = "run"
    BY <1>2, <1>4, EndReads
  <2> QED
    BY <2>1 DEF TextInv
<1>5. CASE ~EndOfOptions /\ ~exit_clean
  <2>1. TextInv'
    <3>1. CASE GlobalOption \/ ListOption \/ ItemsOption \/ FailValueOption \/ FilterOption
      BY <1>1, <1>2, <3>1, PlainOptions, Zenon
    <3>2. CASE AutoOption
      BY <1>1, <1>2, <1>5, <3>2, AutoIsPlain, Zenon
    <3>3. CASE InProfileOption
      BY <1>1, <1>2, <3>3, InProfileStep, Zenon
    <3>4. CASE LuaDesyncOption
      BY <1>1, <1>2, <3>4, LuaDesyncStep, Zenon
    <3>5. CASE SkipOption \/ NameOption
      BY <1>1, <1>2, <3>5, FlagOptions, Zenon
    <3>6. CASE ImportOption
      BY <1>1, <1>2, <1>5, <3>6, ImportStep, Zenon
    <3>7. CASE NewOption
      BY <1>1, <1>2, <1>5, <3>7, NewStep, Zenon
    <3>8. ~BadOption
      BY <1>5, Zenon DEF BadOption
    <3> QED
      BY <1>5, <3>1, <3>2, <3>3, <3>4, <3>5, <3>6, <3>7, <3>8, Zenon DEF CfgNext
  <2>2. phase' = phase
    BY <1>5, ZenonT(30) DEF CfgNext, BadOption, GlobalOption, ListOption, ItemsOption, AutoOption,
       FailValueOption, FilterOption, InProfileOption, LuaDesyncOption, NewOption, SkipOption,
       NameOption, ImportOption, Done
  <2> QED
    BY <1>1, <2>1, <2>2
<1> QED
  BY <1>3, <1>4, <1>5, Zenon

\* For every command line that is not refused the profiles are the sections of its
\* text that are neither skipped nor templates, each with the instances that stand
\* there, under the filters in force at their places, and those of the templates
\* imported; the default profile is the last one (main of nfqws.c).
THEOREM ReadAsWritten == Spec => ConfigIsAsWritten
<1> DEFINE Inv == QuietInv /\ CfgInv /\ TextInv
<1>1. Init => Inv
  <2>1. Init => QuietInv /\ CfgInv
    BY CacheStart
  <2> QED
    BY <2>1, TextStart DEF Init
<1>2. Inv /\ [Next]_vars => Inv'
  <2> SUFFICES ASSUME Inv, [Next]_vars PROVE Inv'
    OBVIOUS
  <2>1. QuietInv' /\ CfgInv'
    BY CfgStep
  <2>2. CfgNext \/ UNCHANGED cfgVars
    BY CfgStep
  <2>3. TextInv'
    <3>1. CASE CfgNext
      BY <3>1, TextStep
    <3>2. CASE UNCHANGED cfgVars
      BY <3>2 DEF cfgVars, TextInv, ReadTo, dp
    <3> QED
      BY <2>2, <3>1, <3>2
  <2> QED
    BY <2>1, <2>3
<1>3. Inv /\ [Next]_vars => [phase' = "run" /\ phase # "run" => AsWritten(cmdline', profiles')]_cfgVars
  BY CfgStep, TextStep
<1> QED
  BY <1>1, <1>2, <1>3, PTL DEF Spec, ConfigIsAsWritten
=============================================================================
