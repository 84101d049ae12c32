--------------------------- MODULE FrontEnds_proof --------------------------
(***************************************************************************)
(* The whole program on its three systems, for every way of starting it    *)
(* and every number of lists, packets, signals and edits.                  *)
(***************************************************************************)
EXTENDS FrontEnds, TLAPS

-----------------------------------------------------------------------------
(* What a step of the program does to the lists.                           *)

listVars == <<bReload, mem, mod_sig, todo, round, fsig, failed, disk, asked, due>>

\* the main thread goes from one place to another, none of them a part of reloading
Moves ==
    /\ UNCHANGED listVars
    /\ pc \notin {"test", "list", "read", "reloaded"}
    /\ pc' \notin {"list", "read", "reloaded", "handle"}

LoopStep ==
    \/ UNCHANGED <<listVars, pc>>
    \/ Moves
    \/ ReloadCheck \/ Unchanged \/ Destroy \/ Read \/ RoundDone \/ Reloaded \/ Handle
    \/ \E to \in {pc, Interrupts} : onhup(to)
    \/ \E f \in Files, st \in {"ok", "gone", "broken"}, same \in BOOLEAN : Edit(f, st, same)

LEMMA LoopShape ==
    ASSUME [ProgNext]_progVars
    PROVE  LoopStep
  <1>1. CASE MainStep
    <2>1. ASSUME Inner PROVE LoopStep
      BY <2>1 DEF Inner, LoopStep, Verdict, Moves, listVars, Goto, env
    <2>2. ASSUME Main PROVE LoopStep
      <3>1. CASE \/ ReloadCheck \/ Unchanged \/ Destroy \/ Read \/ RoundDone \/ Reloaded
                 \/ Handle
        BY <3>1 DEF LoopStep
      <3>2. CASE Top \/ Block \/ RecvPacket \/ RecvNoBufs \/ Verdict \/ Check
        BY <3>2 DEF LoopStep, Moves, listVars, Goto, Top, Block, RecvPacket, RecvNoBufs, Verdict, Check,
                    env, history
      <3> QED BY <2>2, <3>1, <3>2 DEF Main
    <2>3. ASSUME Dvt PROVE LoopStep
      <3>1. CASE Top \/ Sleep \/ Select \/ RecvFrom \/ Again
        BY <3>1 DEF LoopStep, Moves, listVars, Goto, Top, Sleep, Select, RecvFrom, Again, env, history
      <3> QED BY <2>1, <2>3, <3>1 DEF Dvt
    <2>4. ASSUME Win PROVE LoopStep
      <3>1. CASE Sleep \/ windivert_recv \/ Again
        BY <3>1 DEF LoopStep, Moves, listVars, Goto, Sleep, windivert_recv, Again, env, history
      <3>2. CASE RecvExit
        BY <3>2 DEF LoopStep, Moves, listVars, Goto, RecvExit, windivert_recv_exit, env, history
      <3> QED BY <2>1, <2>4, <3>1, <3>2 DEF Win
    <2> QED BY <1>1, <2>2, <2>3, <2>4 DEF MainStep
  <1>2. CASE Fails
    BY <1>2 DEF Fails, RecvFails, RecvFromFails, LoopStep, Moves, listVars, Goto, env, history
  <1>3. CASE CaughtSignal
    <2>1. PICK to \in {pc, Interrupts} : onhup(to) \/ onterm(to)
      BY <1>3 DEF CaughtSignal
    <2>2. CASE onterm(to)
      BY <2>1, <2>2 DEF onterm, Signal, Goto, Interrupts, LoopStep, Moves, listVars
    <2> QED BY <2>1, <2>2 DEF LoopStep
  <1>4. CASE World
    <2>1. CASE Arrive
      BY <2>1 DEF Arrive, LoopStep, listVars, main, history
    <2> QED BY <1>4, <2>1 DEF World, LoopStep
  <1>5. CASE StartStep \/ logical_net \/ Leave \/ KillingSignal \/ NetChanges \/ Over
    <2>1. UNCHANGED vars
      BY <1>5 DEF StartStep, logical_net, Leave, KillingSignal, NetChanges, Over, progVars
    <2> QED BY <2>1 DEF vars, main, env, history, LoopStep, listVars
  <1>6. CASE NetworkGone
    BY <1>6 DEF NetworkGone, Goto, LoopStep, Moves, listVars, history
  <1>7. CASE UNCHANGED progVars
    BY <1>7 DEF progVars, vars, main, env, history, LoopStep, listVars
  <1> QED BY <1>1, <1>2, <1>3, <1>4, <1>5, <1>6, <1>7 DEF ProgNext, Program

-----------------------------------------------------------------------------
(* The lists.                                                              *)

Hup == [ver : [Files -> Nat], during : BOOLEAN]

ListType ==
    /\ disk \in [Files -> [ver : Nat, sig : Nat, st : {"ok", "gone", "broken"}]]
    /\ mem \in [Files -> Nat] /\ mod_sig \in [Files -> Nat] /\ fsig \in Nat
    /\ todo \in Seq(Files)
    /\ asked \in Hup /\ due \in Hup
    /\ pc \in {"list", "read"} => round \in {"hostlists", "ipsets", "profile"}
    /\ pc = "read" => todo # <<>>

\* Signatures grow.  One that is the file's was taken with what is in memory or before
\* it: a list is destroyed only when its signature is older than the file's, and then it
\* stays older.
SigInv ==
    /\ \A f \in Files :
         /\ 1 <= disk[f].sig /\ disk[f].sig <= disk[f].ver
         /\ mod_sig[f] <= disk[f].sig
         /\ mod_sig[f] < disk[f].sig \/ mod_sig[f] <= mem[f]
    /\ pc = "read" => fsig <= disk[Head(todo)].sig

BeingRead(f) == pc = "read" /\ f = Head(todo)

\* lists of this round of a reload, and of the rounds before it
Begun == IF pc \in {"list", "read"} /\ round = "hostlists" THEN Elems(Hostlists) ELSE Files

\* In a reload a list is new enough, or will be loaded whatever its signature.  Between
\* reloads all lists are as new as the last HUP asked, unless it came during a reload.
HupInv ==
    /\ \A f \in Files : asked.ver[f] <= disk[f].ver /\ due.ver[f] <= disk[f].ver
    /\ Reloading /\ ~asked.during => asked = due
    /\ Reloading => \A f \in Begun :
         mem[f] >= due.ver[f] \/ BeingRead(f)
         \/ (pc # "reloaded" /\ f \in Elems(todo) /\ mod_sig[f] = 0)
    /\ ~bReload /\ ~asked.during => \A f \in Files : mem[f] >= asked.ver[f] \/ BeingRead(f)
    /\ HupIsHonoured

ListInv == ListType /\ SigInv /\ HupInv

LEMMA ElemsTail ==
    ASSUME NEW S, NEW s \in Seq(S), s # <<>>
    PROVE  /\ Head(s) \in S /\ Tail(s) \in Seq(S)
           /\ Elems(s) = {Head(s)} \cup Elems(Tail(s))
  <1>1. /\ Len(s) \in Nat /\ Len(s) >= 1 /\ Head(s) = s[1] /\ DOMAIN s = 1 .. Len(s)
        /\ Tail(s) \in Seq(S) /\ DOMAIN Tail(s) = 1 .. Len(s) - 1
        /\ \A i \in 1 .. Len(s) - 1 : Tail(s)[i] = s[i + 1]
        /\ s[1] \in S
    OBVIOUS
  <1>2. ASSUME NEW x \in Elems(s) PROVE x \in {Head(s)} \cup Elems(Tail(s))
    <2>1. PICK i \in 1 .. Len(s) : x = s[i]
      BY <1>1, <1>2 DEF Elems
    <2>2. CASE i = 1
      BY <1>1, <2>1, <2>2
    <2>3. CASE i # 1
      <3>1. i - 1 \in 1 .. Len(s) - 1 /\ Tail(s)[i - 1] = s[i]
        BY <1>1, <2>3
      <3> QED BY <1>1, <2>1, <3>1 DEF Elems
    <2> QED BY <2>2, <2>3
  <1>3. Head(s) \in Elems(s)
    <2>1. 1 \in DOMAIN s
      BY <1>1
    <2> QED BY <1>1, <2>1 DEF Elems
  <1>4. ASSUME NEW x \in Elems(Tail(s)) PROVE x \in Elems(s)
    <2>1. PICK i \in 1 .. Len(s) - 1 : x = Tail(s)[i]
      BY <1>1, <1>4 DEF Elems
    <2>2. i + 1 \in DOMAIN s /\ x = s[i + 1]
      BY <1>1, <2>1
    <2> QED BY <2>2 DEF Elems
  <1> QED BY <1>1, <1>2, <1>3, <1>4

LEMMA ListsAre ==
    /\ Hostlists \in Seq(Files) /\ Ipsets \in Seq(Files) /\ Hostlists \o Ipsets \in Seq(Files)
    /\ Elems(Hostlists) \subseteq Files /\ Elems(Ipsets) \subseteq Files
    /\ Files = Elems(Hostlists) \cup Elems(Ipsets)
  <1>1. Elems(Hostlists) \subseteq Files /\ Elems(Ipsets) \subseteq Files
    BY DEF Files
  <1>2. Hostlists \in Seq(Files) /\ Ipsets \in Seq(Files)
    BY <1>1, NfqMainAssumption
  <1> QED BY <1>1, <1>2 DEF Files

LEMMA ListInit == ProgInit => ListInv
  <1> SUFFICES ASSUME ProgInit PROVE ListInv
    OBVIOUS
  <1>1. /\ pc = "top" /\ bReload = FALSE /\ todo = <<>> /\ fsig = 0
        /\ mem = [f \in Files |-> 1] /\ mod_sig = [f \in Files |-> 1]
        /\ disk = [f \in Files |-> [ver |-> 1, sig |-> 1, st |-> "ok"]]
        /\ asked = [ver |-> [f \in Files |-> 0], during |-> FALSE] /\ due = asked
    BY DEF ProgInit, Init
  <1>2. ListType
    <2>1. disk \in [Files -> [ver : Nat, sig : Nat, st : {"ok", "gone", "broken"}]] /\ todo \in Seq(Files)
      BY <1>1
    <2>2. mem \in [Files -> Nat] /\ mod_sig \in [Files -> Nat] /\ fsig \in Nat
      BY <1>1
    <2>3. asked \in Hup /\ due \in Hup
      BY <1>1 DEF Hup
    <2> QED BY <1>1, <2>1, <2>2, <2>3 DEF ListType
  <1>3. SigInv
    BY <1>1 DEF SigInv
  <1>4. /\ ~Reloading /\ pc # "handle" /\ asked = due
        /\ \A f \in Files : asked.ver[f] = 0 /\ mem[f] = 1 /\ disk[f].ver = 1
    BY <1>1 DEF Reloading
  <1>5. HupInv
    BY <1>4 DEF HupInv, HupIsHonoured
  <1> QED BY <1>2, <1>3, <1>5 DEF ListInv

\* Nothing changes that matters to the lists.
LEMMA ListStill ==
    ASSUME ListInv, UNCHANGED <<listVars, pc>>
    PROVE  ListInv'
  BY DEF ListInv, ListType, SigInv, HupInv, BeingRead, Begun, Reloading, HupIsHonoured, listVars

LEMMA ListMoves ==
    ASSUME ListInv, Moves
    PROVE  ListInv'
  <1>1. /\ UNCHANGED listVars
        /\ pc \notin {"test", "list", "read", "reloaded"}
        /\ pc' \notin {"list", "read", "reloaded", "handle"}
    BY DEF Moves
  <1>2. ListType' /\ SigInv'
    BY <1>1 DEF ListInv, ListType, SigInv, listVars
  <1>3. HupInv'
    BY <1>1 DEF ListInv, HupInv, BeingRead, Reloading, HupIsHonoured, listVars
  <1> QED BY <1>2, <1>3 DEF ListInv

LEMMA ListReloadCheck ==
    ASSUME ListInv, ReloadCheck
    PROVE  ListInv'
  <1>1. /\ pc = "test" /\ due' = asked
        /\ UNCHANGED <<bReload, mem, fsig, disk, asked>>
    BY DEF ReloadCheck, env
  <1>2. CASE bReload
    <2>1. /\ mod_sig' = ResetModTime(Hostlists) /\ round' = "hostlists" /\ todo' = Hostlists
          /\ pc' = "list"
      BY <1>2 DEF ReloadCheck, Goto
    <2>2. /\ mod_sig' \in [Files -> Nat]
          /\ \A f \in Files : mod_sig'[f] = 0 \/ mod_sig'[f] = mod_sig[f]
          /\ \A f \in Elems(Hostlists) : mod_sig'[f] = 0
      BY <2>1, ListsAre DEF ResetModTime, ListInv, ListType
    <2>3. ListType'
      BY <1>1, <2>1, <2>2, ListsAre DEF ListInv, ListType
    <2>4. SigInv'
      <3>1. \A f \in Files : disk[f].sig \in Nat /\ mem[f] \in Nat /\ mod_sig[f] \in Nat
        BY DEF ListInv, ListType
      <3>2. \A f \in Files : mod_sig'[f] <= disk[f].sig /\ (mod_sig'[f] < disk[f].sig \/ mod_sig'[f] <= mem[f])
        BY <2>2, <3>1 DEF ListInv, SigInv
      <3> QED BY <1>1, <2>1, <3>2 DEF ListInv, SigInv
    <2>5. Begun' = Elems(Hostlists) /\ Elems(todo') = Elems(Hostlists) /\ pc' # "reloaded"
      BY <2>1 DEF Begun
    <2>6. HupInv'
      BY <1>1, <1>2, <2>1, <2>2, <2>5 DEF ListInv, HupInv, HupIsHonoured
    <2> QED BY <2>3, <2>4, <2>6 DEF ListInv
  <1>3. CASE ~bReload
    <2>1. pc' = "handle" /\ UNCHANGED <<mod_sig, round, todo>>
      BY <1>3 DEF ReloadCheck, Goto
    <2>2. ListType' /\ SigInv'
      BY <1>1, <2>1 DEF ListInv, ListType, SigInv
    <2>3. ~Reloading' /\ ~BeingRead(0) /\ \A f \in Files : ~BeingRead(f)
      BY <1>1, <2>1 DEF Reloading, BeingRead
    <2>4. ~asked.during => \A f \in Files : mem[f] >= asked.ver[f]
      BY <1>3, <2>3 DEF ListInv, HupInv
    <2>5. HupInv'
      BY <1>1, <2>1, <2>3, <2>4 DEF ListInv, HupInv, HupIsHonoured
    <2> QED BY <2>2, <2>5 DEF ListInv
  <1> QED BY <1>2, <1>3

\* What a HUP asked is not more after a list was excused.
LEMMA ExcusedIs ==
    ASSUME NEW hup \in Hup, NEW f \in Files
    PROVE  /\ Excused(hup, f) \in Hup /\ Excused(hup, f).during = hup.during
           /\ Excused(hup, f).ver[f] = 0
           /\ \A g \in Files : Excused(hup, f).ver[g] \in {0, hup.ver[g]}
           /\ \A g \in Files \ {f} : Excused(hup, f).ver[g] = hup.ver[g]
  BY DEF Excused, Hup

LEMMA ListUnchanged ==
    ASSUME ListInv, Unchanged
    PROVE  ListInv'
  <1> DEFINE f == Head(todo)
  <1>1. /\ pc = "list" /\ todo # <<>> /\ todo' = Tail(todo)
        /\ UNCHANGED <<pc, bReload, mem, mod_sig, round, fsig, failed, disk>>
    BY DEF Unchanged, env
  <1>2. f \in Files /\ Tail(todo) \in Seq(Files) /\ Elems(todo) = {f} \cup Elems(Tail(todo))
    BY <1>1, ElemsTail DEF ListInv, ListType
  <1>3. \/ due' = Excused(due, f) /\ asked' = Excused(asked, f)
        \/ due' = due /\ asked' = asked /\ disk[f].sig = mod_sig[f]
    BY DEF Unchanged
  <1> HIDE DEF f
  <1>4. asked \in Hup /\ due \in Hup
    BY DEF ListInv, ListType
  <1>5. /\ asked' \in Hup /\ due' \in Hup
        /\ asked'.during = asked.during /\ (asked = due => asked' = due')
        /\ \A g \in Files : asked'.ver[g] \in {0, asked.ver[g]} /\ due'.ver[g] \in {0, due.ver[g]}
        /\ due'.ver[f] = 0 \/ disk[f].sig = mod_sig[f]
    <2>1. CASE due' = due /\ asked' = asked /\ disk[f].sig = mod_sig[f]
      BY <1>4, <2>1
    <2>2. CASE due' = Excused(due, f) /\ asked' = Excused(asked, f)
      BY <1>2, <1>4, <2>2, ExcusedIs
    <2> QED BY <1>3, <2>1, <2>2
  <1>6. ListType'
    BY <1>1, <1>2, <1>5 DEF ListInv, ListType
  <1>7. SigInv'
    BY <1>1 DEF ListInv, SigInv
  <1>8. \A g \in Files : /\ mem[g] \in Nat /\ mod_sig[g] \in Nat /\ disk[g].sig \in Nat /\ disk[g].ver \in Nat
                         /\ asked.ver[g] \in Nat /\ due.ver[g] \in Nat /\ disk[g].sig >= 1
    BY DEF ListInv, ListType, SigInv, Hup
  <1>9. (Reloading <=> Reloading') /\ Begun' = Begun /\ Begun \subseteq Files
    BY <1>1, ListsAre DEF Reloading, Begun
  <1>10. \A g \in Files : ~BeingRead(g) /\ ~BeingRead(g)'
    BY <1>1 DEF BeingRead
  <1>11. ASSUME Reloading', NEW g \in Begun
         PROVE  mem'[g] >= due'.ver[g] \/ (pc' # "reloaded" /\ g \in Elems(todo') /\ mod_sig'[g] = 0)
    <2>1. mem[g] >= due.ver[g] \/ (g \in Elems(todo) /\ mod_sig[g] = 0)
      BY <1>9, <1>10, <1>11 DEF ListInv, HupInv
    <2>2. g \in Files
      BY <1>9, <1>11
    <2>3. CASE mem[g] >= due.ver[g]
      BY <1>1, <1>5, <1>8, <2>2, <2>3
    <2>4. CASE g \in Elems(todo) /\ mod_sig[g] = 0
      <3>1. CASE g = f
        BY <1>1, <1>5, <1>8, <2>2, <2>4, <3>1
      <3>2. CASE g # f
        BY <1>1, <1>2, <2>4, <3>2
      <3> QED BY <3>1, <3>2
    <2> QED BY <2>1, <2>3, <2>4
  <1>12. \A g \in Files : asked'.ver[g] <= disk'[g].ver /\ due'.ver[g] <= disk'[g].ver
    BY <1>1, <1>5, <1>8 DEF ListInv, HupInv
  <1>13. ~bReload' /\ ~asked'.during => \A g \in Files : mem'[g] >= asked'.ver[g]
    BY <1>1, <1>5, <1>8, <1>10 DEF ListInv, HupInv
  <1>14. Reloading' /\ ~asked'.during => asked' = due'
    BY <1>5, <1>9 DEF ListInv, HupInv
  <1>15. HupIsHonoured'
    BY <1>1 DEF HupIsHonoured
  <1>16. HupInv'
    BY <1>9, <1>11, <1>12, <1>13, <1>14, <1>15 DEF HupInv
  <1> QED BY <1>6, <1>7, <1>16 DEF ListInv

\* What the invariant says of one list.
LEMMA ListFacts ==
    ASSUME ListInv
    PROVE  /\ asked \in Hup /\ due \in Hup /\ fsig \in Nat /\ todo \in Seq(Files)
           /\ mem \in [Files -> Nat] /\ mod_sig \in [Files -> Nat] /\ Begun \subseteq Files
           /\ \A g \in Files :
                /\ mem[g] \in Nat /\ mod_sig[g] \in Nat /\ disk[g].sig \in Nat /\ disk[g].ver \in Nat
                /\ asked.ver[g] \in Nat /\ due.ver[g] \in Nat
                /\ asked.ver[g] <= disk[g].ver /\ due.ver[g] <= disk[g].ver
                /\ 1 <= disk[g].sig /\ disk[g].sig <= disk[g].ver /\ mod_sig[g] <= disk[g].sig
                /\ mod_sig[g] < disk[g].sig \/ mod_sig[g] <= mem[g]
  <1>1. Begun \subseteq Files
    BY ListsAre DEF Begun
  <1>2. /\ asked \in Hup /\ due \in Hup /\ fsig \in Nat /\ todo \in Seq(Files)
        /\ mem \in [Files -> Nat] /\ mod_sig \in [Files -> Nat]
    BY DEF ListInv, ListType
  <1>3. \A g \in Files : mem[g] \in Nat /\ mod_sig[g] \in Nat /\ disk[g].sig \in Nat /\ disk[g].ver \in Nat
    BY DEF ListInv, ListType
  <1>4. \A g \in Files : asked.ver[g] \in Nat /\ due.ver[g] \in Nat
    BY <1>2 DEF Hup
  <1>5. \A g \in Files : asked.ver[g] <= disk[g].ver /\ due.ver[g] <= disk[g].ver
    BY DEF ListInv, HupInv
  <1>6. \A g \in Files :
          /\ 1 <= disk[g].sig /\ disk[g].sig <= disk[g].ver /\ mod_sig[g] <= disk[g].sig
          /\ mod_sig[g] < disk[g].sig \/ mod_sig[g] <= mem[g]
    BY DEF ListInv, SigInv
  <1> QED BY <1>1, <1>2, <1>3, <1>4, <1>5, <1>6

LEMMA ListDestroy ==
    ASSUME ListInv, Destroy
    PROVE  ListInv'
  <1> DEFINE f == Head(todo)
  <1>1. /\ pc = "list" /\ todo # <<>> /\ pc' = "read"
        /\ UNCHANGED <<bReload, mod_sig, todo, round, disk, asked, due>>
        /\ disk[f].sig # mod_sig[f] /\ fsig' = disk[f].sig /\ mem' = [mem EXCEPT ![f] = 0]
    BY DEF Destroy, Goto, env, history
  <1>2. f \in Files
    BY <1>1, ElemsTail DEF ListInv, ListType
  <1>3. \A g \in Files : BeingRead(g)' <=> g = f
    BY <1>1 DEF BeingRead
  <1>10. \A g \in Files : ~BeingRead(g)
    BY <1>1 DEF BeingRead
  <1>4. fsig' <= disk'[Head(todo')].sig
    BY <1>1, <1>2, ListFacts
  <1> HIDE DEF f
  <1>5. mem' \in [Files -> Nat] /\ mem'[f] = 0 /\ \A g \in Files \ {f} : mem'[g] = mem[g]
    BY <1>1, <1>2, ListFacts
  <1>6. ListType'
    BY <1>1, <1>2, <1>5, ListFacts DEF ListInv, ListType
  <1>7. SigInv'
    <2>1. \A g \in Files : mod_sig[g] < disk[g].sig \/ mod_sig[g] <= mem'[g]
      BY <1>1, <1>2, <1>5, ListFacts
    <2> QED BY <1>1, <1>4, <2>1, ListFacts DEF SigInv
  <1>9. (Reloading <=> Reloading') /\ Begun' = Begun
    BY <1>1 DEF Reloading, Begun
  <1>11. ASSUME Reloading', NEW g \in Begun
         PROVE  mem'[g] >= due'.ver[g] \/ BeingRead(g)'
                \/ (pc' # "reloaded" /\ g \in Elems(todo') /\ mod_sig'[g] = 0)
    <2>1. mem[g] >= due.ver[g] \/ (g \in Elems(todo) /\ mod_sig[g] = 0)
      BY <1>9, <1>10, <1>11, ListFacts DEF ListInv, HupInv
    <2> QED BY <1>1, <1>3, <1>5, <2>1, ListFacts
  <1>13. ~bReload' /\ ~asked'.during => \A g \in Files : mem'[g] >= asked'.ver[g] \/ BeingRead(g)'
    BY <1>1, <1>3, <1>5, <1>10 DEF ListInv, HupInv
  <1>15. HupIsHonoured'
    BY <1>1 DEF HupIsHonoured
  <1>16. HupInv'
    <2>1. \A g \in Files : asked'.ver[g] <= disk'[g].ver /\ due'.ver[g] <= disk'[g].ver
      BY <1>1, ListFacts
    <2>2. Reloading' /\ ~asked'.during => asked' = due'
      BY <1>1, <1>9 DEF ListInv, HupInv
    <2> QED BY <1>9, <1>11, <1>13, <1>15, <2>1, <2>2 DEF HupInv
  <1> QED BY <1>6, <1>7, <1>16 DEF ListInv

LEMMA ListRead ==
    ASSUME ListInv, Read
    PROVE  ListInv'
  <1> DEFINE f == Head(todo)
  <1>1. /\ pc = "read" /\ pc' = "list" /\ todo # <<>>
        /\ UNCHANGED <<bReload, round, fsig, disk>>
        /\ todo' = Tail(todo) \/ (round = "profile" /\ todo' = <<>>)
    BY DEF Read, Goto, env, ListInv, ListType
  <1>2. f \in Files /\ Tail(todo) \in Seq(Files) /\ Elems(todo) = {f} \cup Elems(Tail(todo))
    BY <1>1, ElemsTail DEF ListInv, ListType
  <1>3. \A g \in Files : (BeingRead(g) <=> g = f) /\ ~BeingRead(g)'
    BY <1>1 DEF BeingRead
  <1>4. fsig <= disk[f].sig
    BY <1>1 DEF ListInv, SigInv
  <1>5. \/ /\ mem' = [mem EXCEPT ![f] = disk[f].ver]
           /\ mod_sig' = [mod_sig EXCEPT ![f] = fsig]
           /\ due' = due /\ asked' = asked
        \/ /\ due' = Excused(due, f) /\ asked' = Excused(asked, f)
           /\ mem' = mem /\ mod_sig' = mod_sig
    BY DEF Read
  <1> HIDE DEF f
  <1>6. /\ asked' \in Hup /\ due' \in Hup /\ mem' \in [Files -> Nat] /\ mod_sig' \in [Files -> Nat]
        /\ asked'.during = asked.during /\ (asked = due => asked' = due')
        /\ \A g \in Files : asked'.ver[g] \in {0, asked.ver[g]} /\ due'.ver[g] \in {0, due.ver[g]}
        /\ mem'[f] >= due'.ver[f] /\ mem'[f] >= asked'.ver[f]
        /\ \A g \in Files \ {f} : mem'[g] = mem[g] /\ mod_sig'[g] = mod_sig[g]
        /\ mod_sig'[f] <= disk[f].sig
        /\ mod_sig'[f] < disk[f].sig \/ mod_sig'[f] <= mem'[f]
    <2>1. CASE /\ mem' = [mem EXCEPT ![f] = disk[f].ver]
               /\ mod_sig' = [mod_sig EXCEPT ![f] = fsig]
               /\ due' = due /\ asked' = asked
      <3>1. /\ mem'[f] = disk[f].ver /\ mod_sig'[f] = fsig
            /\ \A g \in Files \ {f} : mem'[g] = mem[g] /\ mod_sig'[g] = mod_sig[g]
            /\ mem' \in [Files -> Nat] /\ mod_sig' \in [Files -> Nat]
        BY <1>2, <2>1, ListFacts
      <3>2. fsig \in Nat /\ disk[f].sig \in Nat /\ disk[f].ver \in Nat /\ disk[f].sig <= disk[f].ver
            /\ asked.ver[f] <= disk[f].ver /\ due.ver[f] <= disk[f].ver
        BY <1>2, ListFacts
      <3>3. mem'[f] >= due.ver[f] /\ mem'[f] >= asked.ver[f]
            /\ mod_sig'[f] <= disk[f].sig /\ mod_sig'[f] <= mem'[f]
        BY <1>2, <1>4, <3>1, <3>2, ListFacts, SMTT(30)
      <3> QED BY <2>1, <3>1, <3>3, ListFacts
    <2>2. CASE /\ due' = Excused(due, f) /\ asked' = Excused(asked, f)
               /\ mem' = mem /\ mod_sig' = mod_sig
      <3>1. mem'[f] \in Nat /\ due'.ver[f] = 0 /\ asked'.ver[f] = 0
        BY <1>2, <2>2, ExcusedIs, ListFacts
      <3>2. /\ asked' \in Hup /\ due' \in Hup /\ asked'.during = asked.during
            /\ \A g \in Files : asked'.ver[g] \in {0, asked.ver[g]} /\ due'.ver[g] \in {0, due.ver[g]}
        BY <1>2, <2>2, ExcusedIs, ListFacts
      <3> QED BY <1>2, <2>2, <3>1, <3>2, ListFacts
    <2> QED BY <1>5, <2>1, <2>2
  <1>7. ListType'
    <2>1. todo' \in Seq(Files)
      <3>1. CASE todo' = <<>>
        BY <3>1
      <3> QED BY <1>1, <1>2, <3>1
    <2>2. round' \in {"hostlists", "ipsets", "profile"} /\ fsig' \in Nat
      BY <1>1 DEF ListInv, ListType
    <2>3. disk' \in [Files -> [ver : Nat, sig : Nat, st : {"ok", "gone", "broken"}]]
      BY <1>1 DEF ListInv, ListType
    <2> QED BY <1>1, <1>6, <2>1, <2>2, <2>3 DEF ListType
  <1>8. SigInv'
    <2>1. \A g \in Files :
            /\ mod_sig'[g] <= disk[g].sig
            /\ mod_sig'[g] < disk[g].sig \/ mod_sig'[g] <= mem'[g]
      BY <1>2, <1>6, ListFacts
    <2> QED BY <1>1, <2>1, ListFacts DEF SigInv
  <1>9. (Reloading <=> Reloading') /\ Begun' = Begun
    BY <1>1 DEF Reloading, Begun
  <1>11. ASSUME Reloading', NEW g \in Begun
         PROVE  mem'[g] >= due'.ver[g] \/ (pc' # "reloaded" /\ g \in Elems(todo') /\ mod_sig'[g] = 0)
    <2>1. g \in Files /\ todo' = Tail(todo)
      BY <1>1, <1>9, <1>11, ListFacts DEF Reloading
    <2>2. CASE g = f
      BY <1>6, <2>2
    <2>3. CASE g # f
      <3>1. mem[g] >= due.ver[g] \/ (g \in Elems(todo) /\ mod_sig[g] = 0)
        BY <1>3, <1>9, <1>11, <2>1, <2>3 DEF ListInv, HupInv
      <3>2. mem'[g] = mem[g] /\ mod_sig'[g] = mod_sig[g] /\ due'.ver[g] \in {0, due.ver[g]} /\ mem[g] \in Nat
        BY <1>6, <2>1, <2>3, ListFacts
      <3> QED BY <1>1, <1>2, <2>1, <2>3, <3>1, <3>2
    <2> QED BY <2>2, <2>3
  <1>12. \A g \in Files : asked'.ver[g] <= disk'[g].ver /\ due'.ver[g] <= disk'[g].ver
    <2> TAKE g \in Files
    <2>1. /\ asked'.ver[g] \in {0, asked.ver[g]} /\ due'.ver[g] \in {0, due.ver[g]}
          /\ disk'[g].ver = disk[g].ver
      BY <1>1, <1>6
    <2>2. asked.ver[g] <= disk[g].ver /\ due.ver[g] <= disk[g].ver /\ disk[g].ver \in Nat
      BY ListFacts
    <2> QED BY <2>1, <2>2
  <1>13. ASSUME ~bReload', ~asked'.during, NEW g \in Files PROVE mem'[g] >= asked'.ver[g]
    <2>1. g # f => mem[g] >= asked.ver[g]
      BY <1>1, <1>3, <1>6, <1>13 DEF ListInv, HupInv
    <2>2. mem[g] \in Nat /\ asked'.ver[g] \in {0, asked.ver[g]}
      BY <1>6, ListFacts
    <2>3. CASE g = f
      BY <1>6, <2>3
    <2>4. CASE g # f
      <3>1. mem'[g] = mem[g]
        BY <1>6, <2>4
      <3> QED BY <2>1, <2>2, <2>4, <3>1
    <2> QED BY <2>3, <2>4
  <1>14. Reloading' /\ ~asked'.during => asked' = due'
    BY <1>6, <1>9 DEF ListInv, HupInv
  <1>15. HupIsHonoured'
    BY <1>1 DEF HupIsHonoured
  <1>16. HupInv'
    BY <1>9, <1>11, <1>12, <1>13, <1>14, <1>15 DEF HupInv
  <1> QED BY <1>7, <1>8, <1>16 DEF ListInv

LEMMA ListRoundDone ==
    ASSUME ListInv, RoundDone
    PROVE  ListInv'
  <1>1. /\ pc = "list" /\ todo = <<>>
        /\ UNCHANGED <<bReload, mem, fsig, disk, asked, due>>
    BY DEF RoundDone, env, history
  <1>2. round \in {"hostlists", "ipsets", "profile"}
    BY <1>1 DEF ListInv, ListType
  <1>3. \A f \in Files : ~BeingRead(f)
    BY <1>1 DEF BeingRead
  <1>4. Elems(todo) = {}
    BY <1>1 DEF Elems
  <1>5. Reloading => \A f \in Begun : mem[f] >= due.ver[f]
    BY <1>3, <1>4, ListFacts DEF ListInv, HupInv
  <1>6. ~bReload /\ ~asked.during => \A f \in Files : mem[f] >= asked.ver[f]
    BY <1>3 DEF ListInv, HupInv
  <1>7. CASE pc' \notin {"list", "read", "reloaded", "handle"} /\ UNCHANGED <<todo, mod_sig>>
    <2>1. ListType' /\ SigInv'
      BY <1>1, <1>7 DEF ListInv, ListType, SigInv
    <2>2. HupInv'
      BY <1>1, <1>6, <1>7, ListFacts DEF HupInv, Reloading, HupIsHonoured
    <2> QED BY <2>1, <2>2 DEF ListInv
  <1>8. CASE round = "hostlists" /\ ~failed
    <2>1. /\ round' = "ipsets" /\ todo' = Ipsets /\ mod_sig' = ResetModTime(Ipsets) /\ pc' = "list"
      BY <1>1, <1>8 DEF RoundDone
    <2>2. /\ mod_sig' \in [Files -> Nat]
          /\ \A f \in Files : mod_sig'[f] = 0 \/ mod_sig'[f] = mod_sig[f]
          /\ \A f \in Elems(Ipsets) : mod_sig'[f] = 0
      BY <2>1, ListsAre, ListFacts DEF ResetModTime
    <2>3. ListType'
      BY <1>1, <2>1, <2>2, ListsAre DEF ListInv, ListType
    <2>4. SigInv'
      <3>1. \A f \in Files : mod_sig'[f] <= disk[f].sig /\ (mod_sig'[f] < disk[f].sig \/ mod_sig'[f] <= mem[f])
        <4> TAKE f \in Files
        <4>1. mod_sig'[f] = 0 \/ mod_sig'[f] = mod_sig[f]
          BY <2>2
        <4>2. /\ mod_sig[f] \in Nat /\ disk[f].sig \in Nat /\ disk[f].sig >= 1 /\ mod_sig[f] <= disk[f].sig
              /\ mod_sig[f] < disk[f].sig \/ mod_sig[f] <= mem[f]
          BY ListFacts
        <4> QED BY <4>1, <4>2
      <3> QED BY <1>1, <2>1, <3>1 DEF ListInv, SigInv
    <2>5. Reloading /\ Begun = Elems(Hostlists)
      BY <1>1, <1>8 DEF Reloading, Begun
    <2>6. \A f \in Files : mem[f] >= due.ver[f] \/ (f \in Elems(todo') /\ mod_sig'[f] = 0)
      BY <1>5, <2>1, <2>2, <2>5, ListsAre
    <2>7. Begun' = Files /\ pc' # "reloaded"
      BY <2>1 DEF Begun
    <2>8. Reloading' /\ ~asked'.during => asked' = due'
      BY <1>1, <2>5 DEF ListInv, HupInv
    <2>9. HupIsHonoured'
      BY <2>1 DEF HupIsHonoured
    <2>10. HupInv'
      BY <1>1, <1>6, <2>6, <2>7, <2>8, <2>9, ListFacts DEF HupInv
    <2> QED BY <2>3, <2>4, <2>10 DEF ListInv
  <1>9. CASE round = "ipsets" /\ ~failed
    <2>1. pc' = "reloaded" /\ UNCHANGED <<round, todo, mod_sig>>
      BY <1>1, <1>9 DEF RoundDone, Goto
    <2>2. ListType' /\ SigInv'
      BY <1>1, <2>1 DEF ListInv, ListType, SigInv
    <2>3. Reloading /\ Begun = Files /\ Begun' = Files
      BY <1>1, <1>9, <2>1 DEF Reloading, Begun
    <2>4. Reloading' /\ ~asked'.during => asked' = due'
      BY <1>1, <2>3 DEF ListInv, HupInv
    <2>5. HupIsHonoured'
      BY <2>1 DEF HupIsHonoured
    <2>6. HupInv'
      BY <1>1, <1>5, <1>6, <2>3, <2>4, <2>5, ListFacts DEF HupInv
    <2> QED BY <2>2, <2>6 DEF ListInv
  <1>10. CASE round = "profile" \/ failed
    <2>1. pc' \in {"verdict", "exit200"} /\ UNCHANGED <<todo, mod_sig>>
      BY <1>1, <1>2, <1>10 DEF RoundDone, Goto, ProfileDone
    <2> QED BY <1>7, <2>1
  <1> QED BY <1>2, <1>8, <1>9, <1>10

LEMMA ListReloaded ==
    ASSUME ListInv, Reloaded
    PROVE  ListInv'
  <1>1. /\ pc = "reloaded" /\ bReload' = FALSE /\ pc' = "handle"
        /\ UNCHANGED <<mem, mod_sig, todo, fsig, disk, asked, due>>
    BY DEF Reloaded, Goto, env, history
  <1>2. ListType' /\ SigInv'
    BY <1>1 DEF ListInv, ListType, SigInv
  <1>3. Reloading /\ Begun = Files /\ \A f \in Files : ~BeingRead(f)
    BY <1>1 DEF Reloading, Begun, BeingRead
  <1>4. \A f \in Files : mem[f] >= due.ver[f]
    BY <1>1, <1>3 DEF ListInv, HupInv
  <1>5. ~asked.during => asked = due
    BY <1>3 DEF ListInv, HupInv
  <1>6. ~Reloading'
    BY <1>1 DEF Reloading
  <1>7. HupInv'
    BY <1>1, <1>4, <1>5, <1>6, ListFacts DEF HupInv, HupIsHonoured
  <1> QED BY <1>2, <1>7 DEF ListInv

LEMMA ListHandle ==
    ASSUME ListInv, Handle
    PROVE  ListInv'
  <1>1. /\ pc = "handle"
        /\ \/ pc' = "verdict" /\ UNCHANGED <<round, todo>>
           \/ pc' = "list" /\ round' = "profile" /\ todo' = Hostlists \o Ipsets
        /\ UNCHANGED <<bReload, mem, mod_sig, fsig, disk, asked, due>>
    BY DEF Handle, Goto, env, history
  <1>2. ListType'
    BY <1>1, ListsAre DEF ListInv, ListType
  <1>3. SigInv'
    BY <1>1 DEF ListInv, SigInv
  <1>4. ~Reloading' /\ pc' # "handle" /\ \A f \in Files : ~BeingRead(f)
    BY <1>1 DEF Reloading, BeingRead
  <1>5. ~bReload /\ ~asked.during => \A f \in Files : mem[f] >= asked.ver[f]
    BY <1>4 DEF ListInv, HupInv
  <1>6. HupInv'
    BY <1>1, <1>4, <1>5, ListFacts DEF HupInv, HupIsHonoured
  <1> QED BY <1>2, <1>3, <1>6 DEF ListInv

LEMMA ListOnhup ==
    ASSUME ListInv, NEW to \in {pc, Interrupts}, onhup(to)
    PROVE  ListInv'
  <1>1. /\ pc' = to /\ UNCHANGED <<mem, mod_sig, todo, round, fsig, disk, due>>
        /\ \/ UNCHANGED <<bReload, asked>>
           \/ /\ bReload' = TRUE
              /\ asked' = [ver |-> [f \in Files |-> disk[f].ver], during |-> Reloading]
    BY DEF onhup, Signal, Goto
  <1>2. pc' = pc \/ (pc = "blocked" /\ pc' = "top")
    BY <1>1 DEF Interrupts
  <1>3. CASE UNCHANGED <<bReload, asked>>
    <2>1. CASE pc' = pc
      BY <1>1, <1>3, <2>1
         DEF ListInv, ListType, SigInv, HupInv, BeingRead, Begun, Reloading, HupIsHonoured
    <2>2. CASE pc = "blocked" /\ pc' = "top"
      <3>1. ListType' /\ SigInv'
        BY <1>1, <1>3, <2>2 DEF ListInv, ListType, SigInv
      <3>2. HupInv'
        BY <1>1, <1>3, <2>2 DEF ListInv, HupInv, BeingRead, Reloading, HupIsHonoured
      <3> QED BY <3>1, <3>2 DEF ListInv
    <2> QED BY <1>2, <2>1, <2>2
  <1>4. CASE /\ bReload' = TRUE
             /\ asked' = [ver |-> [f \in Files |-> disk[f].ver], during |-> Reloading]
    <2>1. Reloading \in BOOLEAN
      BY DEF Reloading
    <2>2. asked' \in Hup /\ (Reloading => asked'.during) /\ \A f \in Files : asked'.ver[f] = disk[f].ver
      BY <1>4, <2>1, ListFacts DEF Hup
    <2>3. ListType' /\ SigInv'
      BY <1>1, <1>2, <2>2 DEF ListInv, ListType, SigInv
    <2>4. /\ Reloading' <=> Reloading
          /\ \A f \in Files : BeingRead(f)' <=> BeingRead(f)
          /\ Begun' = Begun /\ (pc' = "reloaded" <=> pc = "reloaded")
      BY <1>1, <1>2 DEF Reloading, BeingRead, Begun
    <2>5. Reloading => \A f \in Begun :
             mem[f] >= due.ver[f] \/ BeingRead(f)
             \/ (pc # "reloaded" /\ f \in Elems(todo) /\ mod_sig[f] = 0)
      BY DEF ListInv, HupInv
    <2>6. HupIsHonoured'
      BY <1>1, <1>2 DEF ListInv, HupInv, HupIsHonoured
    <2>7. \A f \in Files : asked'.ver[f] <= disk'[f].ver /\ due'.ver[f] <= disk'[f].ver
      BY <1>1, <2>2, ListFacts
    <2>8. Reloading' => \A f \in Begun' :
             mem'[f] >= due'.ver[f] \/ BeingRead(f)'
             \/ (pc' # "reloaded" /\ f \in Elems(todo') /\ mod_sig'[f] = 0)
      BY <1>1, <2>4, <2>5, ListFacts
    <2>9. HupInv'
      BY <1>4, <2>2, <2>4, <2>6, <2>7, <2>8 DEF HupInv
    <2> QED BY <2>3, <2>9 DEF ListInv
  <1> QED BY <1>1, <1>3, <1>4

LEMMA ListEdit ==
    ASSUME ListInv, NEW f \in Files, NEW st \in {"ok", "gone", "broken"}, NEW same \in BOOLEAN,
           Edit(f, st, same)
    PROVE  ListInv'
  <1> DEFINE d == disk[f]
             e == [ver |-> d.ver + 1, st |-> st, sig |-> IF same THEN d.sig ELSE d.ver + 1]
  <1>1. /\ disk' = [disk EXCEPT ![f] = e]
        /\ UNCHANGED <<pc, bReload, mem, mod_sig, todo, round, fsig, asked, due>>
    BY DEF Edit, main, history
  <1>2. /\ d.ver \in Nat /\ d.sig \in Nat /\ d.sig >= 1 /\ d.sig <= d.ver
        /\ disk \in [Files -> [ver : Nat, sig : Nat, st : {"ok", "gone", "broken"}]]
    BY ListFacts DEF ListInv, ListType
  <1>3. /\ e \in [ver : Nat, sig : Nat, st : {"ok", "gone", "broken"}]
        /\ e.sig >= d.sig /\ e.ver >= d.ver /\ e.sig <= e.ver
    BY <1>2
  <1> HIDE DEF e
  <1>4. disk' \in [Files -> [ver : Nat, sig : Nat, st : {"ok", "gone", "broken"}]]
    BY <1>1, <1>2, <1>3
  <1>5. \A g \in Files :
          /\ disk'[g].ver \in Nat /\ disk'[g].sig \in Nat /\ disk'[g].sig <= disk'[g].ver
          /\ disk'[g].sig >= disk[g].sig /\ disk'[g].ver >= disk[g].ver
    <2> TAKE g \in Files
    <2>1. CASE g = f
      BY <1>1, <1>2, <1>3, <1>4, <2>1
    <2>2. CASE g # f
      <3>1. disk'[g] = disk[g]
        BY <1>1, <1>2, <2>2
      <3> QED BY <3>1, ListFacts
    <2> QED BY <2>1, <2>2
  <1>6. ListType'
    BY <1>1, <1>4 DEF ListInv, ListType
  <1>7. SigInv'
    <2>1. \A g \in Files :
            /\ 1 <= disk'[g].sig /\ mod_sig[g] <= disk'[g].sig
            /\ mod_sig[g] < disk'[g].sig \/ mod_sig[g] <= mem[g]
      <3> TAKE g \in Files
      <3> QED BY <1>5, ListFacts, SMTT(30)
    <2>2. pc = "read" => Head(todo) \in Files /\ fsig \in Nat
      BY ElemsTail DEF ListInv, ListType
    <2>3. pc = "read" => fsig <= disk'[Head(todo)].sig
      <3> SUFFICES ASSUME pc = "read" PROVE fsig <= disk'[Head(todo)].sig
        OBVIOUS
      <3>1. fsig <= disk[Head(todo)].sig
        BY DEF ListInv, SigInv
      <3>2. /\ disk'[Head(todo)].sig >= disk[Head(todo)].sig
            /\ disk'[Head(todo)].sig \in Nat /\ disk[Head(todo)].sig \in Nat
        BY <1>5, <2>2, ListFacts
      <3> QED BY <2>2, <3>1, <3>2
    <2> QED BY <1>1, <1>5, <2>1, <2>3 DEF SigInv
  <1>8. \A g \in Files : asked'.ver[g] <= disk'[g].ver /\ due'.ver[g] <= disk'[g].ver
    <2> TAKE g \in Files
    <2>1. asked'.ver[g] = asked.ver[g] /\ due'.ver[g] = due.ver[g]
      BY <1>1
    <2>2. /\ asked.ver[g] \in Nat /\ due.ver[g] \in Nat /\ disk[g].ver \in Nat
          /\ asked.ver[g] <= disk[g].ver /\ due.ver[g] <= disk[g].ver
      BY ListFacts
    <2>3. disk'[g].ver \in Nat /\ disk'[g].ver >= disk[g].ver
      BY <1>5
    <2> QED BY <2>1, <2>2, <2>3
  <1>9. HupInv'
    <2>1. /\ Reloading' <=> Reloading
          /\ \A g \in Files : BeingRead(g)' <=> BeingRead(g)
          /\ Begun' = Begun
      BY <1>1 DEF Reloading, BeingRead, Begun
    <2>2. HupIsHonoured'
      BY <1>1 DEF ListInv, HupInv, HupIsHonoured
    <2> QED BY <1>1, <1>8, <2>1, <2>2, ListFacts DEF ListInv, HupInv
  <1> QED BY <1>6, <1>7, <1>9 DEF ListInv

LEMMA ListAlways == ProgSpec => []ListInv
  <1>1. ListInv /\ [ProgNext]_progVars => ListInv'
    BY LoopShape, ListStill, ListMoves, ListReloadCheck, ListUnchanged, ListDestroy, ListRead,
       ListRoundDone, ListReloaded, ListHandle, ListOnhup, ListEdit DEF LoopStep
  <1> QED BY <1>1, ListInit, PTL DEF ProgSpec

\* A list that counts as up to date is not older than its signature says, whatever is
\* edited between stat and read and whichever reads fail: LoadHostList and LoadIpset
\* store the signature taken before the read, and only after it.
THEOREM UpToDateIsTrue == ProgSpec => []SignatureIsHonest
  <1>1. ListInv => SignatureIsHonest
    <2> SUFFICES ASSUME ListInv, NEW f \in Files, mod_sig[f] = disk[f].sig
                 PROVE  mem[f] >= disk[f].sig
      BY DEF SignatureIsHonest
    <2> QED BY ListFacts
  <1> QED BY <1>1, ListAlways, PTL

\* A HUP that does not come while ReloadCheck is at work is answered before the next
\* packet is handled, with every list that can be read: signals, edits and failing reads
\* in any order, on all three systems.
THEOREM HupReloadsAll == ProgSpec => []HupIsHonoured
  <1>1. ListInv => HupIsHonoured
    BY DEF ListInv, HupInv
  <1> QED BY <1>1, ListAlways, PTL

-----------------------------------------------------------------------------
(* Starting.  The three plans differ in the order of their steps; what the *)
(* properties need of an order is that one step comes before another, or   *)
(* that one never comes after another.                                     *)

Steps == {"ensure_access", "load_lists", "test_files", "droproot", "dropcaps", "sec_harden",
          "win_sandbox", "rawsend_preinit", "socket_divert", "buffers", "nfq_init",
          "windivert_init", "win_dark_init", "lua_basic_init", "lua_init_script",
          "lua_functions", "fopen_pidfile", "write_pidfile", "writepid", "daemonize",
          "catch_signals", "logical_net", "serve", "ok", "err", "ex"}

LaunchCaps == UNION {l.caps : l \in Launches}
Caps == LaunchCaps \cup NetCaps \cup {"SETPCAP"}

ProcRecord == [pid : {"first", "daemon"}, root : BOOLEAN, permitted : SUBSET Caps,
               effective : SUBSET Caps, locked : BOOLEAN, low : BOOLEAN, catches : BOOLEAN]

\* there is an a in p, and no b before it
Prec(p, a, b) == \E i \in DOMAIN p : p[i] = a /\ \A j \in 1 .. i : p[j] # b

\* there is no a after a b in p
Apart(p, b, a) == \A i, j \in DOMAIN p : i < j /\ p[i] = b => p[j] # a

Todo(s) == s \in Elems(plan)

\* what a brings about holds when b is due
Until(a, b, F) == Todo(b) => F \/ Prec(plan, a, b)

StartType == launch \in Launches /\ plan \in Seq(Steps) /\ proc \in ProcRecord

Order ==
    /\ Apart(plan, "sec_harden", "ensure_access")
    /\ Apart(plan, "dropcaps", "droproot")
    /\ Apart(plan, "write_pidfile", "daemonize")
    /\ Apart(plan, "write_pidfile", "fopen_pidfile")
    /\ Apart(plan, "writepid", "daemonize")
    /\ Apart(plan, "win_sandbox", "windivert_init")
    /\ Is("bsd") => /\ Apart(plan, "droproot", "rawsend_preinit")
                    /\ Apart(plan, "droproot", "socket_divert")

\* steps the systems do not have
Platform ==
    /\ Is("linux") => ~Todo("socket_divert") /\ ~Todo("windivert_init")
    /\ Is("bsd") => ~Todo("nfq_init") /\ ~Todo("windivert_init") /\ ~Todo("dropcaps")
    /\ Is("win") => /\ ~Todo("rawsend_preinit") /\ ~Todo("socket_divert") /\ ~Todo("nfq_init")
                    /\ ~Todo("dropcaps")

\* before a script runs
Sandbox ==
    /\ ~Is("win") /\ can_drop_root => Until("droproot", "lua_init_script", ~proc.root)
    /\ Is("linux") => Until("dropcaps", "lua_init_script", proc.permitted \subseteq NetCaps)
    /\ Is("win") => Until("win_sandbox", "lua_init_script", proc.low)
    /\ LuaIsSandboxed

\* what a step needs that may be denied
Privileges ==
    /\ proc.effective \subseteq proc.permitted
    /\ Is("linux") /\ NetCaps \subseteq launch.caps => NetCaps \subseteq proc.permitted
    /\ Is("linux") => \A s \in {"rawsend_preinit", "nfq_init"} :
         Until("dropcaps", s, NetCaps \subseteq proc.effective /\ ~Todo("droproot"))
    /\ Is("bsd") /\ (Todo("rawsend_preinit") \/ Todo("socket_divert")) => proc.root = launch.root
    /\ Is("win") /\ Todo("windivert_init") /\ proc.low => "label" \in opened
    /\ Todo("ensure_access") => ~proc.locked
    /\ proc.low /\ launch.logical => "label" \in opened
    /\ net \/ launch.logical
    /\ pc = "nodev" => launch.logical
    /\ NeverDenied

\* before the loop
Ready ==
    /\ Until("catch_signals", "serve", proc.catches)
    /\ Until("lua_basic_init", "serve", "L" \in opened)
    /\ Is("linux") => Until("nfq_init", "serve", "qh" \in opened)
    /\ ~Is("win") => Until("rawsend_preinit", "serve", "rawsend_sock4" \in opened)
    /\ Is("bsd") => Until("socket_divert", "serve", "fd" \in opened)
    /\ Is("win") => Until("windivert_init", "serve", "w_filter" \in opened)
    /\ launch.daemon => Until("daemonize", "serve", proc.pid = "daemon")
    /\ ~launch.daemon => ~Todo("daemonize") /\ proc.pid = "first"

Pidfile ==
    /\ launch.pidfile =>
         Until(IF Is("win") THEN "writepid" ELSE "write_pidfile", "serve",
               /\ pidfile = proc.pid /\ "Fpid" \notin opened
               /\ ~Todo("daemonize") /\ ~Todo("fopen_pidfile"))
    /\ ~launch.pidfile => pidfile = "none" /\ ~Todo("write_pidfile") /\ ~Todo("writepid")
    /\ Is("win") \/ ~launch.pidfile => "Fpid" \notin opened /\ ~Todo("fopen_pidfile")

StartInv == StartType /\ Order /\ Platform /\ Sandbox /\ Privileges /\ Ready /\ Pidfile

-----------------------------------------------------------------------------
(* Plans.                                                                  *)

LEMMA ConcatIs ==
    ASSUME NEW S, NEW p \in Seq(S), NEW q \in Seq(S)
    PROVE  /\ p \o q \in Seq(S) /\ Len(p \o q) = Len(p) + Len(q)
           /\ \A i \in 1 .. Len(p) : (p \o q)[i] = p[i]
           /\ \A i \in 1 .. Len(q) : (p \o q)[Len(p) + i] = q[i]
           /\ DOMAIN p = 1 .. Len(p) /\ DOMAIN q = 1 .. Len(q)
           /\ DOMAIN (p \o q) = 1 .. Len(p) + Len(q) /\ Len(p) \in Nat /\ Len(q) \in Nat
  OBVIOUS

LEMMA ConcatElems ==
    ASSUME NEW S, NEW p \in Seq(S), NEW q \in Seq(S)
    PROVE  Elems(p \o q) = Elems(p) \cup Elems(q)
  <1> DEFINE r == p \o q
             m == Len(p)
             n == Len(q)
  <1>1. /\ DOMAIN p = 1 .. m /\ DOMAIN q = 1 .. n /\ DOMAIN r = 1 .. m + n /\ m \in Nat /\ n \in Nat
        /\ \A i \in 1 .. m : r[i] = p[i]
        /\ \A i \in 1 .. n : r[m + i] = q[i]
    BY ConcatIs
  <1> HIDE DEF r, m, n
  <1>2. ASSUME NEW x \in Elems(r) PROVE x \in Elems(p) \cup Elems(q)
    <2>1. PICK i \in 1 .. m + n : x = r[i]
      BY <1>1, <1>2 DEF Elems
    <2>2. CASE i <= m
      <3>1. i \in DOMAIN p /\ x = p[i]
        BY <1>1, <2>1, <2>2
      <3> QED BY <3>1 DEF Elems
    <2>3. CASE ~(i <= m)
      <3>1. i - m \in 1 .. n /\ i = m + (i - m)
        BY <1>1, <2>3
      <3>2. i - m \in DOMAIN q /\ x = q[i - m]
        BY <1>1, <2>1, <3>1
      <3> QED BY <3>2 DEF Elems
    <2> QED BY <2>2, <2>3
  <1>3. ASSUME NEW x \in Elems(p) PROVE x \in Elems(r)
    <2>1. PICK i \in 1 .. m : x = p[i]
      BY <1>1, <1>3 DEF Elems
    <2>2. i \in DOMAIN r /\ x = r[i]
      BY <1>1, <2>1
    <2> QED BY <2>2 DEF Elems
  <1>4. ASSUME NEW x \in Elems(q) PROVE x \in Elems(r)
    <2>1. PICK i \in 1 .. n : x = q[i]
      BY <1>1, <1>4 DEF Elems
    <2>2. m + i \in DOMAIN r /\ x = r[m + i]
      BY <1>1, <2>1
    <2> QED BY <2>2 DEF Elems
  <1>5. Elems(r) = Elems(p) \cup Elems(q)
    BY <1>2, <1>3, <1>4
  <1> QED BY <1>5 DEF r

LEMMA PrecFirst ==
    ASSUME NEW S, NEW p \in Seq(S), NEW a \in Elems(p), NEW b, b \notin Elems(p)
    PROVE  Prec(p, a, b)
  <1>1. PICK i \in DOMAIN p : p[i] = a
    BY DEF Elems
  <1>2. \A j \in 1 .. i : j \in DOMAIN p
    OBVIOUS
  <1>3. \A j \in 1 .. i : p[j] # b
    BY <1>2 DEF Elems
  <1> QED BY <1>1, <1>3 DEF Prec

LEMMA PrecLeft ==
    ASSUME NEW S, NEW p \in Seq(S), NEW q \in Seq(S), NEW a, NEW b, Prec(p, a, b)
    PROVE  Prec(p \o q, a, b)
  <1>1. PICK i \in DOMAIN p : p[i] = a /\ \A j \in 1 .. i : p[j] # b
    BY DEF Prec
  <1> DEFINE r == p \o q
  <1>2. /\ DOMAIN p = 1 .. Len(p) /\ DOMAIN r = 1 .. Len(p) + Len(q) /\ Len(p) \in Nat /\ Len(q) \in Nat
        /\ \A j \in 1 .. Len(p) : r[j] = p[j]
    BY ConcatIs
  <1> HIDE DEF r
  <1>3. i \in DOMAIN r /\ r[i] = a /\ \A j \in 1 .. i : r[j] # b
    BY <1>1, <1>2
  <1>4. Prec(r, a, b)
    BY <1>3 DEF Prec
  <1> QED BY <1>4 DEF r

LEMMA PrecRight ==
    ASSUME NEW S, NEW p \in Seq(S), NEW q \in Seq(S), NEW a, NEW b, b \notin Elems(p), Prec(q, a, b)
    PROVE  Prec(p \o q, a, b)
  <1>1. PICK i \in DOMAIN q : q[i] = a /\ \A j \in 1 .. i : q[j] # b
    BY DEF Prec
  <1> DEFINE r == p \o q
             m == Len(p)
  <1>2. /\ DOMAIN p = 1 .. m /\ DOMAIN q = 1 .. Len(q) /\ DOMAIN r = 1 .. m + Len(q)
        /\ m \in Nat /\ Len(q) \in Nat
        /\ \A j \in 1 .. m : r[j] = p[j]
        /\ \A j \in 1 .. Len(q) : r[m + j] = q[j]
    BY ConcatIs
  <1> HIDE DEF r, m
  <1>3. m + i \in DOMAIN r /\ r[m + i] = a
    BY <1>1, <1>2
  <1>4. ASSUME NEW j \in 1 .. m + i PROVE r[j] # b
    <2>1. CASE j <= m
      <3>1. j \in DOMAIN p /\ r[j] = p[j]
        BY <1>2, <2>1
      <3> QED BY <3>1 DEF Elems
    <2>2. CASE ~(j <= m)
      <3>1. j - m \in 1 .. i /\ j - m \in 1 .. Len(q) /\ j = m + (j - m)
        BY <1>2, <2>2
      <3>2. r[j] = q[j - m]
        BY <1>2, <3>1
      <3> QED BY <1>1, <3>1, <3>2
    <2> QED BY <2>1, <2>2
  <1>5. Prec(r, a, b)
    BY <1>3, <1>4 DEF Prec
  <1> QED BY <1>5 DEF r

LEMMA PrecTail ==
    ASSUME NEW S, NEW p \in Seq(S), p # <<>>, NEW a, NEW b, Prec(p, a, b)
    PROVE  Head(p) # b /\ (Head(p) = a \/ Prec(Tail(p), a, b))
  <1>1. PICK i \in DOMAIN p : p[i] = a /\ \A j \in 1 .. i : p[j] # b
    BY DEF Prec
  <1> DEFINE t == Tail(p)
  <1>2. /\ Len(p) \in Nat /\ Len(p) >= 1 /\ Head(p) = p[1] /\ DOMAIN p = 1 .. Len(p)
        /\ DOMAIN t = 1 .. Len(p) - 1
        /\ \A j \in 1 .. Len(p) - 1 : t[j] = p[j + 1]
    OBVIOUS
  <1> HIDE DEF t
  <1>3. Head(p) # b
    BY <1>1, <1>2
  <1>4. CASE i = 1
    BY <1>1, <1>2, <1>3, <1>4
  <1>5. CASE i # 1
    <2>1. i - 1 \in DOMAIN t /\ t[i - 1] = a
      BY <1>1, <1>2, <1>5
    <2>2. ASSUME NEW j \in 1 .. i - 1 PROVE t[j] # b
      <3>1. j \in 1 .. Len(p) - 1 /\ j + 1 \in 1 .. i
        BY <1>2
      <3> QED BY <1>1, <1>2, <3>1
    <2>3. Prec(t, a, b)
      BY <2>1, <2>2 DEF Prec
    <2> QED BY <1>3, <2>3 DEF t
  <1> QED BY <1>4, <1>5

LEMMA ApartAbsent ==
    ASSUME NEW p, NEW a, NEW b, a \notin Elems(p) \/ b \notin Elems(p)
    PROVE  Apart(p, b, a)
  BY DEF Apart, Elems

LEMMA ApartConcat ==
    ASSUME NEW S, NEW p \in Seq(S), NEW q \in Seq(S), NEW a, NEW b, Apart(p, b, a), Apart(q, b, a),
           b \notin Elems(p) \/ a \notin Elems(q)
    PROVE  Apart(p \o q, b, a)
  <1> DEFINE r == p \o q
             m == Len(p)
  <1>2. /\ DOMAIN p = 1 .. m /\ DOMAIN q = 1 .. Len(q) /\ DOMAIN r = 1 .. m + Len(q)
        /\ m \in Nat /\ Len(q) \in Nat
        /\ \A j \in 1 .. m : r[j] = p[j]
        /\ \A j \in 1 .. Len(q) : r[m + j] = q[j]
    BY ConcatIs
  <1> HIDE DEF r, m
  <1>3. ASSUME NEW i \in DOMAIN r, NEW j \in DOMAIN r, i < j, r[i] = b PROVE r[j] # a
    <2>1. CASE j <= m
      BY <1>2, <1>3, <2>1 DEF Apart
    <2>2. CASE i > m
      <3>1. /\ i - m \in 1 .. Len(q) /\ j - m \in 1 .. Len(q) /\ i - m < j - m
            /\ i = m + (i - m) /\ j = m + (j - m)
        BY <1>2, <1>3, <2>2, SMTT(30)
      <3>2. r[i] = q[i - m] /\ r[j] = q[j - m]
        BY <1>2, <3>1
      <3> QED BY <1>2, <1>3, <3>1, <3>2 DEF Apart
    <2>3. CASE ~(j <= m) /\ ~(i > m)
      <3>1. i \in DOMAIN p /\ r[i] = p[i] /\ j - m \in 1 .. Len(q) /\ j = m + (j - m)
        BY <1>2, <1>3, <2>3
      <3>2. j - m \in DOMAIN q /\ r[j] = q[j - m]
        BY <1>2, <3>1
      <3> QED BY <1>3, <3>1, <3>2 DEF Elems
    <2> QED BY <2>1, <2>2, <2>3
  <1>4. Apart(r, b, a)
    BY <1>3 DEF Apart
  <1> QED BY <1>4 DEF r

LEMMA ApartTail ==
    ASSUME NEW S, NEW p \in Seq(S), p # <<>>, NEW a, NEW b, Apart(p, b, a)
    PROVE  Apart(Tail(p), b, a) /\ (Head(p) = b => a \notin Elems(Tail(p)))
  <1> DEFINE t == Tail(p)
  <1>1. /\ Len(p) \in Nat /\ Len(p) >= 1 /\ Head(p) = p[1] /\ DOMAIN p = 1 .. Len(p)
        /\ DOMAIN t = 1 .. Len(p) - 1
        /\ \A j \in 1 .. Len(p) - 1 : t[j] = p[j + 1]
    OBVIOUS
  <1> HIDE DEF t
  <1>2. Apart(t, b, a)
    <2> SUFFICES ASSUME NEW i \in DOMAIN t, NEW j \in DOMAIN t, i < j, t[i] = b PROVE t[j] # a
      BY DEF Apart
    <2>1. i + 1 \in DOMAIN p /\ j + 1 \in DOMAIN p /\ i + 1 < j + 1 /\ t[i] = p[i + 1] /\ t[j] = p[j + 1]
      BY <1>1
    <2> QED BY <2>1 DEF Apart
  <1>3. ASSUME Head(p) = b, NEW j \in DOMAIN t PROVE t[j] # a
    <2>1. 1 \in DOMAIN p /\ j + 1 \in DOMAIN p /\ 1 < j + 1 /\ t[j] = p[j + 1]
      BY <1>1
    <2> QED BY <1>1, <1>3, <2>1 DEF Apart
  <1>4. Head(p) = b => a \notin Elems(t)
    BY <1>3 DEF Elems
  <1> QED BY <1>2, <1>4 DEF t

\* What a plan has of its parts.
LEMMA Joined ==
    ASSUME NEW S, NEW p \in Seq(S), NEW q \in Seq(S)
    PROVE  /\ p \o q \in Seq(S) /\ Elems(p \o q) = Elems(p) \cup Elems(q)
           /\ \A a, b : a \in Elems(p) /\ b \notin Elems(p) => Prec(p, a, b)
           /\ \A a, b : Prec(p, a, b) => Prec(p \o q, a, b)
           /\ \A a, b : b \notin Elems(p) /\ Prec(q, a, b) => Prec(p \o q, a, b)
           /\ \A a, b : Apart(p, b, a) /\ a \notin Elems(q) => Apart(p \o q, b, a)
           /\ \A a, b : b \notin Elems(p) /\ Apart(q, b, a) => Apart(p \o q, b, a)
  <1>1. p \o q \in Seq(S) /\ Elems(p \o q) = Elems(p) \cup Elems(q)
    BY ConcatIs, ConcatElems
  <1>2. ASSUME NEW a, NEW b, a \in Elems(p), b \notin Elems(p) PROVE Prec(p, a, b)
    BY <1>2, PrecFirst
  <1>3. ASSUME NEW a, NEW b, Prec(p, a, b) PROVE Prec(p \o q, a, b)
    BY <1>3, PrecLeft
  <1>4. ASSUME NEW a, NEW b, b \notin Elems(p), Prec(q, a, b) PROVE Prec(p \o q, a, b)
    BY <1>4, PrecRight
  <1>5. ASSUME NEW a, NEW b, Apart(p, b, a), a \notin Elems(q) PROVE Apart(p \o q, b, a)
    <2>1. Apart(q, b, a)
      BY <1>5, ApartAbsent
    <2> QED BY <1>5, <2>1, ApartConcat
  <1>6. ASSUME NEW a, NEW b, b \notin Elems(p), Apart(q, b, a) PROVE Apart(p \o q, b, a)
    <2>1. Apart(p, b, a)
      BY <1>6, ApartAbsent
    <2> QED BY <1>6, <2>1, ApartConcat
  <1> QED BY <1>1, <1>2, <1>3, <1>4, <1>5, <1>6

LEMMA OneStep ==
    ASSUME NEW s \in Steps
    PROVE  <<s>> \in Seq(Steps) /\ Elems(<<s>>) = {s}
  BY DEF Elems

LEMMA IfIs ==
    ASSUME NEW b, NEW p \in Seq(Steps)
    PROVE  /\ If(b, p) \in Seq(Steps) /\ Elems(If(b, p)) \subseteq Elems(p)
           /\ b => If(b, p) = p
           /\ ~b => Elems(If(b, p)) = {}
  <1>1. CASE b
    BY <1>1 DEF If
  <1>2. CASE ~b
    <2>1. If(b, p) = <<>>
      BY <1>2 DEF If
    <2>2. Elems(<<>>) = {} /\ <<>> \in Seq(Steps)
      BY DEF Elems
    <2> QED BY <1>2, <2>1, <2>2
  <1> QED BY <1>1, <1>2

LEMMA LaunchIs ==
    ASSUME launch \in Launches
    PROVE  /\ launch.os \in {"linux", "bsd", "win"} /\ launch.scripts \in Nat
           /\ launch.root \in BOOLEAN /\ launch.user \in BOOLEAN /\ launch.intercept \in BOOLEAN
           /\ launch.daemon \in BOOLEAN /\ launch.pidfile \in BOOLEAN
           /\ launch.seccomp \in BOOLEAN /\ launch.logical \in BOOLEAN
  BY LaunchAssumption

LEMMA DetachIs ==
    ASSUME launch \in Launches
    PROVE  /\ Detach \in Seq(Steps) /\ Elems(Detach) \subseteq {"daemonize", "write_pidfile"}
           /\ "daemonize" \in Elems(Detach) <=> launch.daemon
           /\ "write_pidfile" \in Elems(Detach) <=> launch.pidfile
           /\ Apart(Detach, "write_pidfile", "daemonize")
  <1> DEFINE d == <<"daemonize">>
             w == <<"write_pidfile">>
             p == If(launch.daemon, d)
             q == If(launch.pidfile, w)
  <1>1. d \in Seq(Steps) /\ Elems(d) = {"daemonize"} /\ w \in Seq(Steps) /\ Elems(w) = {"write_pidfile"}
    BY OneStep DEF Steps
  <1> HIDE DEF d, w
  <1>2. /\ p \in Seq(Steps) /\ Elems(p) \subseteq {"daemonize"}
        /\ "daemonize" \in Elems(p) <=> launch.daemon
    BY <1>1, IfIs
  <1>3. /\ q \in Seq(Steps) /\ Elems(q) \subseteq {"write_pidfile"}
        /\ "write_pidfile" \in Elems(q) <=> launch.pidfile
    BY <1>1, IfIs
  <1>4. Detach = p \o q
    BY DEF Detach, d, w
  <1> HIDE DEF p, q
  <1>5. Apart(q, "write_pidfile", "daemonize")
    BY <1>3, ApartAbsent
  <1>6. "write_pidfile" \notin Elems(p)
    BY <1>2
  <1>7. Elems(p \o q) = Elems(p) \cup Elems(q) /\ p \o q \in Seq(Steps)
    BY <1>2, <1>3, Joined
  <1>8. Apart(p \o q, "write_pidfile", "daemonize")
    BY <1>2, <1>3, <1>5, <1>6, Joined
  <1> QED BY <1>2, <1>3, <1>4, <1>7, <1>8

LuaSteps == {"lua_basic_init", "lua_init_script", "lua_functions"}

LEMMA LuaInitIs ==
    ASSUME launch \in Launches
    PROVE  lua_init \in Seq(Steps) /\ Elems(lua_init) \subseteq LuaSteps /\ "lua_basic_init" \in Elems(lua_init)
  <1> DEFINE b == <<"lua_basic_init">>
             m == [i \in 1 .. launch.scripts |-> "lua_init_script"]
             e == <<"lua_functions">>
             bm == b \o m
  <1>1. b \in Seq(Steps) /\ Elems(b) = {"lua_basic_init"} /\ e \in Seq(Steps) /\ Elems(e) = {"lua_functions"}
    BY OneStep DEF Steps
  <1>2. m \in Seq(Steps) /\ Elems(m) \subseteq {"lua_init_script"}
    <2>1. launch.scripts \in Nat /\ "lua_init_script" \in Steps
      BY LaunchIs DEF Steps
    <2>2. m \in Seq(Steps)
      BY <2>1
    <2>3. Elems(m) \subseteq {"lua_init_script"}
      BY DEF Elems
    <2> QED BY <2>2, <2>3
  <1>3. lua_init = bm \o e
    BY DEF lua_init
  <1> HIDE DEF b, m, e
  <1>4. bm \in Seq(Steps) /\ Elems(bm) = Elems(b) \cup Elems(m)
    BY <1>1, <1>2, Joined
  <1> HIDE DEF bm
  <1>5. bm \o e \in Seq(Steps) /\ Elems(bm \o e) = Elems(bm) \cup Elems(e)
    BY <1>1, <1>4, Joined
  <1> QED BY <1>1, <1>2, <1>3, <1>4, <1>5 DEF LuaSteps

\* main's part
LEMMA PrepareIs ==
    /\ Prepare \in Seq(Steps) /\ Elems(Prepare) = {"ensure_access", "load_lists"}
  BY DEF Prepare, Steps, Elems

\* The order of nfq_main, on Linux.
LEMMA NfqMainIs ==
    ASSUME launch \in Launches
    PROVE  /\ nfq_main \in Seq(Steps)
           /\ Elems(nfq_main) \cap {"socket_divert", "windivert_init", "writepid", "win_sandbox"} = {}
           /\ "daemonize" \in Elems(nfq_main) => launch.daemon
           /\ ~launch.pidfile => Elems(nfq_main) \cap {"fopen_pidfile", "write_pidfile"} = {}
           /\ Apart(nfq_main, "sec_harden", "ensure_access")
           /\ Apart(nfq_main, "dropcaps", "droproot")
           /\ Apart(nfq_main, "write_pidfile", "daemonize")
           /\ Apart(nfq_main, "write_pidfile", "fopen_pidfile")
           /\ Droproot => Prec(nfq_main, "droproot", "lua_init_script")
           /\ Prec(nfq_main, "dropcaps", "lua_init_script")
           /\ Prec(nfq_main, "dropcaps", "rawsend_preinit")
           /\ Prec(nfq_main, "dropcaps", "nfq_init")
           /\ Prec(nfq_main, "catch_signals", "serve")
           /\ Prec(nfq_main, "lua_basic_init", "serve")
           /\ Prec(nfq_main, "rawsend_preinit", "serve")
           /\ "serve" \in Elems(nfq_main) => Prec(nfq_main, "nfq_init", "serve")
           /\ "serve" \in Elems(nfq_main) /\ launch.daemon => Prec(nfq_main, "daemonize", "serve")
           /\ "serve" \in Elems(nfq_main) /\ launch.pidfile => Prec(nfq_main, "write_pidfile", "serve")
  <1> DEFINE o1 == <<"fopen_pidfile">>
             o2 == <<"droproot">>
             q1 == If(launch.pidfile, o1)
             q2 == If(Droproot, o2)
             q3 == <<"dropcaps", "test_files", "sec_harden", "rawsend_preinit">>
             q4 == If(~launch.intercept, Detach)
             q5 == <<"catch_signals">>
             q6 == lua_init
             q7 == IF launch.intercept THEN <<"buffers", "nfq_init">> \o Detach \o <<"serve">> ELSE <<"ok">>
             p1 == Prepare \o q1
             p2 == p1 \o q2
             p3 == p2 \o q3
             p4 == p3 \o q4
             p5 == p4 \o q5
             p6 == p5 \o q6
             p7 == p6 \o q7
  <1>0. nfq_main = p7
    BY DEF nfq_main
  <1>1. /\ o1 \in Seq(Steps) /\ Elems(o1) = {"fopen_pidfile"}
        /\ o2 \in Seq(Steps) /\ Elems(o2) = {"droproot"}
        /\ q5 \in Seq(Steps) /\ Elems(q5) = {"catch_signals"}
    BY OneStep DEF Steps
  <1>2. /\ q3 \in Seq(Steps) /\ Elems(q3) = {"dropcaps", "test_files", "sec_harden", "rawsend_preinit"}
        /\ Prec(q3, "dropcaps", "rawsend_preinit")
    <2>1. q3 \in Seq(Steps) /\ Elems(q3) = {"dropcaps", "test_files", "sec_harden", "rawsend_preinit"}
      BY DEF Steps, Elems
    <2>2. 1 \in DOMAIN q3 /\ q3[1] = "dropcaps" /\ \A j \in 1 .. 1 : q3[j] # "rawsend_preinit"
      OBVIOUS
    <2>3. Prec(q3, "dropcaps", "rawsend_preinit")
      BY <2>2 DEF Prec
    <2> QED BY <2>1, <2>3
  <1>3. /\ q7 \in Seq(Steps) /\ Elems(q7) \subseteq {"buffers", "nfq_init", "daemonize", "write_pidfile", "serve", "ok"}
        /\ "daemonize" \in Elems(q7) => launch.daemon
        /\ "write_pidfile" \in Elems(q7) => launch.pidfile
        /\ Apart(q7, "write_pidfile", "daemonize")
        /\ "serve" \in Elems(q7) => launch.intercept
        /\ launch.intercept => /\ Prec(q7, "nfq_init", "serve")
                               /\ launch.daemon => Prec(q7, "daemonize", "serve")
                               /\ launch.pidfile => Prec(q7, "write_pidfile", "serve")
    <2> DEFINE r == <<"buffers", "nfq_init">>
               e == <<"serve">>
               k == <<"ok">>
               d == r \o Detach
    <2>1. r \in Seq(Steps) /\ Elems(r) = {"buffers", "nfq_init"}
      BY DEF Steps, Elems
    <2>2. e \in Seq(Steps) /\ Elems(e) = {"serve"} /\ k \in Seq(Steps) /\ Elems(k) = {"ok"}
      BY OneStep DEF Steps
    <2>3. (launch.intercept => q7 = d \o e) /\ (~launch.intercept => q7 = k)
      OBVIOUS
    <2> HIDE DEF q7, r, e, k
    <2>4. d \in Seq(Steps) /\ Elems(d) = Elems(r) \cup Elems(Detach)
      BY <2>1, DetachIs, Joined
    <2>6. Apart(d, "write_pidfile", "daemonize")
      BY <2>1, DetachIs, Joined
    <2> HIDE DEF d
    <2>5. /\ d \o e \in Seq(Steps)
          /\ Elems(d \o e) = Elems(d) \cup Elems(e)
      BY <2>2, <2>4, Joined
    <2>7. Apart(d \o e, "write_pidfile", "daemonize")
      BY <2>2, <2>4, <2>6, Joined
    <2>8. "serve" \notin Elems(d)
      BY <2>1, <2>4, DetachIs
    <2>9. \A a : a \in Elems(d) => Prec(d \o e, a, "serve")
      BY <2>2, <2>4, <2>8, Joined
    <2>10. Apart(k, "write_pidfile", "daemonize")
      BY <2>2, ApartAbsent
    <2>11. CASE launch.intercept
      BY <2>1, <2>2, <2>3, <2>4, <2>5, <2>7, <2>9, <2>11, DetachIs, ZenonT(30)
    <2>12. CASE ~launch.intercept
      BY <2>2, <2>3, <2>10, <2>12
    <2> QED BY <2>11, <2>12
  <1> HIDE DEF o1, o2, q3, q5, q7
  <1>4. /\ q1 \in Seq(Steps) /\ Elems(q1) \subseteq {"fopen_pidfile"}
        /\ "fopen_pidfile" \in Elems(q1) => launch.pidfile
    BY <1>1, IfIs
  <1>5. /\ q2 \in Seq(Steps) /\ Elems(q2) \subseteq {"droproot"} /\ (Droproot => "droproot" \in Elems(q2))
    BY <1>1, IfIs
  <1>6. /\ q4 \in Seq(Steps) /\ Elems(q4) \subseteq {"daemonize", "write_pidfile"}
        /\ "daemonize" \in Elems(q4) => launch.daemon
        /\ "write_pidfile" \in Elems(q4) => launch.pidfile
        /\ Apart(q4, "write_pidfile", "daemonize")
        /\ launch.intercept => Elems(q4) = {}
    <2>1. /\ q4 \in Seq(Steps) /\ Elems(q4) \subseteq Elems(Detach)
          /\ ~launch.intercept => q4 = Detach
          /\ launch.intercept => Elems(q4) = {}
      BY DetachIs, IfIs, LaunchIs
    <2>2. CASE launch.intercept
      BY <2>1, <2>2, ApartAbsent
    <2>3. CASE ~launch.intercept
      BY <2>1, <2>3, DetachIs
    <2> QED BY <2>2, <2>3
  <1>7. q6 \in Seq(Steps) /\ Elems(q6) \subseteq LuaSteps /\ "lua_basic_init" \in Elems(q6)
    BY LuaInitIs
  <1> HIDE DEF q1, q2, q4, q6
  <1>10. /\ p1 \in Seq(Steps) /\ Elems(p1) \subseteq {"ensure_access", "load_lists", "fopen_pidfile"}
         /\ "fopen_pidfile" \in Elems(p1) => launch.pidfile
    BY <1>4, PrepareIs, Joined
  <1> HIDE DEF p1
  <1>11. /\ p2 \in Seq(Steps)
         /\ Elems(p2) = Elems(p1) \cup Elems(q2)
    BY <1>5, <1>10, Joined
  <1> HIDE DEF p2
  <1>12. /\ p3 \in Seq(Steps) /\ Elems(p3) = Elems(p2) \cup Elems(q3)
         /\ Prec(p3, "dropcaps", "rawsend_preinit")
         /\ Apart(p3, "dropcaps", "droproot") /\ Apart(p3, "sec_harden", "ensure_access")
    <2>1. /\ p3 \in Seq(Steps) /\ Elems(p3) = Elems(p2) \cup Elems(q3)
          /\ \A a, b : b \notin Elems(p2) /\ Prec(q3, a, b) => Prec(p3, a, b)
          /\ \A a, b : b \notin Elems(p2) /\ Apart(q3, b, a) => Apart(p3, b, a)
      BY <1>2, <1>11, Joined
    <2>2. Apart(q3, "dropcaps", "droproot") /\ Apart(q3, "sec_harden", "ensure_access")
      BY <1>2, ApartAbsent
    <2> QED BY <1>2, <1>5, <1>10, <1>11, <2>1, <2>2
  <1> DEFINE E3 == {"ensure_access", "load_lists", "fopen_pidfile", "droproot", "dropcaps", "test_files",
                    "sec_harden", "rawsend_preinit"}
  <1>13. /\ Elems(p3) \subseteq E3 /\ {"dropcaps", "rawsend_preinit"} \subseteq Elems(p3)
         /\ Droproot => "droproot" \in Elems(p3)
         /\ "fopen_pidfile" \in Elems(p3) => launch.pidfile
    BY <1>2, <1>5, <1>10, <1>11, <1>12
  <1> HIDE DEF p3
  <1>14. /\ p4 \in Seq(Steps) /\ Elems(p4) = Elems(p3) \cup Elems(q4)
         /\ \A a, b : a \in Elems(p3) /\ b \notin Elems(p3) => Prec(p3, a, b)
         /\ \A a, b : Prec(p3, a, b) => Prec(p4, a, b)
         /\ \A a, b : Apart(p3, b, a) /\ a \notin Elems(q4) => Apart(p4, b, a)
         /\ \A a, b : b \notin Elems(p3) /\ Apart(q4, b, a) => Apart(p4, b, a)
    BY <1>6, <1>12, Joined
  <1> HIDE DEF p4
  <1>15. /\ p5 \in Seq(Steps) /\ Elems(p5) = Elems(p4) \cup Elems(q5)
         /\ \A a, b : a \in Elems(p5) /\ b \notin Elems(p5) => Prec(p5, a, b)
         /\ \A a, b : Prec(p4, a, b) => Prec(p5, a, b)
         /\ \A a, b : Apart(p4, b, a) /\ a \notin Elems(q5) => Apart(p5, b, a)
    <2>1. /\ p5 \in Seq(Steps) /\ Elems(p5) = Elems(p4) \cup Elems(q5)
          /\ \A a, b : Prec(p4, a, b) => Prec(p5, a, b)
          /\ \A a, b : Apart(p4, b, a) /\ a \notin Elems(q5) => Apart(p5, b, a)
      BY <1>1, <1>14, Joined
    <2> HIDE DEF p5
    <2> QED BY <2>1, PrecFirst
  <1> HIDE DEF p5
  <1>16. /\ p6 \in Seq(Steps) /\ Elems(p6) = Elems(p5) \cup Elems(q6)
         /\ \A a, b : a \in Elems(p6) /\ b \notin Elems(p6) => Prec(p6, a, b)
         /\ \A a, b : Prec(p5, a, b) => Prec(p6, a, b)
         /\ \A a, b : Apart(p5, b, a) /\ a \notin Elems(q6) => Apart(p6, b, a)
    <2>1. /\ p6 \in Seq(Steps) /\ Elems(p6) = Elems(p5) \cup Elems(q6)
          /\ \A a, b : Prec(p5, a, b) => Prec(p6, a, b)
          /\ \A a, b : Apart(p5, b, a) /\ a \notin Elems(q6) => Apart(p6, b, a)
      BY <1>7, <1>15, Joined
    <2> HIDE DEF p6
    <2> QED BY <2>1, PrecFirst
  <1> HIDE DEF p6
  <1>17. /\ p7 \in Seq(Steps) /\ Elems(p7) = Elems(p6) \cup Elems(q7)
         /\ \A a, b : Prec(p6, a, b) => Prec(p7, a, b)
         /\ \A a, b : b \notin Elems(p6) /\ Prec(q7, a, b) => Prec(p7, a, b)
         /\ \A a, b : Apart(p6, b, a) /\ a \notin Elems(q7) => Apart(p7, b, a)
         /\ \A a, b : b \notin Elems(p6) /\ Apart(q7, b, a) => Apart(p7, b, a)
    BY <1>3, <1>16, Joined
  <1> HIDE DEF p7
  <1> DEFINE D == {"daemonize", "write_pidfile"}
             E7 == {"buffers", "nfq_init", "daemonize", "write_pidfile", "serve", "ok"}
  <1>20. /\ Elems(p4) \subseteq E3 \cup D
         /\ Elems(p5) \subseteq E3 \cup D \cup {"catch_signals"}
         /\ Elems(p6) \subseteq E3 \cup D \cup {"catch_signals"} \cup LuaSteps
         /\ Elems(p7) \subseteq E3 \cup D \cup {"catch_signals"} \cup LuaSteps \cup E7
    BY <1>1, <1>3, <1>6, <1>7, <1>13, <1>14, <1>15, <1>16, <1>17
  <1>21. "serve" \notin Elems(p6) /\ "nfq_init" \notin Elems(p6) /\ "lua_init_script" \notin Elems(p5)
    BY <1>20 DEF LuaSteps
  <1>22. /\ "catch_signals" \in Elems(p6) /\ "lua_basic_init" \in Elems(p6) /\ "rawsend_preinit" \in Elems(p6)
         /\ "dropcaps" \in Elems(p5) /\ "dropcaps" \in Elems(p6) /\ (Droproot => "droproot" \in Elems(p5))
    BY <1>1, <1>7, <1>13, <1>14, <1>15, <1>16
  <1>23. /\ Elems(p7) \cap {"socket_divert", "windivert_init", "writepid", "win_sandbox"} = {}
         /\ "daemonize" \in Elems(p7) => launch.daemon
         /\ ~launch.pidfile => Elems(p7) \cap {"fopen_pidfile", "write_pidfile"} = {}
    <2>1. Elems(p7) \cap {"socket_divert", "windivert_init", "writepid", "win_sandbox"} = {}
      BY <1>20 DEF LuaSteps
    <2>2. Elems(p7) = Elems(p3) \cup Elems(q4) \cup Elems(q5) \cup Elems(q6) \cup Elems(q7)
      BY <1>14, <1>15, <1>16, <1>17
    <2>3. "daemonize" \in Elems(p7) => launch.daemon
      BY <1>1, <1>3, <1>6, <1>7, <1>13, <2>2 DEF LuaSteps
    <2>4. "fopen_pidfile" \in Elems(p7) => launch.pidfile
      BY <1>1, <1>3, <1>6, <1>7, <1>13, <2>2 DEF LuaSteps
    <2>5. "write_pidfile" \in Elems(p7) => launch.pidfile
      BY <1>1, <1>3, <1>6, <1>7, <1>13, <2>2 DEF LuaSteps
    <2> QED BY <2>1, <2>3, <2>4, <2>5
  <1>24. \A a, b : /\ Apart(p3, b, a)
                   /\ a \notin Elems(q4) /\ a \notin Elems(q5) /\ a \notin Elems(q6) /\ a \notin Elems(q7)
                   => Apart(p7, b, a)
    BY <1>14, <1>15, <1>16, <1>17
  <1>25. /\ Apart(p7, "sec_harden", "ensure_access") /\ Apart(p7, "dropcaps", "droproot")
         /\ Apart(p7, "write_pidfile", "fopen_pidfile")
    <2>1. Apart(p3, "write_pidfile", "fopen_pidfile")
      BY <1>13, ApartAbsent
    <2>2. /\ "ensure_access" \notin Elems(q4) \cup Elems(q5) \cup Elems(q6) \cup Elems(q7)
          /\ "droproot" \notin Elems(q4) \cup Elems(q5) \cup Elems(q6) \cup Elems(q7)
          /\ "fopen_pidfile" \notin Elems(q4) \cup Elems(q5) \cup Elems(q6) \cup Elems(q7)
      BY <1>1, <1>3, <1>6, <1>7 DEF LuaSteps
    <2> QED BY <1>12, <1>24, <2>1, <2>2
  <1>26. Apart(p7, "write_pidfile", "daemonize")
    <2>1. Apart(p4, "write_pidfile", "daemonize")
      BY <1>6, <1>13, <1>14
    <2>2. Apart(p6, "write_pidfile", "daemonize")
      BY <1>1, <1>7, <1>15, <1>16, <2>1 DEF LuaSteps
    <2>3. CASE launch.intercept
      <3>1. "write_pidfile" \notin Elems(p6)
        BY <1>1, <1>6, <1>7, <1>13, <1>14, <1>15, <1>16, <2>3 DEF LuaSteps
      <3> QED BY <1>3, <1>17, <3>1
    <2>4. CASE ~launch.intercept
      <3>1. "daemonize" \notin Elems(q7)
        BY <2>4, OneStep DEF q7, Steps
      <3> QED BY <1>17, <2>2, <3>1
    <2> QED BY <2>3, <2>4
  <1>27. /\ Droproot => Prec(p7, "droproot", "lua_init_script")
         /\ Prec(p7, "dropcaps", "lua_init_script")
    BY <1>15, <1>16, <1>17, <1>21, <1>22
  <1>28. /\ Prec(p7, "dropcaps", "rawsend_preinit")
         /\ Prec(p7, "dropcaps", "nfq_init")
    BY <1>12, <1>14, <1>15, <1>16, <1>17, <1>21, <1>22
  <1>29. /\ Prec(p7, "catch_signals", "serve") /\ Prec(p7, "lua_basic_init", "serve")
         /\ Prec(p7, "rawsend_preinit", "serve")
    BY <1>16, <1>17, <1>21, <1>22
  <1>30. "serve" \in Elems(p7) =>
           /\ Prec(p7, "nfq_init", "serve")
           /\ launch.daemon => Prec(p7, "daemonize", "serve")
           /\ launch.pidfile => Prec(p7, "write_pidfile", "serve")
    BY <1>3, <1>17, <1>21
  <1> QED BY <1>0, <1>17, <1>23, <1>25, <1>26, <1>27, <1>28, <1>29, <1>30

\* The order of dvt_main, on BSD.
LEMMA DvtMainIs ==
    ASSUME launch \in Launches
    PROVE  /\ dvt_main \in Seq(Steps)
           /\ Elems(dvt_main) \cap {"nfq_init", "windivert_init", "writepid", "win_sandbox", "dropcaps",
                                    "sec_harden"} = {}
           /\ "daemonize" \in Elems(dvt_main) => launch.daemon
           /\ ~launch.pidfile => Elems(dvt_main) \cap {"fopen_pidfile", "write_pidfile"} = {}
           /\ Apart(dvt_main, "write_pidfile", "daemonize")
           /\ Apart(dvt_main, "write_pidfile", "fopen_pidfile")
           /\ Apart(dvt_main, "droproot", "rawsend_preinit")
           /\ Apart(dvt_main, "droproot", "socket_divert")
           /\ Droproot => Prec(dvt_main, "droproot", "lua_init_script")
           /\ Prec(dvt_main, "catch_signals", "serve")
           /\ Prec(dvt_main, "lua_basic_init", "serve")
           /\ Prec(dvt_main, "rawsend_preinit", "serve")
           /\ "serve" \in Elems(dvt_main) => Prec(dvt_main, "socket_divert", "serve")
           /\ "serve" \in Elems(dvt_main) /\ launch.daemon => Prec(dvt_main, "daemonize", "serve")
           /\ "serve" \in Elems(dvt_main) /\ launch.pidfile => Prec(dvt_main, "write_pidfile", "serve")
  <1> DEFINE o1 == <<"fopen_pidfile">>
             o2 == <<"socket_divert">>
             o4 == <<"droproot">>
             q1 == If(launch.pidfile, o1)
             q2 == If(launch.intercept, o2)
             q3 == <<"rawsend_preinit">>
             q4 == If(Droproot, o4)
             q5 == <<"test_files", "catch_signals">>
             q6 == If(~launch.intercept, Detach)
             q7 == lua_init
             q8 == IF launch.intercept THEN Detach \o <<"serve">> ELSE <<"ok">>
             p1 == Prepare \o q1
             p2 == p1 \o q2
             p3 == p2 \o q3
             p4 == p3 \o q4
             p5 == p4 \o q5
             p6 == p5 \o q6
             p7 == p6 \o q7
             p8 == p7 \o q8
  <1>0. dvt_main = p8
    BY DEF dvt_main
  <1>1. /\ o1 \in Seq(Steps) /\ Elems(o1) = {"fopen_pidfile"}
        /\ o2 \in Seq(Steps) /\ Elems(o2) = {"socket_divert"}
        /\ o4 \in Seq(Steps) /\ Elems(o4) = {"droproot"}
        /\ q3 \in Seq(Steps) /\ Elems(q3) = {"rawsend_preinit"}
    BY OneStep DEF Steps
  <1>2. q5 \in Seq(Steps) /\ Elems(q5) = {"test_files", "catch_signals"}
    BY DEF Steps, Elems
  <1>3. /\ q8 \in Seq(Steps) /\ Elems(q8) \subseteq {"daemonize", "write_pidfile", "serve", "ok"}
        /\ "daemonize" \in Elems(q8) => launch.daemon
        /\ "write_pidfile" \in Elems(q8) => launch.pidfile
        /\ Apart(q8, "write_pidfile", "daemonize")
        /\ "serve" \in Elems(q8) => launch.intercept
        /\ "daemonize" \in Elems(q8) => launch.intercept
        /\ launch.intercept => /\ launch.daemon => Prec(q8, "daemonize", "serve")
                               /\ launch.pidfile => Prec(q8, "write_pidfile", "serve")
    <2> DEFINE e == <<"serve">>
               k == <<"ok">>
               d == Detach
    <2>1. d \in Seq(Steps) /\ "serve" \notin Elems(d) /\ Apart(d, "write_pidfile", "daemonize")
      BY DetachIs
    <2>2. e \in Seq(Steps) /\ Elems(e) = {"serve"} /\ k \in Seq(Steps) /\ Elems(k) = {"ok"}
      BY OneStep DEF Steps
    <2>3. (launch.intercept => q8 = d \o e) /\ (~launch.intercept => q8 = k)
      OBVIOUS
    <2> HIDE DEF q8, e, k, d
    <2>4. d \o e \in Seq(Steps) /\ Elems(d \o e) = Elems(d) \cup Elems(e)
      BY <2>1, <2>2, Joined
    <2>5. Apart(d \o e, "write_pidfile", "daemonize")
      BY <2>1, <2>2, Joined
    <2>6. \A a : a \in Elems(d) => Prec(d \o e, a, "serve")
      BY <2>1, <2>2, Joined
    <2>7. Apart(k, "write_pidfile", "daemonize")
      BY <2>2, ApartAbsent
    <2>8. CASE launch.intercept
      BY <2>2, <2>3, <2>4, <2>5, <2>6, <2>8, DetachIs DEF d
    <2>9. CASE ~launch.intercept
      BY <2>2, <2>3, <2>7, <2>9
    <2> QED BY <2>8, <2>9
  <1> HIDE DEF o1, o2, o4, q3, q5, q8
  <1>4. /\ q1 \in Seq(Steps) /\ Elems(q1) \subseteq {"fopen_pidfile"}
        /\ "fopen_pidfile" \in Elems(q1) => launch.pidfile
    BY <1>1, IfIs
  <1>5. /\ q2 \in Seq(Steps) /\ Elems(q2) \subseteq {"socket_divert"}
        /\ launch.intercept => "socket_divert" \in Elems(q2)
    BY <1>1, IfIs
  <1>6. q4 \in Seq(Steps) /\ Elems(q4) \subseteq {"droproot"} /\ (Droproot => "droproot" \in Elems(q4))
    BY <1>1, IfIs
  <1>7. /\ q6 \in Seq(Steps) /\ Elems(q6) \subseteq {"daemonize", "write_pidfile"}
        /\ "daemonize" \in Elems(q6) => launch.daemon
        /\ "write_pidfile" \in Elems(q6) => launch.pidfile
        /\ Apart(q6, "write_pidfile", "daemonize")
        /\ launch.intercept => Elems(q6) = {}
    <2>1. /\ q6 \in Seq(Steps) /\ Elems(q6) \subseteq Elems(Detach)
          /\ ~launch.intercept => q6 = Detach
          /\ launch.intercept => Elems(q6) = {}
      BY DetachIs, IfIs, LaunchIs
    <2>2. CASE launch.intercept
      BY <2>1, <2>2, ApartAbsent
    <2>3. CASE ~launch.intercept
      BY <2>1, <2>3, DetachIs
    <2> QED BY <2>2, <2>3
  <1>8. q7 \in Seq(Steps) /\ Elems(q7) \subseteq LuaSteps /\ "lua_basic_init" \in Elems(q7)
    BY LuaInitIs
  <1> HIDE DEF q1, q2, q4, q6, q7
  <1>10. p1 \in Seq(Steps) /\ Elems(p1) = Elems(Prepare) \cup Elems(q1)
    BY <1>4, PrepareIs, Joined
  <1> HIDE DEF p1
  <1>11. p2 \in Seq(Steps) /\ Elems(p2) = Elems(p1) \cup Elems(q2)
    BY <1>5, <1>10, Joined
  <1> HIDE DEF p2
  <1>12. p3 \in Seq(Steps) /\ Elems(p3) = Elems(p2) \cup Elems(q3)
    BY <1>1, <1>11, Joined
  <1> HIDE DEF p3
  <1>13. /\ Elems(p3) \subseteq {"ensure_access", "load_lists", "fopen_pidfile", "socket_divert", "rawsend_preinit"}
         /\ "rawsend_preinit" \in Elems(p3) /\ (launch.intercept => "socket_divert" \in Elems(p3))
         /\ "fopen_pidfile" \in Elems(p3) => launch.pidfile
    BY <1>1, <1>4, <1>5, <1>10, <1>11, <1>12, PrepareIs
  <1>14. /\ p4 \in Seq(Steps) /\ Elems(p4) = Elems(p3) \cup Elems(q4)
         /\ \A a, b : Apart(p3, b, a) /\ a \notin Elems(q4) => Apart(p4, b, a)
    BY <1>6, <1>12, Joined
  <1> HIDE DEF p4
  <1>15. /\ p5 \in Seq(Steps) /\ Elems(p5) = Elems(p4) \cup Elems(q5)
         /\ \A a, b : Apart(p4, b, a) /\ a \notin Elems(q5) => Apart(p5, b, a)
    BY <1>2, <1>14, Joined
  <1> HIDE DEF p5
  <1>16. /\ p6 \in Seq(Steps) /\ Elems(p6) = Elems(p5) \cup Elems(q6)
         /\ \A a, b : Apart(p5, b, a) /\ a \notin Elems(q6) => Apart(p6, b, a)
         /\ \A a, b : b \notin Elems(p5) /\ Apart(q6, b, a) => Apart(p6, b, a)
    BY <1>7, <1>15, Joined
  <1> HIDE DEF p6
  <1>17. /\ p7 \in Seq(Steps) /\ Elems(p7) = Elems(p6) \cup Elems(q7)
         /\ \A a, b : a \in Elems(p6) /\ b \notin Elems(p6) => Prec(p6, a, b)
         /\ \A a, b : Prec(p6, a, b) => Prec(p7, a, b)
         /\ \A a, b : Apart(p6, b, a) /\ a \notin Elems(q7) => Apart(p7, b, a)
    BY <1>8, <1>16, Joined
  <1> HIDE DEF p7
  <1>18. /\ p8 \in Seq(Steps) /\ Elems(p8) = Elems(p7) \cup Elems(q8)
         /\ \A a, b : a \in Elems(p7) /\ b \notin Elems(p7) => Prec(p7, a, b)
         /\ \A a, b : Prec(p7, a, b) => Prec(p8, a, b)
         /\ \A a, b : b \notin Elems(p7) /\ Prec(q8, a, b) => Prec(p8, a, b)
         /\ \A a, b : Apart(p7, b, a) /\ a \notin Elems(q8) => Apart(p8, b, a)
         /\ \A a, b : b \notin Elems(p7) /\ Apart(q8, b, a) => Apart(p8, b, a)
    BY <1>3, <1>17, Joined
  <1> HIDE DEF p8
  <1>19. /\ Elems(p6) = Elems(p3) \cup Elems(q4) \cup Elems(q5) \cup Elems(q6)
         /\ Elems(p7) = Elems(p3) \cup Elems(q4) \cup Elems(q5) \cup Elems(q6) \cup Elems(q7)
         /\ Elems(p8) = Elems(p3) \cup Elems(q4) \cup Elems(q5) \cup Elems(q6) \cup Elems(q7) \cup Elems(q8)
    BY <1>14, <1>15, <1>16, <1>17, <1>18
  <1>20. /\ "serve" \notin Elems(p7) /\ "lua_init_script" \notin Elems(p6)
         /\ launch.intercept => "write_pidfile" \notin Elems(p7)
    BY <1>2, <1>6, <1>7, <1>8, <1>13, <1>19 DEF LuaSteps
  <1>21. /\ "catch_signals" \in Elems(p7) /\ "lua_basic_init" \in Elems(p7) /\ "rawsend_preinit" \in Elems(p7)
         /\ Droproot => "droproot" \in Elems(p6)
         /\ launch.intercept => "socket_divert" \in Elems(p7)
    BY <1>2, <1>6, <1>8, <1>13, <1>19
  <1>22. Elems(p8) \cap {"nfq_init", "windivert_init", "writepid", "win_sandbox", "dropcaps", "sec_harden"} = {}
    BY <1>2, <1>3, <1>6, <1>7, <1>8, <1>13, <1>19 DEF LuaSteps
  <1>23. /\ "daemonize" \in Elems(p8) => launch.daemon
         /\ "fopen_pidfile" \in Elems(p8) => launch.pidfile
         /\ "write_pidfile" \in Elems(p8) => launch.pidfile
    BY <1>2, <1>3, <1>6, <1>7, <1>8, <1>13, <1>19, ZenonT(30) DEF LuaSteps
  <1>24. /\ Apart(p8, "write_pidfile", "fopen_pidfile") /\ Apart(p8, "droproot", "rawsend_preinit")
         /\ Apart(p8, "droproot", "socket_divert")
    <2>1. \A a, b : /\ b \notin Elems(p3) /\ a \notin Elems(q4) /\ a \notin Elems(q5)
                    /\ a \notin Elems(q6) /\ a \notin Elems(q7) /\ a \notin Elems(q8)
                    => Apart(p8, b, a)
      BY <1>14, <1>15, <1>16, <1>17, <1>18, ApartAbsent
    <2>2. \A a \in {"fopen_pidfile", "rawsend_preinit", "socket_divert"} :
            /\ a \notin Elems(q4) /\ a \notin Elems(q5) /\ a \notin Elems(q6)
            /\ a \notin Elems(q7) /\ a \notin Elems(q8)
      BY <1>2, <1>3, <1>6, <1>7, <1>8 DEF LuaSteps
    <2>3. "write_pidfile" \notin Elems(p3) /\ "droproot" \notin Elems(p3)
      BY <1>13
    <2> QED BY <2>1, <2>2, <2>3
  <1>25. Apart(p8, "write_pidfile", "daemonize")
    <2>1. "write_pidfile" \notin Elems(p5)
      BY <1>2, <1>6, <1>13, <1>14, <1>15
    <2>2. "daemonize" \notin Elems(q7)
      BY <1>8 DEF LuaSteps
    <2>3. Apart(p7, "write_pidfile", "daemonize")
      BY <1>7, <1>16, <1>17, <2>1, <2>2
    <2>4. CASE launch.intercept
      BY <1>3, <1>18, <1>20, <2>4
    <2>5. CASE ~launch.intercept
      BY <1>3, <1>18, <2>3, <2>5
    <2> QED BY <2>4, <2>5
  <1>26. /\ Droproot => Prec(p8, "droproot", "lua_init_script")
         /\ Prec(p8, "catch_signals", "serve") /\ Prec(p8, "lua_basic_init", "serve")
         /\ Prec(p8, "rawsend_preinit", "serve")
    BY <1>17, <1>18, <1>20, <1>21
  <1>27. "serve" \in Elems(p8) =>
           /\ Prec(p8, "socket_divert", "serve")
           /\ launch.daemon => Prec(p8, "daemonize", "serve")
           /\ launch.pidfile => Prec(p8, "write_pidfile", "serve")
    BY <1>3, <1>18, <1>20, <1>21
  <1> QED BY <1>0, <1>18, <1>22, <1>23, <1>24, <1>25, <1>26, <1>27

\* The order of a round of win_main.
LEMMA WinRoundIs ==
    ASSUME launch \in Launches, NEW has_lua
    PROVE  LET p == win_round(has_lua)
           IN  /\ p \in Seq(Steps)
               /\ Elems(p) \subseteq {"logical_net", "windivert_init", "win_sandbox", "serve", "ok"} \cup LuaSteps
               /\ Apart(p, "win_sandbox", "windivert_init")
               /\ Prec(p, "win_sandbox", "lua_init_script")
               /\ Prec(p, "windivert_init", "serve")
               /\ ~has_lua => Prec(p, "lua_basic_init", "serve")
  <1> DEFINE q1 == <<"logical_net", "windivert_init", "win_sandbox">>
             q2 == If(~has_lua, lua_init)
             q3 == IF launch.intercept THEN <<"serve">> ELSE <<"ok">>
             p2 == q1 \o q2
             p3 == p2 \o q3
  <1>0. win_round(has_lua) = p3
    BY DEF win_round
  <1>1. /\ q1 \in Seq(Steps) /\ Elems(q1) = {"logical_net", "windivert_init", "win_sandbox"}
        /\ Apart(q1, "win_sandbox", "windivert_init")
    <2>1. q1 \in Seq(Steps) /\ Elems(q1) = {"logical_net", "windivert_init", "win_sandbox"}
      BY DEF Steps, Elems
    <2>2. /\ DOMAIN q1 = 1 .. 3 /\ q1[1] = "logical_net" /\ q1[2] = "windivert_init" /\ q1[3] = "win_sandbox"
      OBVIOUS
    <2> HIDE DEF q1
    <2>3. Apart(q1, "win_sandbox", "windivert_init")
      <3> SUFFICES ASSUME NEW i \in 1 .. 3, NEW j \in 1 .. 3, i < j, q1[i] = "win_sandbox"
                   PROVE  FALSE
        BY <2>2 DEF Apart
      <3>1. i = 1 \/ i = 2
        OBVIOUS
      <3> QED BY <2>2, <3>1
    <2> QED BY <2>1, <2>3
  <1>2. /\ q2 \in Seq(Steps) /\ Elems(q2) \subseteq LuaSteps
        /\ ~has_lua => "lua_basic_init" \in Elems(q2)
    BY LuaInitIs, IfIs
  <1>3. q3 \in Seq(Steps) /\ Elems(q3) \subseteq {"serve", "ok"}
    <2>1. /\ <<"serve">> \in Seq(Steps) /\ Elems(<<"serve">>) = {"serve"}
          /\ <<"ok">> \in Seq(Steps) /\ Elems(<<"ok">>) = {"ok"}
      BY OneStep DEF Steps
    <2> QED BY <2>1
  <1> HIDE DEF q1, q2, q3
  <1>4. /\ p2 \in Seq(Steps) /\ Elems(p2) = Elems(q1) \cup Elems(q2)
        /\ \A a, b : a \in Elems(q1) /\ b \notin Elems(q1) => Prec(q1, a, b)
        /\ \A a, b : Prec(q1, a, b) => Prec(p2, a, b)
        /\ \A a, b : Apart(q1, b, a) /\ a \notin Elems(q2) => Apart(p2, b, a)
    BY <1>1, <1>2, Joined
  <1> HIDE DEF p2
  <1>5. /\ p3 \in Seq(Steps) /\ Elems(p3) = Elems(p2) \cup Elems(q3)
        /\ \A a, b : a \in Elems(p2) /\ b \notin Elems(p2) => Prec(p2, a, b)
        /\ \A a, b : Prec(p2, a, b) => Prec(p3, a, b)
        /\ \A a, b : Apart(p2, b, a) /\ a \notin Elems(q3) => Apart(p3, b, a)
    BY <1>3, <1>4, Joined
  <1> HIDE DEF p3
  <1>6. Elems(p3) \subseteq {"logical_net", "windivert_init", "win_sandbox", "serve", "ok"} \cup LuaSteps
    BY <1>1, <1>2, <1>3, <1>4, <1>5
  <1>7. "windivert_init" \notin Elems(q2) /\ "windivert_init" \notin Elems(q3) /\ "serve" \notin Elems(p2)
    BY <1>1, <1>2, <1>3, <1>4 DEF LuaSteps
  <1>8. Apart(p3, "win_sandbox", "windivert_init")
    BY <1>1, <1>4, <1>5, <1>7
  <1>9. Prec(p3, "win_sandbox", "lua_init_script") /\ Prec(p3, "windivert_init", "serve")
    BY <1>1, <1>4, <1>5
  <1>10. ~has_lua => Prec(p3, "lua_basic_init", "serve")
    BY <1>2, <1>4, <1>5, <1>7
  <1> QED BY <1>0, <1>5, <1>6, <1>8, <1>9, <1>10

\* The order of win_main.
LEMMA WinMainIs ==
    ASSUME launch \in Launches
    PROVE  /\ win_main \in Seq(Steps)
           /\ Elems(win_main) \cap {"rawsend_preinit", "socket_divert", "nfq_init", "dropcaps",
                                    "sec_harden", "fopen_pidfile", "write_pidfile"} = {}
           /\ "daemonize" \in Elems(win_main) => launch.daemon
           /\ "writepid" \in Elems(win_main) => launch.pidfile
           /\ Apart(win_main, "writepid", "daemonize")
           /\ Apart(win_main, "win_sandbox", "windivert_init")
           /\ Prec(win_main, "win_sandbox", "lua_init_script")
           /\ Prec(win_main, "windivert_init", "serve")
           /\ Prec(win_main, "lua_basic_init", "serve")
           /\ Prec(win_main, "catch_signals", "serve")
           /\ launch.daemon => Prec(win_main, "daemonize", "serve")
           /\ launch.pidfile => Prec(win_main, "writepid", "serve")
  <1> DEFINE o1 == <<"daemonize">>
             o2 == <<"writepid">>
             no == FALSE
             q1 == If(launch.daemon, o1)
             q2 == If(launch.pidfile, o2)
             q3 == <<"win_dark_init", "buffers", "catch_signals">>
             q4 == win_round(no)
             p1 == Prepare \o q1
             p2 == p1 \o q2
             p3 == p2 \o q3
             p4 == p3 \o q4
  <1>0. win_main = p4
    BY DEF win_main
  <1>1. /\ o1 \in Seq(Steps) /\ Elems(o1) = {"daemonize"}
        /\ o2 \in Seq(Steps) /\ Elems(o2) = {"writepid"}
    BY OneStep DEF Steps
  <1>2. q3 \in Seq(Steps) /\ Elems(q3) = {"win_dark_init", "buffers", "catch_signals"}
    BY DEF Steps, Elems
  <1>n. ~no
    OBVIOUS
  <1> HIDE DEF o1, o2, q3, no
  <1>3. /\ q1 \in Seq(Steps) /\ Elems(q1) \subseteq {"daemonize"}
        /\ "daemonize" \in Elems(q1) <=> launch.daemon
    BY <1>1, IfIs
  <1>4. /\ q2 \in Seq(Steps) /\ Elems(q2) \subseteq {"writepid"}
        /\ "writepid" \in Elems(q2) <=> launch.pidfile
    BY <1>1, IfIs
  <1>5. /\ q4 \in Seq(Steps)
        /\ Elems(q4) \subseteq {"logical_net", "windivert_init", "win_sandbox", "serve", "ok"} \cup LuaSteps
        /\ Apart(q4, "win_sandbox", "windivert_init")
        /\ Prec(q4, "win_sandbox", "lua_init_script")
        /\ Prec(q4, "windivert_init", "serve")
        /\ Prec(q4, "lua_basic_init", "serve")
    BY <1>n, WinRoundIs
  <1> HIDE DEF q1, q2, q4
  <1>6. p1 \in Seq(Steps) /\ Elems(p1) = Elems(Prepare) \cup Elems(q1)
    BY <1>3, PrepareIs, Joined
  <1> HIDE DEF p1
  <1>7. /\ p2 \in Seq(Steps) /\ Elems(p2) = Elems(p1) \cup Elems(q2)
        /\ \A a, b : b \notin Elems(p1) /\ Apart(q2, b, a) => Apart(p2, b, a)
    BY <1>4, <1>6, Joined
  <1> HIDE DEF p2
  <1>8. /\ p3 \in Seq(Steps) /\ Elems(p3) = Elems(p2) \cup Elems(q3)
        /\ \A a, b : Apart(p2, b, a) /\ a \notin Elems(q3) => Apart(p3, b, a)
    BY <1>2, <1>7, Joined
  <1> HIDE DEF p3
  <1>9. /\ p4 \in Seq(Steps) /\ Elems(p4) = Elems(p3) \cup Elems(q4)
        /\ \A a, b : a \in Elems(p3) /\ b \notin Elems(p3) => Prec(p3, a, b)
        /\ \A a, b : Prec(p3, a, b) => Prec(p4, a, b)
        /\ \A a, b : b \notin Elems(p3) /\ Prec(q4, a, b) => Prec(p4, a, b)
        /\ \A a, b : Apart(p3, b, a) /\ a \notin Elems(q4) => Apart(p4, b, a)
        /\ \A a, b : b \notin Elems(p3) /\ Apart(q4, b, a) => Apart(p4, b, a)
    BY <1>5, <1>8, Joined
  <1> HIDE DEF p4
  <1>10. /\ Elems(p3) = {"ensure_access", "load_lists"} \cup Elems(q1) \cup Elems(q2) \cup Elems(q3)
         /\ Elems(p4) = Elems(p3) \cup Elems(q4)
    BY <1>6, <1>7, <1>8, <1>9, PrepareIs
  <1>11. /\ "serve" \notin Elems(p3) /\ "win_sandbox" \notin Elems(p3) /\ "lua_init_script" \notin Elems(p3)
         /\ "catch_signals" \in Elems(p3)
         /\ launch.daemon => "daemonize" \in Elems(p3)
         /\ launch.pidfile => "writepid" \in Elems(p3)
    BY <1>2, <1>3, <1>4, <1>10
  <1>12. Elems(p4) \cap {"rawsend_preinit", "socket_divert", "nfq_init", "dropcaps",
                         "sec_harden", "fopen_pidfile", "write_pidfile"} = {}
    BY <1>2, <1>3, <1>4, <1>5, <1>10 DEF LuaSteps
  <1>13. /\ "daemonize" \in Elems(p4) => launch.daemon
         /\ "writepid" \in Elems(p4) => launch.pidfile
    BY <1>2, <1>3, <1>4, <1>5, <1>10 DEF LuaSteps
  <1>14. Apart(p4, "writepid", "daemonize")
    <2>1. Apart(q2, "writepid", "daemonize")
      BY <1>4, ApartAbsent
    <2>2. "writepid" \notin Elems(p1) /\ "daemonize" \notin Elems(q3) /\ "daemonize" \notin Elems(q4)
      BY <1>2, <1>3, <1>5, <1>6, PrepareIs DEF LuaSteps
    <2> QED BY <1>7, <1>8, <1>9, <2>1, <2>2
  <1>15. Apart(p4, "win_sandbox", "windivert_init")
    BY <1>5, <1>9, <1>11
  <1>16. /\ Prec(p4, "win_sandbox", "lua_init_script") /\ Prec(p4, "windivert_init", "serve")
         /\ Prec(p4, "lua_basic_init", "serve")
    BY <1>5, <1>9, <1>11
  <1>17. /\ Prec(p4, "catch_signals", "serve")
         /\ launch.daemon => Prec(p4, "daemonize", "serve")
         /\ launch.pidfile => Prec(p4, "writepid", "serve")
    BY <1>9, <1>11
  <1> QED BY <1>0, <1>9, <1>12, <1>13, <1>14, <1>15, <1>16, <1>17

LEMMA StartInvInit == ProgInit => StartInv
  <1> SUFFICES ASSUME ProgInit PROVE StartInv
    OBVIOUS
  <1>1. /\ launch \in Launches
        /\ proc = [pid |-> "first", root |-> launch.root, permitted |-> launch.caps, effective |-> launch.caps,
                   locked |-> FALSE, low |-> FALSE, catches |-> FALSE]
        /\ opened = {} /\ pidfile = "none" /\ ran = {} /\ denied = FALSE
        /\ pc = "top" /\ net = TRUE
    BY DEF ProgInit, Init, StartInit
  <1>2. /\ proc \in ProcRecord /\ proc.pid = "first" /\ proc.root = launch.root
        /\ proc.permitted = launch.caps /\ proc.effective = launch.caps
        /\ ~proc.locked /\ ~proc.low /\ ~proc.catches
    <2>1. launch.caps \in SUBSET Caps
      BY <1>1 DEF Caps, LaunchCaps
    <2> QED BY <1>1, <2>1, LaunchIs DEF ProcRecord
  <1>3. /\ Is("linux") \/ Is("bsd") \/ Is("win")
        /\ Is("linux") => ~Is("bsd") /\ ~Is("win") /\ plan = nfq_main
        /\ Is("bsd") => ~Is("linux") /\ ~Is("win") /\ plan = dvt_main
        /\ Is("win") => ~Is("linux") /\ ~Is("bsd") /\ plan = win_main
    BY <1>1, LaunchIs DEF ProgInit, StartInit, Is
  <1>4. LuaIsSandboxed /\ NeverDenied
    BY <1>1 DEF LuaIsSandboxed, NeverDenied
  <1>5. can_drop_root /\ ~Is("win") => Droproot
    BY DEF Droproot
  <1>6. launch.daemon \in BOOLEAN /\ launch.pidfile \in BOOLEAN /\ launch.logical \in BOOLEAN
    BY <1>1, LaunchIs
  <1>7. CASE Is("linux")
    <2>1. plan = nfq_main /\ ~Is("bsd") /\ ~Is("win")
      BY <1>3, <1>7
    <2>2. StartType /\ Platform
      BY <1>1, <1>2, <2>1, NfqMainIs DEF StartType, Platform, Todo
    <2>3. Order
      BY <1>1, <2>1, NfqMainIs, ApartAbsent DEF Order
    <2>4. Sandbox
      BY <1>1, <1>4, <1>5, <2>1, NfqMainIs DEF Sandbox, Until
    <2>5. Privileges
      BY <1>1, <1>2, <1>4, <2>1, NfqMainIs DEF Privileges, Until
    <2>6. Ready
      BY <1>1, <1>2, <1>6, <2>1, NfqMainIs DEF Ready, Until, Todo
    <2>7. Pidfile
      BY <1>1, <1>2, <1>6, <2>1, NfqMainIs DEF Pidfile, Until, Todo
    <2> QED BY <2>2, <2>3, <2>4, <2>5, <2>6, <2>7 DEF StartInv
  <1>8. CASE Is("bsd")
    <2>1. plan = dvt_main /\ ~Is("linux") /\ ~Is("win")
      BY <1>3, <1>8
    <2>2. StartType /\ Platform
      BY <1>1, <1>2, <2>1, DvtMainIs DEF StartType, Platform, Todo
    <2>3. Order
      BY <1>1, <2>1, DvtMainIs, ApartAbsent DEF Order
    <2>4. Sandbox
      BY <1>1, <1>4, <1>5, <2>1, DvtMainIs DEF Sandbox, Until
    <2>5. Privileges
      BY <1>1, <1>2, <1>4, <2>1 DEF Privileges
    <2>6. Ready
      BY <1>1, <1>2, <1>6, <2>1, DvtMainIs DEF Ready, Until, Todo
    <2>7. Pidfile
      BY <1>1, <1>2, <1>6, <2>1, DvtMainIs DEF Pidfile, Until, Todo
    <2> QED BY <2>2, <2>3, <2>4, <2>5, <2>6, <2>7 DEF StartInv
  <1>9. CASE Is("win")
    <2>1. plan = win_main /\ ~Is("linux") /\ ~Is("bsd")
      BY <1>3, <1>9
    <2>2. StartType /\ Platform
      BY <1>1, <1>2, <2>1, WinMainIs DEF StartType, Platform, Todo
    <2>3. Order
      BY <1>1, <2>1, WinMainIs, ApartAbsent DEF Order
    <2>4. Sandbox
      BY <1>1, <1>4, <1>9, <2>1, WinMainIs DEF Sandbox, Until
    <2>5. Privileges
      BY <1>1, <1>2, <1>4, <2>1 DEF Privileges
    <2>6. Ready
      BY <1>1, <1>2, <1>6, <1>9, <2>1, WinMainIs DEF Ready, Until, Todo
    <2>7. Pidfile
      BY <1>1, <1>2, <1>6, <1>9, <2>1, WinMainIs DEF Pidfile, Until, Todo
    <2> QED BY <2>2, <2>3, <2>4, <2>5, <2>6, <2>7 DEF StartInv
  <1> QED BY <1>3, <1>7, <1>8, <1>9

-----------------------------------------------------------------------------
(* What a step of the start does, if it is done and if it fails.           *)

Advance(s) ==
    /\ plan # <<>> /\ Head(plan) = s /\ plan' = Tail(plan)
    /\ launch' = launch
    /\ proc' \in ProcRecord
    /\ proc'.root => proc.root
    /\ s = "droproot" => ~proc'.root
    /\ s # "droproot" => proc'.root = proc.root
    /\ proc'.pid = IF s = "daemonize" THEN "daemon" ELSE proc.pid
    /\ proc.low => proc'.low
    /\ proc'.low <=> (proc.low \/ s = "win_sandbox")
    /\ proc'.catches <=> (proc.catches \/ s = "catch_signals")
    /\ proc'.locked => (proc.locked \/ s = "sec_harden")
    /\ proc'.effective \subseteq proc'.permitted
    /\ s # "dropcaps" => proc'.permitted = proc.permitted
    /\ s \notin {"dropcaps", "droproot"} => proc'.effective = proc.effective
    /\ s = "dropcaps" => proc'.permitted = NetCaps /\ proc'.effective = NetCaps
    /\ opened \ {"Fpid"} \subseteq opened'
    /\ "Fpid" \in opened' => s = "fopen_pidfile" \/ ("Fpid" \in opened /\ s # "write_pidfile")
    /\ s = "lua_basic_init" => "L" \in opened'
    /\ s = "nfq_init" => "qh" \in opened'
    /\ s = "rawsend_preinit" => "rawsend_sock4" \in opened'
    /\ s = "socket_divert" => "fd" \in opened'
    /\ s = "windivert_init" => "w_filter" \in opened'
    /\ s = "win_sandbox" /\ ~proc.low /\ launch.logical => "label" \in opened'
    /\ s \in {"write_pidfile", "writepid"} => pidfile' = proc.pid
    /\ s \notin {"write_pidfile", "writepid", "fopen_pidfile"} => pidfile' = pidfile
    /\ s # "lua_init_script" => ran' = ran
    /\ s = "lua_init_script" => ran' = ran \cup {proc}
    /\ denied' => denied \/ (s = "ensure_access" /\ proc.locked)

\* the privilege that step s needs is not there
Lacks(s) ==
    \/ s = "ensure_access" /\ proc.locked
    \/ s = "dropcaps" /\ ~(NetCaps \subseteq proc.permitted)
    \/ s \in {"rawsend_preinit", "socket_divert"} /\ ~RawMay
    \/ s = "nfq_init" /\ "NET_ADMIN" \notin proc.effective
    \/ s = "windivert_init" /\ proc.low /\ "label" \notin opened

Abort(s) ==
    /\ plan' \in {<<>>, <<"ok">>, <<"err", "ex">>}
    /\ launch' = launch /\ proc' = proc /\ pidfile' = pidfile
    /\ "label" \in opened => "label" \in opened'
    /\ "Fpid" \in opened' => "Fpid" \in opened
    /\ ran' = ran \/ (s = "lua_init_script" /\ ran' = ran \cup {proc})
    /\ denied' => denied \/ Lacks(s)
    /\ s = "none" \/ (plan # <<>> /\ Head(plan) = s)

\* A step that leaves the process alone.
LEMMA Harmless ==
    ASSUME StartType, proc.effective \subseteq proc.permitted, NEW s, Now(s), Done, launch' = launch,
           proc' = proc,
           s \notin {"droproot", "daemonize", "win_sandbox", "catch_signals", "dropcaps"},
           opened \ {"Fpid"} \subseteq opened',
           "Fpid" \in opened' => s = "fopen_pidfile" \/ ("Fpid" \in opened /\ s # "write_pidfile"),
           s = "lua_basic_init" => "L" \in opened',
           s = "nfq_init" => "qh" \in opened',
           s = "rawsend_preinit" => "rawsend_sock4" \in opened',
           s = "socket_divert" => "fd" \in opened',
           s = "windivert_init" => "w_filter" \in opened',
           s \in {"write_pidfile", "writepid"} => pidfile' = proc.pid,
           s \notin {"write_pidfile", "writepid", "fopen_pidfile"} => pidfile' = pidfile,
           s # "lua_init_script" => ran' = ran,
           s = "lua_init_script" => ran' = ran \cup {proc},
           denied' => denied \/ (s = "ensure_access" /\ proc.locked)
    PROVE  Advance(s)
  BY DEF Advance, Now, Done, StartType

LEMMA GivesUp ==
    ASSUME NEW s, Now(s), Err \/ \E code : Exit(code), launch' = launch, proc' = proc, pidfile' = pidfile,
           "label" \in opened => "label" \in opened',
           "Fpid" \in opened' => "Fpid" \in opened,
           ran' = ran \/ (s = "lua_init_script" /\ ran' = ran \cup {proc}),
           denied' => denied \/ Lacks(s)
    PROVE  Abort(s)
  BY DEF Abort, Now, Err, Exit

LEMMA OpensShape ==
    ASSUME StartType, proc.effective \subseteq proc.permitted, NEW s, NEW may, NEW what, Opens(s, may, what),
           s \in {"rawsend_preinit", "socket_divert", "buffers", "nfq_init", "windivert_init",
                  "win_dark_init", "lua_basic_init"},
           "Fpid" \notin what, ~may => Lacks(s),
           s = "lua_basic_init" => "L" \in what,
           s = "nfq_init" => "qh" \in what,
           s = "rawsend_preinit" => "rawsend_sock4" \in what,
           s = "socket_divert" => "fd" \in what,
           s = "windivert_init" => "w_filter" \in what
    PROVE  Advance(s) \/ Abort(s)
  <1>1. Now(s) /\ launch' = launch /\ proc' = proc /\ pidfile' = pidfile /\ ran' = ran
    BY DEF Opens
  <1>2. CASE Done /\ opened' = opened \cup what /\ denied' = denied
    <2>1. Advance(s)
      BY <1>1, <1>2, Harmless
    <2> QED BY <2>1
  <1>3. CASE Err /\ denied' = (denied \/ ~may) /\ opened' = opened
    <2>1. denied' => denied \/ Lacks(s)
      BY <1>3
    <2>2. Abort(s)
      BY <1>1, <1>3, <2>1, GivesUp
    <2> QED BY <2>2
  <1> QED BY <1>2, <1>3 DEF Opens

LEMMA SetpcapIs ==
    ASSUME NEW p \in ProcRecord
    PROVE  LET q == setpcap(setpcap(p, NetCaps \cup {"SETPCAP"}), NetCaps)
           IN  /\ q \in ProcRecord
               /\ ~(NetCaps \subseteq p.permitted) => q = p
               /\ NetCaps \subseteq p.permitted => /\ q.permitted = NetCaps /\ q.effective = NetCaps
               /\ q.root = p.root /\ q.pid = p.pid /\ q.low = p.low /\ q.catches = p.catches
               /\ q.locked = p.locked
  <1> DEFINE c == NetCaps \cup {"SETPCAP"}
             r == setpcap(p, c)
             q == setpcap(r, NetCaps)
  <1>1. c \in SUBSET Caps /\ NetCaps \in SUBSET Caps /\ NetCaps \subseteq c
    BY DEF Caps
  <1> HIDE DEF c
  <1>2. /\ r \in ProcRecord
        /\ NetCaps \subseteq r.permitted <=> NetCaps \subseteq p.permitted
        /\ r = p \/ NetCaps \subseteq p.permitted
        /\ r.root = p.root /\ r.pid = p.pid /\ r.low = p.low /\ r.catches = p.catches /\ r.locked = p.locked
    <2>1. CASE c \subseteq p.permitted
      <3>1. r = [p EXCEPT !.permitted = c, !.effective = c]
        BY <2>1 DEF setpcap
      <3> QED BY <1>1, <2>1, <3>1 DEF ProcRecord
    <2>2. CASE ~(c \subseteq p.permitted)
      <3>1. r = p
        BY <2>2 DEF setpcap
      <3> QED BY <3>1
    <2> QED BY <2>1, <2>2
  <1> HIDE DEF r
  <1>3. CASE NetCaps \subseteq r.permitted
    <2>1. q = [r EXCEPT !.permitted = NetCaps, !.effective = NetCaps]
      BY <1>3 DEF setpcap
    <2>2. /\ q \in ProcRecord /\ q.permitted = NetCaps /\ q.effective = NetCaps
          /\ q.root = r.root /\ q.pid = r.pid /\ q.low = r.low /\ q.catches = r.catches /\ q.locked = r.locked
      BY <1>1, <1>2, <2>1 DEF ProcRecord
    <2> QED BY <1>2, <1>3, <2>2 DEF r, c
  <1>4. CASE ~(NetCaps \subseteq r.permitted)
    <2>1. q = r /\ r = p
      BY <1>2, <1>4 DEF setpcap
    <2> QED BY <1>2, <1>4, <2>1 DEF r, c
  <1> QED BY <1>3, <1>4

LEMMA StartShape ==
    ASSUME StartType, proc.effective \subseteq proc.permitted, Start
    PROVE  \E s : Advance(s) \/ Abort(s)
  <1>t. proc \in ProcRecord /\ launch \in Launches
    BY DEF StartType
  <1>1. CASE ensure_access
    <2> DEFINE s == "ensure_access"
    <2>1. /\ Now(s) /\ (Done \/ \E code : Exit(code)) /\ launch' = launch /\ proc' = proc /\ pidfile' = pidfile
          /\ opened' = opened /\ ran' = ran /\ denied' = (denied \/ proc.locked)
      BY <1>1 DEF ensure_access
    <2>2. denied' => denied \/ proc.locked
      BY <2>1
    <2>3. Advance(s) \/ Abort(s)
      BY <2>1, <2>2, Harmless, GivesUp DEF Lacks
    <2> QED BY <2>3
  <1>2. CASE test_files
    <2> DEFINE s == "test_files"
    <2>1. /\ Now(s) /\ (Done \/ Err) /\ launch' = launch /\ proc' = proc /\ pidfile' = pidfile
          /\ opened' = opened /\ ran' = ran /\ denied' = denied
      BY <1>2 DEF test_files
    <2>2. Advance(s) \/ Abort(s)
      BY <2>1, Harmless, GivesUp
    <2> QED BY <2>2
  <1>3. CASE load_lists
    <2> DEFINE s == "load_lists"
    <2>1. /\ Now(s) /\ (Done \/ \E code : Exit(code)) /\ launch' = launch /\ proc' = proc /\ pidfile' = pidfile
          /\ opened' = opened /\ ran' = ran /\ denied' = denied
      BY <1>3 DEF load_lists
    <2>2. Advance(s) \/ Abort(s)
      BY <2>1, Harmless, GivesUp
    <2> QED BY <2>2
  <1>4. CASE droproot
    <2> DEFINE s == "droproot"
    <2>1. /\ Now(s) /\ launch' = launch /\ pidfile' = pidfile /\ opened' = opened /\ ran' = ran /\ denied' = denied
          /\ (proc' = setuid(proc) /\ Done) \/ (Err /\ proc' = proc)
      BY <1>4 DEF droproot
    <2>2. CASE Err /\ proc' = proc
      <3>1. Abort(s)
        BY <2>1, <2>2, GivesUp
      <3> QED BY <3>1
    <2>3. CASE proc' = setuid(proc) /\ Done
      <3>1. /\ proc' \in ProcRecord /\ proc'.root = FALSE /\ proc'.pid = proc.pid /\ proc'.low = proc.low
            /\ proc'.catches = proc.catches /\ proc'.locked = proc.locked
            /\ proc'.permitted = proc.permitted /\ proc'.effective \subseteq proc.effective
        BY <1>t, <2>3 DEF setuid, ProcRecord
      <3>2. Advance(s)
        BY <2>1, <2>3, <3>1 DEF Advance, Now, Done
      <3> QED BY <3>2
    <2> QED BY <2>1, <2>2, <2>3
  <1>5. CASE dropcaps
    <2> DEFINE s == "dropcaps"
               q == setpcap(setpcap(proc, NetCaps \cup {"SETPCAP"}), NetCaps)
    <2>1. /\ Now(s) /\ launch' = launch /\ pidfile' = pidfile /\ opened' = opened /\ ran' = ran
          /\ proc' = q
          /\ IF NetCaps \subseteq proc'.effective THEN Done /\ denied' = denied ELSE Err /\ denied' = TRUE
      BY <1>5 DEF dropcaps
    <2>2. /\ q \in ProcRecord
          /\ ~(NetCaps \subseteq proc.permitted) => q = proc
          /\ NetCaps \subseteq proc.permitted => /\ q.permitted = NetCaps /\ q.effective = NetCaps
          /\ q.root = proc.root /\ q.pid = proc.pid /\ q.low = proc.low /\ q.catches = proc.catches
          /\ q.locked = proc.locked
      BY <1>t, SetpcapIs
    <2> HIDE DEF q
    <2>3. CASE NetCaps \subseteq proc.permitted
      <3>1. Done /\ denied' = denied /\ q.permitted = NetCaps /\ q.effective = NetCaps
        BY <2>1, <2>2, <2>3
      <3>2. Advance(s)
        BY <2>1, <2>2, <3>1 DEF Advance, Now, Done
      <3> QED BY <3>2
    <2>4. CASE ~(NetCaps \subseteq proc.permitted)
      <3>1. Err /\ proc' = proc
        BY <2>1, <2>2, <2>4
      <3>2. Lacks(s)
        BY <2>4 DEF Lacks
      <3>3. Abort(s)
        BY <2>1, <3>1, <3>2, GivesUp
      <3> QED BY <3>3
    <2> QED BY <2>3, <2>4
  <1>6. CASE sec_harden
    <2> DEFINE s == "sec_harden"
    <2>1. /\ Now(s) /\ Done /\ launch' = launch /\ pidfile' = pidfile /\ opened' = opened /\ ran' = ran
          /\ denied' = denied /\ proc' = [proc EXCEPT !.locked = launch.seccomp]
      BY <1>6 DEF sec_harden
    <2>2. /\ proc' \in ProcRecord /\ proc'.root = proc.root /\ proc'.pid = proc.pid /\ proc'.low = proc.low
          /\ proc'.catches = proc.catches /\ proc'.permitted = proc.permitted /\ proc'.effective = proc.effective
      BY <1>t, <2>1, LaunchIs DEF ProcRecord
    <2>3. Advance(s)
      BY <2>1, <2>2 DEF Advance, Now, Done
    <2> QED BY <2>3
  <1>7. CASE win_sandbox
    <2> DEFINE s == "win_sandbox"
    <2>1. /\ Now(s) /\ launch' = launch /\ pidfile' = pidfile /\ ran' = ran /\ denied' = denied
          /\ \/ /\ proc' = [proc EXCEPT !.low = TRUE]
                /\ opened' = IF ~proc.low /\ launch.logical THEN opened \cup {"label"} ELSE opened
                /\ Done
             \/ Err /\ proc' = proc /\ opened' = opened
      BY <1>7 DEF win_sandbox
    <2>2. CASE Err /\ proc' = proc /\ opened' = opened
      <3>1. Abort(s)
        BY <2>1, <2>2, GivesUp
      <3> QED BY <3>1
    <2>3. CASE /\ proc' = [proc EXCEPT !.low = TRUE]
               /\ opened' = IF ~proc.low /\ launch.logical THEN opened \cup {"label"} ELSE opened
               /\ Done
      <3>1. /\ proc' \in ProcRecord /\ proc'.root = proc.root /\ proc'.pid = proc.pid /\ proc'.low = TRUE
            /\ proc'.catches = proc.catches /\ proc'.locked = proc.locked
            /\ proc'.permitted = proc.permitted /\ proc'.effective = proc.effective
        BY <1>t, <2>3 DEF ProcRecord
      <3>2. /\ opened \subseteq opened' /\ ("Fpid" \in opened' => "Fpid" \in opened)
            /\ ~proc.low /\ launch.logical => "label" \in opened'
        BY <2>3
      <3>3. Advance(s)
        BY <2>1, <2>3, <3>1, <3>2 DEF Advance, Now, Done
      <3> QED BY <3>3
    <2> QED BY <2>1, <2>2, <2>3
  <1>8. CASE rawsend_preinit
    <2> DEFINE s == "rawsend_preinit"
               may == RawMay
               what == {"rawsend_sock4"} \cup (IF launch.ipv6 THEN {"rawsend_sock6"} ELSE {})
    <2>1. Opens(s, may, what)
      BY <1>8 DEF rawsend_preinit
    <2>2. "Fpid" \notin what /\ "rawsend_sock4" \in what
      OBVIOUS
    <2>3. ~may => Lacks(s)
      BY DEF Lacks
    <2> HIDE DEF may, what
    <2>4. Advance(s) \/ Abort(s)
      BY <2>1, <2>2, <2>3, OpensShape
    <2> QED BY <2>4
  <1>9. CASE socket_divert
    <2> DEFINE s == "socket_divert"
               may == RawMay
               what == {"fd"}
    <2>1. Opens(s, may, what)
      BY <1>9 DEF socket_divert
    <2>2. "Fpid" \notin what /\ "fd" \in what
      OBVIOUS
    <2>3. ~may => Lacks(s)
      BY DEF Lacks
    <2> HIDE DEF may, what
    <2>4. Advance(s) \/ Abort(s)
      BY <2>1, <2>2, <2>3, OpensShape
    <2> QED BY <2>4
  <1>10. CASE buffers
    <2> DEFINE s == "buffers"
               may == TRUE
               what == {"buf", "mod"} \cup (IF Is("linux") THEN {"sock"} ELSE {})
    <2>1. Opens(s, may, what)
      BY <1>10 DEF buffers
    <2>2. "Fpid" \notin what
      OBVIOUS
    <2>3. ~may => Lacks(s)
      BY DEF Lacks
    <2> HIDE DEF may, what
    <2>4. Advance(s) \/ Abort(s)
      BY <2>1, <2>2, <2>3, OpensShape
    <2> QED BY <2>4
  <1>11. CASE nfq_init
    <2> DEFINE s == "nfq_init"
               may == "NET_ADMIN" \in proc.effective
               what == {"h", "qh"}
    <2>1. Opens(s, may, what)
      BY <1>11 DEF nfq_init
    <2>2. "Fpid" \notin what /\ "qh" \in what
      OBVIOUS
    <2>3. ~may => Lacks(s)
      BY DEF Lacks
    <2> HIDE DEF may, what
    <2>4. Advance(s) \/ Abort(s)
      BY <2>1, <2>2, <2>3, OpensShape
    <2> QED BY <2>4
  <1>12. CASE windivert_init
    <2> DEFINE s == "windivert_init"
               may == proc.low => "label" \in opened
               what == {"w_filter"}
    <2>1. Opens(s, may, what)
      BY <1>12 DEF windivert_init
    <2>2. "Fpid" \notin what /\ "w_filter" \in what
      OBVIOUS
    <2>3. ~may => Lacks(s)
      BY DEF Lacks
    <2> HIDE DEF may, what
    <2>4. Advance(s) \/ Abort(s)
      BY <2>1, <2>2, <2>3, OpensShape
    <2> QED BY <2>4
  <1>13. CASE win_dark_init
    <2> DEFINE s == "win_dark_init"
               may == TRUE
               what == IF launch.logical THEN {"nlm"} ELSE {}
    <2>1. Opens(s, may, what)
      BY <1>13 DEF win_dark_init
    <2>2. "Fpid" \notin what
      OBVIOUS
    <2>3. ~may => Lacks(s)
      BY DEF Lacks
    <2> HIDE DEF may, what
    <2>4. Advance(s) \/ Abort(s)
      BY <2>1, <2>2, <2>3, OpensShape
    <2> QED BY <2>4
  <1>14. CASE lua_basic_init
    <2> DEFINE s == "lua_basic_init"
               may == TRUE
               what == {"L"}
    <2>1. Opens(s, may, what)
      BY <1>14 DEF lua_basic_init
    <2>2. "Fpid" \notin what /\ "L" \in what
      OBVIOUS
    <2>3. ~may => Lacks(s)
      BY DEF Lacks
    <2> HIDE DEF may, what
    <2>4. Advance(s) \/ Abort(s)
      BY <2>1, <2>2, <2>3, OpensShape
    <2> QED BY <2>4
  <1>15. CASE lua_init_script
    <2> DEFINE s == "lua_init_script"
    <2>1. /\ Now(s) /\ launch' = launch /\ proc' = proc /\ pidfile' = pidfile /\ denied' = denied
          /\ \/ Err /\ opened' = opened \ {"L"} /\ (ran' = ran \/ ran' = ran \cup {proc})
             \/ Done /\ opened' = opened /\ ran' = ran \cup {proc}
      BY <1>15 DEF lua_init_script, LuaErr
    <2>2. CASE Err /\ opened' = opened \ {"L"} /\ (ran' = ran \/ ran' = ran \cup {proc})
      <3>1. Abort(s)
        BY <2>1, <2>2, GivesUp
      <3> QED BY <3>1
    <2>3. CASE Done /\ opened' = opened /\ ran' = ran \cup {proc}
      <3>1. Advance(s)
        BY <2>1, <2>3, Harmless
      <3> QED BY <3>1
    <2> QED BY <2>1, <2>2, <2>3
  <1>16. CASE lua_functions
    <2> DEFINE s == "lua_functions"
    <2>1. /\ Now(s) /\ launch' = launch /\ proc' = proc /\ pidfile' = pidfile /\ denied' = denied /\ ran' = ran
          /\ (Err /\ opened' = opened \ {"L"}) \/ (Done /\ opened' = opened)
      BY <1>16 DEF lua_functions, LuaErr
    <2>2. Advance(s) \/ Abort(s)
      BY <2>1, Harmless, GivesUp
    <2> QED BY <2>2
  <1>17. CASE fopen_pidfile
    <2> DEFINE s == "fopen_pidfile"
    <2>1. /\ Now(s) /\ launch' = launch /\ proc' = proc /\ denied' = denied /\ ran' = ran
          /\ \/ Done /\ opened' = opened \cup {"Fpid"}
             \/ (\E code : Exit(code)) /\ opened' = opened /\ pidfile' = pidfile
      BY <1>17 DEF fopen_pidfile
    <2>2. Advance(s) \/ Abort(s)
      BY <2>1, Harmless, GivesUp
    <2> QED BY <2>2
  <1>18. CASE write_pidfile
    <2> DEFINE s == "write_pidfile"
    <2>1. /\ Now(s) /\ launch' = launch /\ proc' = proc /\ denied' = denied /\ ran' = ran
          /\ opened' = opened \ {"Fpid"}
          /\ (Done /\ pidfile' = proc.pid) \/ (Err /\ pidfile' = pidfile)
      BY <1>18 DEF write_pidfile
    <2>2. Advance(s) \/ Abort(s)
      BY <2>1, Harmless, GivesUp
    <2> QED BY <2>2
  <1>19. CASE writepid
    <2> DEFINE s == "writepid"
    <2>1. /\ Now(s) /\ launch' = launch /\ proc' = proc /\ denied' = denied /\ ran' = ran /\ opened' = opened
          /\ (Done /\ pidfile' = proc.pid) \/ ((\E code : Exit(code)) /\ pidfile' = pidfile)
      BY <1>19 DEF writepid
    <2>2. Advance(s) \/ Abort(s)
      BY <2>1, Harmless, GivesUp
    <2> QED BY <2>2
  <1>20. CASE daemonize
    <2> DEFINE s == "daemonize"
    <2>1. /\ Now(s) /\ launch' = launch /\ pidfile' = pidfile /\ denied' = denied /\ ran' = ran /\ opened' = opened
          /\ (Done /\ proc' = [proc EXCEPT !.pid = "daemon"]) \/ ((\E code : Exit(code)) /\ proc' = proc)
      BY <1>20 DEF daemonize, forked
    <2>2. CASE (\E code : Exit(code)) /\ proc' = proc
      <3>1. Abort(s)
        BY <2>1, <2>2, GivesUp
      <3> QED BY <3>1
    <2>3. CASE Done /\ proc' = [proc EXCEPT !.pid = "daemon"]
      <3>1. /\ proc' \in ProcRecord /\ proc'.root = proc.root /\ proc'.pid = "daemon" /\ proc'.low = proc.low
            /\ proc'.catches = proc.catches /\ proc'.locked = proc.locked
            /\ proc'.permitted = proc.permitted /\ proc'.effective = proc.effective
        BY <1>t, <2>3 DEF ProcRecord
      <3>2. Advance(s)
        BY <2>1, <2>3, <3>1 DEF Advance, Now, Done
      <3> QED BY <3>2
    <2> QED BY <2>1, <2>2, <2>3
  <1>21. CASE catch_signals
    <2> DEFINE s == "catch_signals"
    <2>1. /\ Now(s) /\ Done /\ launch' = launch /\ pidfile' = pidfile /\ opened' = opened /\ ran' = ran
          /\ denied' = denied /\ proc' = [proc EXCEPT !.catches = TRUE]
      BY <1>21 DEF catch_signals
    <2>2. /\ proc' \in ProcRecord /\ proc'.root = proc.root /\ proc'.pid = proc.pid /\ proc'.low = proc.low
          /\ proc'.catches = TRUE /\ proc'.locked = proc.locked
          /\ proc'.permitted = proc.permitted /\ proc'.effective = proc.effective
      BY <1>t, <2>1 DEF ProcRecord
    <2>3. Advance(s)
      BY <2>1, <2>2 DEF Advance, Now, Done
    <2> QED BY <2>3
  <1>22. CASE Ex
    <2>1. Abort("none")
      BY <1>22 DEF Ex, Exit, ex_release, Abort
    <2> QED BY <2>1
  <1> QED BY <1>1, <1>2, <1>3, <1>4, <1>5, <1>6, <1>7, <1>8, <1>9, <1>10, <1>11, <1>12, <1>13, <1>14,
             <1>15, <1>16, <1>17, <1>18, <1>19, <1>20, <1>21, <1>22 DEF Start

-----------------------------------------------------------------------------
(* A step that is done keeps the invariant.                                *)

LEMMA Carried ==
    ASSUME StartType, NEW s, Advance(s)
    PROVE  /\ \A b : Todo(b)' => Todo(b)
           /\ \A a, b : Prec(plan, a, b) => s # b /\ (s = a \/ Prec(plan', a, b))
           /\ \A a, b : Apart(plan, b, a) => Apart(plan', b, a) /\ (s = b => ~Todo(a)')
           /\ Todo(s) /\ plan' \in Seq(Steps)
  <1>1. plan \in Seq(Steps) /\ plan # <<>> /\ Head(plan) = s /\ plan' = Tail(plan)
    BY DEF StartType, Advance
  <1>2. Tail(plan) \in Seq(Steps) /\ s \in Elems(plan)
    BY <1>1 DEF Elems
  <1>3. Elems(Tail(plan)) \subseteq Elems(plan)
    BY <1>1, ElemsTail
  <1>4. ASSUME NEW a, NEW b, Prec(plan, a, b) PROVE s # b /\ (s = a \/ Prec(plan', a, b))
    BY <1>1, <1>4, PrecTail
  <1>5. ASSUME NEW a, NEW b, Apart(plan, b, a)
        PROVE  Apart(plan', b, a) /\ (s = b => a \notin Elems(plan'))
    BY <1>1, <1>5, ApartTail
  <1> QED BY <1>1, <1>2, <1>3, <1>4, <1>5 DEF Todo

LEMMA AdvanceOrder ==
    ASSUME StartInv, NEW s, Advance(s)
    PROVE  StartType' /\ Order' /\ Platform'
  <1>1. StartType /\ Order /\ Platform
    BY DEF StartInv
  <1>2. launch' = launch /\ proc' \in ProcRecord
    BY DEF Advance
  <1>3. /\ \A b : Todo(b)' => Todo(b)
        /\ \A a, b : Apart(plan, b, a) => Apart(plan', b, a)
        /\ plan' \in Seq(Steps)
    BY <1>1, Carried
  <1>4. StartType'
    BY <1>1, <1>2, <1>3 DEF StartType
  <1>5. Order'
    BY <1>1, <1>2, <1>3 DEF Order, Is
  <1>6. Platform'
    BY <1>1, <1>2, <1>3 DEF Platform, Is
  <1> QED BY <1>4, <1>5, <1>6

LEMMA AdvanceSandbox ==
    ASSUME StartInv, NEW s, Advance(s)
    PROVE  Sandbox'
  <1>1. StartType /\ Sandbox /\ proc.effective \subseteq proc.permitted
    BY DEF StartInv, Privileges
  <1>2. /\ \A b : Todo(b)' => Todo(b)
        /\ \A a, b : Prec(plan, a, b) => s # b /\ (s = a \/ Prec(plan', a, b))
        /\ Todo(s)
    BY <1>1, Carried
  <1>3. /\ launch' = launch
        /\ (Is("linux") <=> Is("linux")') /\ (Is("win") <=> Is("win")')
        /\ (can_drop_root <=> can_drop_root')
    BY DEF Advance, Is, can_drop_root
  <1>4. ~Is("win") /\ can_drop_root => Until("droproot", "lua_init_script", ~proc.root)'
    <2>1. (s = "droproot" => ~proc'.root) /\ (~proc.root => ~proc'.root)
      BY DEF Advance
    <2>2. ~Is("win") /\ can_drop_root => Until("droproot", "lua_init_script", ~proc.root)
      BY <1>1 DEF Sandbox
    <2> QED BY <1>2, <2>1, <2>2 DEF Until
  <1>5. Is("linux") => Until("dropcaps", "lua_init_script", proc.permitted \subseteq NetCaps)'
    <2>1. /\ s = "dropcaps" => proc'.permitted \subseteq NetCaps
          /\ proc.permitted \subseteq NetCaps => proc'.permitted \subseteq NetCaps
      BY DEF Advance
    <2>2. Is("linux") => Until("dropcaps", "lua_init_script", proc.permitted \subseteq NetCaps)
      BY <1>1 DEF Sandbox
    <2> QED BY <1>2, <2>1, <2>2 DEF Until
  <1>6. Is("win") => Until("win_sandbox", "lua_init_script", proc.low)'
    <2>1. (s = "win_sandbox" => proc'.low) /\ (proc.low => proc'.low)
      BY DEF Advance
    <2>2. Is("win") => Until("win_sandbox", "lua_init_script", proc.low)
      BY <1>1 DEF Sandbox
    <2> QED BY <1>2, <2>1, <2>2 DEF Until
  <1>7. LuaIsSandboxed'
    <2>1. CASE s # "lua_init_script"
      <3>1. ran' = ran
        BY <2>1 DEF Advance
      <3> QED BY <1>1, <1>3, <3>1 DEF Sandbox, LuaIsSandboxed
    <2>2. CASE s = "lua_init_script"
      <3>1. ran' = ran \cup {proc}
        BY <2>2 DEF Advance
      <3>2. /\ ~Is("win") /\ can_drop_root => ~proc.root
            /\ Is("linux") => proc.permitted \subseteq NetCaps
            /\ Is("win") => proc.low
        BY <1>1, <1>2, <2>2 DEF Sandbox, Until
      <3>3. Is("linux") => proc.effective \subseteq NetCaps
        BY <1>1, <3>2
      <3> QED BY <1>1, <1>3, <3>1, <3>2, <3>3 DEF Sandbox, LuaIsSandboxed
    <2> QED BY <2>1, <2>2
  <1> QED BY <1>3, <1>4, <1>5, <1>6, <1>7 DEF Sandbox

LEMMA AdvancePrivileges ==
    ASSUME StartInv, NEW s, Advance(s), pc' = pc, net' = net
    PROVE  Privileges'
  <1>1. StartType /\ Order /\ Privileges
    BY DEF StartInv
  <1>2. /\ \A b : Todo(b)' => Todo(b)
        /\ \A a, b : Prec(plan, a, b) => s # b /\ (s = a \/ Prec(plan', a, b))
        /\ \A a, b : Apart(plan, b, a) => (s = b => ~Todo(a)')
        /\ Todo(s)
    BY <1>1, Carried
  <1>3. /\ launch' = launch
        /\ (Is("linux") <=> Is("linux")') /\ (Is("win") <=> Is("win")') /\ (Is("bsd") <=> Is("bsd")')
    BY DEF Advance, Is
  <1>4. proc'.effective \subseteq proc'.permitted
    BY DEF Advance
  <1>5. Is("linux") /\ NetCaps \subseteq launch.caps => NetCaps \subseteq proc'.permitted
    BY <1>1 DEF Privileges, Advance
  <1>6. ASSUME Is("linux"), NEW b \in {"rawsend_preinit", "nfq_init"}
        PROVE  Until("dropcaps", b, NetCaps \subseteq proc.effective /\ ~Todo("droproot"))'
    <2>1. Until("dropcaps", b, NetCaps \subseteq proc.effective /\ ~Todo("droproot"))
      BY <1>1, <1>6 DEF Privileges
    <2>2. s = "dropcaps" => NetCaps \subseteq proc'.effective /\ ~Todo("droproot")'
      BY <1>1, <1>2 DEF Order, Advance
    <2>3. NetCaps \subseteq proc.effective /\ s # "droproot" => NetCaps \subseteq proc'.effective
      BY DEF Advance
    <2>4. NetCaps \subseteq proc.effective /\ ~Todo("droproot") => NetCaps \subseteq proc'.effective /\ ~Todo("droproot")'
      BY <1>2, <2>3
    <2> QED BY <1>2, <2>1, <2>2, <2>4 DEF Until
  <1>7. Is("bsd") /\ (Todo("rawsend_preinit")' \/ Todo("socket_divert")') => proc'.root = launch.root
    <2> SUFFICES ASSUME Is("bsd"), Todo("rawsend_preinit")' \/ Todo("socket_divert")'
                 PROVE  proc'.root = launch.root
      OBVIOUS
    <2>1. s # "droproot"
      BY <1>1, <1>2 DEF Order
    <2>2. proc.root = launch.root
      BY <1>1, <1>2 DEF Privileges
    <2> QED BY <2>1, <2>2 DEF Advance
  <1>8. Is("win") /\ Todo("windivert_init")' /\ proc'.low => "label" \in opened'
    <2> SUFFICES ASSUME Is("win"), Todo("windivert_init")', proc'.low
                 PROVE  "label" \in opened'
      OBVIOUS
    <2>1. s # "win_sandbox"
      BY <1>1, <1>2 DEF Order
    <2>2. proc.low
      BY <2>1 DEF Advance
    <2>3. "label" \in opened
      BY <1>1, <1>2, <2>2 DEF Privileges
    <2> QED BY <2>3 DEF Advance
  <1>9. Todo("ensure_access")' => ~proc'.locked
    <2> SUFFICES ASSUME Todo("ensure_access")' PROVE ~proc'.locked
      OBVIOUS
    <2>1. s # "sec_harden"
      BY <1>1, <1>2 DEF Order
    <2>2. ~proc.locked
      BY <1>1, <1>2 DEF Privileges
    <2> QED BY <2>1, <2>2 DEF Advance
  <1>10. proc'.low /\ launch.logical => "label" \in opened'
    BY <1>1 DEF Privileges, Advance
  <1>11. (net' \/ launch.logical) /\ (pc' = "nodev" => launch.logical)
    BY <1>1 DEF Privileges
  <1>12. NeverDenied'
    <2>1. s = "ensure_access" => ~proc.locked
      BY <1>1, <1>2 DEF Privileges
    <2>2. denied' => denied
      BY <2>1 DEF Advance
    <2> QED BY <1>1, <1>3, <2>2 DEF Privileges, NeverDenied, Is
  <1>13. Is("linux")' => \A b \in {"rawsend_preinit", "nfq_init"} :
           Until("dropcaps", b, NetCaps \subseteq proc.effective /\ ~Todo("droproot"))'
    BY <1>3, <1>6
  <1> QED BY <1>3, <1>4, <1>5, <1>7, <1>8, <1>9, <1>10, <1>11, <1>12, <1>13 DEF Privileges

LEMMA AdvanceReady ==
    ASSUME StartInv, NEW s, Advance(s)
    PROVE  Ready'
  <1>1. StartType /\ Ready
    BY DEF StartInv
  <1>2. /\ \A b : Todo(b)' => Todo(b)
        /\ \A a, b : Prec(plan, a, b) => s # b /\ (s = a \/ Prec(plan', a, b))
        /\ Todo(s)
    BY <1>1, Carried
  <1>3. /\ launch' = launch
        /\ (Is("linux") <=> Is("linux")') /\ (Is("win") <=> Is("win")') /\ (Is("bsd") <=> Is("bsd")')
    BY DEF Advance, Is
  <1>4. /\ Until("catch_signals", "serve", proc.catches)
        /\ Until("lua_basic_init", "serve", "L" \in opened)
        /\ Is("linux") => Until("nfq_init", "serve", "qh" \in opened)
        /\ ~Is("win") => Until("rawsend_preinit", "serve", "rawsend_sock4" \in opened)
        /\ Is("bsd") => Until("socket_divert", "serve", "fd" \in opened)
        /\ Is("win") => Until("windivert_init", "serve", "w_filter" \in opened)
        /\ launch.daemon => Until("daemonize", "serve", proc.pid = "daemon")
        /\ ~launch.daemon => ~Todo("daemonize") /\ proc.pid = "first"
    BY <1>1 DEF Ready
  <1>5. Until("catch_signals", "serve", proc.catches)'
    <2>1. proc.catches \/ s = "catch_signals" => proc'.catches
      BY DEF Advance
    <2> QED BY <1>2, <1>4, <2>1 DEF Until
  <1>6. Until("lua_basic_init", "serve", "L" \in opened)'
    <2>1. "L" \in opened \/ s = "lua_basic_init" => "L" \in opened'
      BY DEF Advance
    <2> QED BY <1>2, <1>4, <2>1 DEF Until
  <1>7. Is("linux") => Until("nfq_init", "serve", "qh" \in opened)'
    <2>1. "qh" \in opened \/ s = "nfq_init" => "qh" \in opened'
      BY DEF Advance
    <2> QED BY <1>2, <1>4, <2>1 DEF Until
  <1>8. ~Is("win") => Until("rawsend_preinit", "serve", "rawsend_sock4" \in opened)'
    <2>1. "rawsend_sock4" \in opened \/ s = "rawsend_preinit" => "rawsend_sock4" \in opened'
      BY DEF Advance
    <2> QED BY <1>2, <1>4, <2>1 DEF Until
  <1>9. Is("bsd") => Until("socket_divert", "serve", "fd" \in opened)'
    <2>1. "fd" \in opened \/ s = "socket_divert" => "fd" \in opened'
      BY DEF Advance
    <2> QED BY <1>2, <1>4, <2>1 DEF Until
  <1>10. Is("win") => Until("windivert_init", "serve", "w_filter" \in opened)'
    <2>1. "w_filter" \in opened \/ s = "windivert_init" => "w_filter" \in opened'
      BY DEF Advance
    <2> QED BY <1>2, <1>4, <2>1 DEF Until
  <1>11. launch.daemon => Until("daemonize", "serve", proc.pid = "daemon")'
    <2>1. proc.pid = "daemon" \/ s = "daemonize" => proc'.pid = "daemon"
      BY DEF Advance
    <2> QED BY <1>2, <1>4, <2>1 DEF Until
  <1>12. ~launch.daemon => ~Todo("daemonize")' /\ proc'.pid = "first"
    <2>1. s # "daemonize" => proc'.pid = proc.pid
      BY DEF Advance
    <2> QED BY <1>2, <1>4, <2>1
  <1> QED BY <1>3, <1>5, <1>6, <1>7, <1>8, <1>9, <1>10, <1>11, <1>12 DEF Ready

LEMMA AdvancePidfile ==
    ASSUME StartInv, NEW s, Advance(s)
    PROVE  Pidfile'
  <1> DEFINE w == IF Is("win") THEN "writepid" ELSE "write_pidfile"
             F == /\ pidfile = proc.pid /\ "Fpid" \notin opened
                  /\ ~Todo("daemonize") /\ ~Todo("fopen_pidfile")
  <1>1. StartType /\ Pidfile /\ Order
    BY DEF StartInv
  <1>2. /\ \A b : Todo(b)' => Todo(b)
        /\ \A a, b : Prec(plan, a, b) => s # b /\ (s = a \/ Prec(plan', a, b))
        /\ \A a, b : Apart(plan, b, a) => (s = b => ~Todo(a)')
        /\ Todo(s)
    BY <1>1, Carried
  <1>3. launch' = launch /\ (Is("win") <=> Is("win")')
    BY DEF Advance, Is
  <1>4. /\ launch.pidfile => Until(w, "serve", F)
        /\ ~launch.pidfile => pidfile = "none" /\ ~Todo("write_pidfile") /\ ~Todo("writepid")
        /\ Is("win") \/ ~launch.pidfile => "Fpid" \notin opened /\ ~Todo("fopen_pidfile")
    BY <1>1 DEF Pidfile
  <1>5. Is("win") \/ ~launch.pidfile => "Fpid" \notin opened' /\ ~Todo("fopen_pidfile")'
    BY <1>2, <1>4 DEF Advance
  <1>6. ~launch.pidfile => pidfile' = "none" /\ ~Todo("write_pidfile")' /\ ~Todo("writepid")'
    BY <1>2, <1>4 DEF Advance
  <1>7. F => F'
    <2> SUFFICES ASSUME F PROVE F'
      OBVIOUS
    <2>1. s # "daemonize" /\ s # "fopen_pidfile"
      BY <1>2
    <2>2. pidfile' = proc'.pid /\ "Fpid" \notin opened'
      BY <2>1 DEF Advance
    <2> QED BY <1>2, <2>2
  <1>8. s = w => F'
    <2> SUFFICES ASSUME s = w PROVE F'
      OBVIOUS
    <2>1. s \in {"write_pidfile", "writepid"} /\ (s = "writepid" => Is("win"))
      OBVIOUS
    <2>2. ~Todo("daemonize")' /\ pidfile' = proc'.pid
      BY <1>1, <1>2, <2>1 DEF Advance, Order
    <2>3. ~Todo("fopen_pidfile")' /\ "Fpid" \notin opened'
      <3>1. CASE Is("win")
        BY <1>5, <3>1
      <3>2. CASE ~Is("win")
        <4>1. s = "write_pidfile"
          BY <2>1, <3>2
        <4> QED BY <1>1, <1>2, <4>1 DEF Advance, Order
      <3> QED BY <3>1, <3>2
    <2> QED BY <2>2, <2>3
  <1>9. w' = w
    BY <1>3
  <1> HIDE DEF w, F
  <1>10. launch.pidfile => (Todo("serve")' => F' \/ Prec(plan', w, "serve"))
    BY <1>2, <1>4, <1>7, <1>8 DEF Until
  <1>11. launch.pidfile => Until(w, "serve", F)'
    BY <1>9, <1>10 DEF Until
  <1> QED BY <1>3, <1>5, <1>6, <1>11 DEF Pidfile, w, F

LEMMA StartAdvances ==
    ASSUME StartInv, NEW s, Advance(s), pc' = pc, net' = net
    PROVE  StartInv'
  BY AdvanceOrder, AdvanceSandbox, AdvancePrivileges, AdvanceReady, AdvancePidfile DEF StartInv

-----------------------------------------------------------------------------
(* So does a step that fails, for no step of the start is left.            *)

LEMMA StartAborts ==
    ASSUME StartInv, NEW s, Abort(s), pc' = pc, net' = net
    PROVE  StartInv'
  <1>1. StartType /\ Order /\ Platform /\ Sandbox /\ Privileges /\ Ready /\ Pidfile
    BY DEF StartInv
  <1>2. /\ launch' = launch /\ proc' = proc /\ pidfile' = pidfile
        /\ "label" \in opened => "label" \in opened'
        /\ "Fpid" \in opened' => "Fpid" \in opened
        /\ (Is("linux") <=> Is("linux")') /\ (Is("win") <=> Is("win")') /\ (Is("bsd") <=> Is("bsd")')
        /\ (can_drop_root <=> can_drop_root')
    BY DEF Abort, Is, can_drop_root
  <1>3. plan' \in Seq(Steps) /\ Elems(plan') \subseteq {"ok", "err", "ex"}
    <2>1. CASE plan' = <<>>
      BY <2>1 DEF Elems
    <2>2. CASE plan' = <<"ok">>
      BY <2>2 DEF Elems, Steps
    <2>3. CASE plan' = <<"err", "ex">>
      BY <2>3 DEF Elems, Steps
    <2> QED BY <2>1, <2>2, <2>3 DEF Abort
  <1>4. \A b : Todo(b)' => b \in {"ok", "err", "ex"}
    BY <1>3 DEF Todo
  <1>5. \A a, b : a \notin {"ok", "err", "ex"} => Apart(plan', b, a)
    BY <1>3, ApartAbsent
  <1>6. s = "none" \/ (Todo(s) /\ \A a : ~Prec(plan, a, s))
    <2>1. CASE plan # <<>> /\ Head(plan) = s
      <3>1. plan \in Seq(Steps)
        BY <1>1 DEF StartType
      <3>2. s \in Elems(plan)
        BY <2>1, <3>1 DEF Elems
      <3>3. ASSUME NEW a, Prec(plan, a, s) PROVE FALSE
        BY <2>1, <3>1, <3>3, PrecTail
      <3> QED BY <3>2, <3>3 DEF Todo
    <2> QED BY <2>1 DEF Abort
  <1>7. StartType' /\ Platform'
    BY <1>1, <1>2, <1>3, <1>4 DEF StartType, Platform
  <1>8. Order'
    BY <1>5 DEF Order
  <1>9. LuaIsSandboxed'
    <2>1. CASE ran' = ran
      BY <1>1, <1>2, <2>1 DEF Sandbox, LuaIsSandboxed
    <2>2. CASE s = "lua_init_script" /\ ran' = ran \cup {proc}
      <3>1. /\ ~Is("win") /\ can_drop_root => ~proc.root
            /\ Is("linux") => proc.permitted \subseteq NetCaps
            /\ Is("win") => proc.low
        BY <1>1, <1>6, <2>2 DEF Sandbox, Until
      <3>2. Is("linux") => proc.effective \subseteq NetCaps
        BY <1>1, <3>1 DEF Privileges
      <3> QED BY <1>1, <1>2, <2>2, <3>1, <3>2 DEF Sandbox, LuaIsSandboxed
    <2> QED BY <2>1, <2>2 DEF Abort
  <1>10. Sandbox'
    BY <1>4, <1>9 DEF Sandbox, Until
  <1>11. NeverDenied'
    <2>1. CASE denied
      BY <1>1, <1>2, <2>1 DEF Privileges, NeverDenied, Is
    <2>2. CASE Lacks(s)
      <3>1. CASE s = "ensure_access" /\ proc.locked
        BY <1>1, <1>6, <3>1 DEF Privileges
      <3>2. CASE s = "dropcaps" /\ ~(NetCaps \subseteq proc.permitted)
        <4>1. launch.os = "linux"
          BY <1>1, <1>6, <3>2, LaunchIs DEF Platform, StartType, Is
        <4> QED BY <1>1, <1>2, <3>2, <4>1 DEF Privileges, NeverDenied, Is
      <3>3. CASE s \in {"rawsend_preinit", "socket_divert"} /\ ~RawMay
        <4>1. (launch.os = "linux" /\ s = "rawsend_preinit") \/ launch.os = "bsd"
          BY <1>1, <1>6, <3>3, LaunchIs DEF Platform, StartType, Is
        <4>2. CASE launch.os = "linux" /\ s = "rawsend_preinit"
          <5>1. NetCaps \subseteq proc.effective
            BY <1>1, <1>6, <4>2 DEF Privileges, Until, Is
          <5> QED BY <3>3, <4>2, <5>1 DEF RawMay, NetCaps, Is
        <4>3. CASE launch.os = "bsd"
          <5>1. proc.root = launch.root
            BY <1>1, <1>6, <3>3, <4>3 DEF Privileges, Is
          <5>2. ~proc.root
            BY <3>3, <4>3 DEF RawMay, Is
          <5> QED BY <1>2, <4>3, <5>1, <5>2 DEF NeverDenied, Is
        <4> QED BY <4>1, <4>2, <4>3
      <3>4. CASE s = "nfq_init" /\ "NET_ADMIN" \notin proc.effective
        <4>1. Is("linux")
          BY <1>1, <1>6, <3>4, LaunchIs DEF Platform, StartType, Is
        <4>2. NetCaps \subseteq proc.effective
          BY <1>1, <1>6, <3>4, <4>1 DEF Privileges, Until
        <4> QED BY <3>4, <4>2 DEF NetCaps
      <3>5. CASE s = "windivert_init" /\ proc.low /\ "label" \notin opened
        <4>1. Is("win")
          BY <1>1, <1>6, <3>5, LaunchIs DEF Platform, StartType, Is
        <4> QED BY <1>1, <1>6, <3>5, <4>1 DEF Privileges
      <3> QED BY <2>2, <3>1, <3>2, <3>3, <3>4, <3>5 DEF Lacks
    <2>3. CASE ~denied'
      BY <2>3 DEF NeverDenied
    <2> QED BY <2>1, <2>2, <2>3 DEF Abort
  <1>12. Privileges'
    <2>1. Is("linux")' => \A b \in {"rawsend_preinit", "nfq_init"} :
            Until("dropcaps", b, NetCaps \subseteq proc.effective /\ ~Todo("droproot"))'
      BY <1>4 DEF Until
    <2> QED BY <1>1, <1>2, <1>4, <1>11, <2>1 DEF Privileges
  <1>13. Ready'
    BY <1>1, <1>2, <1>4 DEF Ready, Until
  <1>14. Pidfile'
    BY <1>1, <1>2, <1>4 DEF Pidfile, Until
  <1> QED BY <1>7, <1>8, <1>10, <1>12, <1>13, <1>14 DEF StartInv

-----------------------------------------------------------------------------
(* A new round of win_main, and the steps that are not of the start.       *)

LEMMA StartAgain ==
    ASSUME StartInv, NetworkGone
    PROVE  StartInv'
  <1> DEFINE has_lua == "L" \in opened
             p == win_round(has_lua)
  <1>1. StartType /\ Order /\ Platform /\ Sandbox /\ Privileges /\ Ready /\ Pidfile
    BY DEF StartInv
  <1>2. /\ Is("win") /\ plan = <<"serve">> /\ pc = "nodev" /\ pc' = "top"
        /\ opened' = opened \ {"w_filter"} /\ plan' = p
        /\ launch' = launch /\ proc' = proc /\ pidfile' = pidfile /\ ran' = ran /\ denied' = denied /\ net' = net
    BY DEF NetworkGone, Serving, Goto
  <1>3. /\ Is("win")' /\ ~Is("linux") /\ ~Is("linux")' /\ ~Is("bsd") /\ ~Is("bsd")'
        /\ (can_drop_root <=> can_drop_root')
    BY <1>2 DEF Is, can_drop_root
  <1>4. /\ p \in Seq(Steps)
        /\ Elems(p) \subseteq {"logical_net", "windivert_init", "win_sandbox", "serve", "ok"} \cup LuaSteps
        /\ Apart(p, "win_sandbox", "windivert_init")
        /\ Prec(p, "win_sandbox", "lua_init_script")
        /\ Prec(p, "windivert_init", "serve")
        /\ ~has_lua => Prec(p, "lua_basic_init", "serve")
    <2>1. launch \in Launches
      BY <1>1 DEF StartType
    <2> HIDE DEF has_lua
    <2> QED BY <2>1, WinRoundIs
  <1> HIDE DEF p
  <1>5. Todo("serve") /\ \A a : ~Prec(plan, a, "serve")
    <2>1. "serve" \in Elems(plan) /\ plan \in Seq(Steps) /\ plan # <<>> /\ Head(plan) = "serve"
      BY <1>1, <1>2 DEF Elems, StartType
    <2>2. ASSUME NEW a, Prec(plan, a, "serve") PROVE FALSE
      BY <2>1, <2>2, PrecTail
    <2> QED BY <2>1, <2>2 DEF Todo
  <1>6. \A b : Todo(b)' => b \in {"logical_net", "windivert_init", "win_sandbox", "serve", "ok",
                                  "lua_basic_init", "lua_init_script", "lua_functions"}
    BY <1>2, <1>4 DEF Todo, LuaSteps
  <1>7. \A a, b : a \notin Elems(p) => Apart(plan', b, a)
    BY <1>2, ApartAbsent
  <1>8. StartType' /\ Platform'
    BY <1>1, <1>2, <1>3, <1>4, <1>6 DEF StartType, Platform
  <1>9. Order'
    BY <1>2, <1>3, <1>4, <1>6, <1>7 DEF Order, Todo
  <1>10. Sandbox'
    <2>1. LuaIsSandboxed'
      BY <1>1, <1>2, <1>3 DEF Sandbox, LuaIsSandboxed
    <2> QED BY <1>2, <1>3, <1>4, <2>1 DEF Sandbox, Until
  <1>11. Privileges'
    <2>1. NeverDenied'
      BY <1>1, <1>2 DEF Privileges, NeverDenied, Is
    <2>2. proc.low => "label" \in opened'
      BY <1>1, <1>2 DEF Privileges
    <2> QED BY <1>1, <1>2, <1>3, <1>6, <2>1, <2>2 DEF Privileges
  <1>12. Ready'
    <2>1. /\ proc.catches /\ (launch.daemon => proc.pid = "daemon") /\ (~launch.daemon => proc.pid = "first")
      BY <1>1, <1>5 DEF Ready, Until
    <2>2. "L" \in opened' \/ Prec(plan', "lua_basic_init", "serve")
      BY <1>2, <1>4
    <2> QED BY <1>2, <1>3, <1>4, <1>6, <2>1, <2>2 DEF Ready, Until
  <1>13. Pidfile'
    <2>1. launch.pidfile => pidfile = proc.pid /\ "Fpid" \notin opened
      BY <1>1, <1>5 DEF Pidfile, Until
    <2> QED BY <1>1, <1>2, <1>3, <1>6, <2>1 DEF Pidfile, Until
  <1> QED BY <1>8, <1>9, <1>10, <1>11, <1>12, <1>13 DEF StartInv

LEMMA StartStays ==
    ASSUME StartInv, UNCHANGED startVars, net' \/ launch.logical, pc' = "nodev" => launch.logical
    PROVE  StartInv'
  <1>1. /\ launch' = launch /\ plan' = plan /\ proc' = proc /\ opened' = opened /\ pidfile' = pidfile
        /\ ran' = ran /\ denied' = denied
    BY DEF startVars
  <1>2. StartType' /\ Order' /\ Platform'
    BY <1>1 DEF StartInv, StartType, Order, Platform, Is, Todo
  <1>3. Sandbox' /\ Ready' /\ Pidfile'
    BY <1>1 DEF StartInv, Sandbox, Ready, Pidfile, Until, Todo, LuaIsSandboxed, can_drop_root, Is
  <1>4. Privileges'
    BY <1>1 DEF StartInv, Privileges, Until, Todo, NeverDenied, Is
  <1> QED BY <1>2, <1>3, <1>4 DEF StartInv

\* The loop leaves for want of a network only where it is told of networks.
LEMMA LoopMoves ==
    ASSUME StartInv, ListType, MainStep \/ Fails \/ CaughtSignal \/ World
    PROVE  pc' = "nodev" => launch.logical
  <1>1. (net \/ launch.logical) /\ (pc = "nodev" => launch.logical)
    BY DEF StartInv, Privileges
  <1>2. CASE Fails
    BY <1>2 DEF Fails, RecvFails, RecvFromFails, Goto
  <1>3. CASE CaughtSignal
    <2>1. pc' = pc \/ pc' = Interrupts
      BY <1>3 DEF CaughtSignal, onhup, onterm, Signal, Goto
    <2> QED BY <1>1, <2>1 DEF Interrupts
  <1>4. CASE World
    BY <1>1, <1>4 DEF World, Arrive, Edit, main
  <1>5. CASE MainStep
    <2>1. CASE RecvExit
      <3>1. pc' = windivert_recv_exit
        BY <2>1 DEF RecvExit, Goto
      <3> QED BY <1>1, <3>1 DEF windivert_recv_exit
    <2>2. ASSUME Inner PROVE pc' # "nodev" \/ pc' = pc
      <3>1. CASE ReloadCheck
        BY <3>1 DEF ReloadCheck, Goto
      <3>2. CASE RoundDone
        <4>1. round \in {"hostlists", "ipsets", "profile"}
          BY <3>2 DEF RoundDone, ListType
        <4> QED BY <3>2, <4>1 DEF RoundDone, Goto, ProfileDone
      <3> QED BY <2>2, <3>1, <3>2 DEF Inner, Unchanged, Destroy, Read, Reloaded, Handle, Verdict, Goto
    <2>3. CASE Top \/ Block \/ RecvPacket \/ RecvNoBufs \/ Check \/ Sleep \/ Select \/ RecvFrom \/ Again
               \/ windivert_recv
      BY <2>3 DEF Top, Block, RecvPacket, RecvNoBufs, Check, Sleep, Select, RecvFrom, Again,
                  windivert_recv, Goto
    <2> QED BY <1>1, <1>5, <2>1, <2>2, <2>3 DEF MainStep, Main, Dvt, Win, Inner
  <1> QED BY <1>2, <1>3, <1>4, <1>5

LEMMA StartInvStep == StartInv /\ ListInv /\ [ProgNext]_progVars => StartInv'
  <1> SUFFICES ASSUME StartInv, ListInv, [ProgNext]_progVars PROVE StartInv'
    OBVIOUS
  <1>1. /\ StartType /\ proc.effective \subseteq proc.permitted
        /\ net \/ launch.logical
        /\ pc = "nodev" => launch.logical
    BY DEF StartInv, Privileges
  <1>2. CASE StartStep
    <2>1. pc' = pc /\ net' = net /\ Start
      BY <1>2 DEF StartStep, vars, main
    <2>2. PICK s : Advance(s) \/ Abort(s)
      BY <1>1, <2>1, StartShape
    <2> QED BY <2>1, <2>2, StartAdvances, StartAborts
  <1>3. CASE logical_net
    <2>1. /\ pc' = pc /\ net' = net /\ Now("logical_net")
          /\ Done \/ (plan' = <<"ok">> /\ result' = result)
          /\ launch' = launch /\ proc' = proc /\ opened' = opened /\ pidfile' = pidfile
          /\ ran' = ran /\ denied' = denied
      BY <1>3 DEF logical_net, vars, main
    <2>2. CASE Done
      <3>1. Advance("logical_net")
        BY <1>1, <2>1, <2>2, Harmless
      <3> QED BY <2>1, <3>1, StartAdvances
    <2>3. CASE plan' = <<"ok">>
      <3>1. Abort("none")
        BY <2>1, <2>3 DEF Abort
      <3> QED BY <2>1, <3>1, StartAborts
    <2> QED BY <2>1, <2>2, <2>3
  <1>4. CASE Leave \/ KillingSignal
    <2>1. /\ pc' = pc /\ net' = net /\ plan' \in {<<>>, <<"ok">>, <<"err", "ex">>}
          /\ launch' = launch /\ proc' = proc /\ opened' = opened /\ pidfile' = pidfile
          /\ ran' = ran /\ denied' = denied
      BY <1>4 DEF Leave, KillingSignal, vars, main, Err, Exit, Exits
    <2>2. Abort("none")
      BY <2>1 DEF Abort
    <2> QED BY <2>1, <2>2, StartAborts
  <1>5. CASE NetworkGone
    BY <1>5, StartAgain
  <1>6. CASE MainStep \/ Fails \/ CaughtSignal \/ World
    <2>1. UNCHANGED startVars /\ net' = net
      BY <1>6 DEF MainStep, Fails, CaughtSignal, World
    <2>2. pc' = "nodev" => launch.logical
      BY <1>6, LoopMoves DEF ListInv
    <2> QED BY <1>1, <2>1, <2>2, StartStays
  <1>7. CASE NetChanges
    <2>1. launch.logical /\ UNCHANGED startVars
      BY <1>7 DEF NetChanges
    <2> QED BY <2>1, StartStays
  <1>8. CASE Over \/ UNCHANGED progVars
    <2>1. UNCHANGED startVars /\ net' = net /\ pc' = pc
      BY <1>8 DEF Over, progVars, vars, main
    <2> QED BY <1>1, <2>1, StartStays
  <1> QED BY <1>2, <1>3, <1>4, <1>5, <1>6, <1>7, <1>8 DEF ProgNext, Program

LEMMA StartAlways == ProgSpec => []StartInv
  BY StartInvInit, StartInvStep, ListAlways, PTL DEF ProgSpec

\* Whatever way the program is started and whichever of its steps fail, no Lua
\* script runs with more than it is promised to have: nfq_main, dvt_main and win_main
\* reach lua_init_scripts only after droproot and dropcaps or win_sandbox have
\* succeeded, also on the second round of win_main.
THEOREM ScriptsAreSandboxed == ProgSpec => []LuaIsSandboxed
  <1>1. StartInv => LuaIsSandboxed
    BY DEF StartInv, Sandbox
  <1> QED BY <1>1, StartAlways, PTL

\* A program that may do what it needs when it starts is never refused later, by
\* droproot, dropcaps, sec_harden or win_sandbox; and a loop that handles packets has
\* its pid in the pid file, catches signals, and has open what it receives from and
\* sends to: no order of the steps of start-up, no second round, skips one.
THEOREM ReadyWhenServing == ProgSpec => []StartsAsPromised
  <1>1. StartInv => StartsAsPromised
    <2> SUFFICES ASSUME StartInv PROVE StartsAsPromised
      OBVIOUS
    <2>1. NeverDenied
      BY DEF StartInv, Privileges
    <2>2. ReadyIsTrue
      <3> SUFFICES ASSUME Serving PROVE
            /\ pidfile = IF launch.pidfile THEN proc.pid ELSE "none"
            /\ launch.daemon <=> proc.pid = "daemon"
            /\ proc.catches /\ "L" \in opened /\ "Fpid" \notin opened
            /\ CASE Is("linux") -> {"qh", "rawsend_sock4"} \subseteq opened
                 [] Is("bsd") -> {"fd", "rawsend_sock4"} \subseteq opened
                 [] Is("win") -> "w_filter" \in opened
        BY DEF ReadyIsTrue
      <3>1. plan = <<"serve">> /\ launch \in Launches /\ plan \in Seq(Steps)
        BY DEF Serving, StartInv, StartType
      <3>2. Todo("serve") /\ \A a : ~Prec(plan, a, "serve")
        <4>1. "serve" \in Elems(plan) /\ plan # <<>> /\ Head(plan) = "serve"
          BY <3>1 DEF Elems
        <4>2. ASSUME NEW a, Prec(plan, a, "serve") PROVE FALSE
          BY <3>1, <4>1, <4>2, PrecTail
        <4> QED BY <4>1, <4>2 DEF Todo
      <3>3. /\ launch.pidfile => pidfile = proc.pid /\ "Fpid" \notin opened
            /\ ~launch.pidfile => pidfile = "none" /\ "Fpid" \notin opened
        BY <3>2 DEF StartInv, Pidfile, Until
      <3>4. /\ proc.catches /\ "L" \in opened
            /\ Is("linux") => "qh" \in opened
            /\ ~Is("win") => "rawsend_sock4" \in opened
            /\ Is("bsd") => "fd" \in opened
            /\ Is("win") => "w_filter" \in opened
            /\ launch.daemon => proc.pid = "daemon"
            /\ ~launch.daemon => proc.pid = "first"
        BY <3>2 DEF StartInv, Ready, Until
      <3>5. launch.os \in {"linux", "bsd", "win"} /\ launch.pidfile \in BOOLEAN /\ launch.daemon \in BOOLEAN
        BY <3>1, LaunchIs
      <3> QED BY <3>3, <3>4, <3>5 DEF Is
    <2> QED BY <2>1, <2>2 DEF StartsAsPromised
  <1> QED BY <1>1, StartAlways, PTL
=============================================================================
