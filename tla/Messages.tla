------------------------------ MODULE Messages ------------------------------
(***************************************************************************)
(* The messages that Protocol's parsers are checked on, and what is        *)
(* expected of positions and lengths in them.                              *)
(***************************************************************************)
EXTENDS Protocol

\* what is written in a ClientHello
SniExt(name) ==
    [type |-> SNI, len |-> NameLen(name) + 5, list |-> NameLen(name) + 3, slen |-> NameLen(name), name |-> name]
OtherExt(type, n) == [type |-> type, len |-> n, list |-> 0, slen |-> 0, name |-> <<>>]
ExtLists ==
    {<<>>, <<OtherExt(10, 4)>>} \cup {<<SniExt(n)>> : n \in Names}
    \cup {<<SniExt(n), OtherExt(10, 4)>> : n \in Names}
    \cup {<<OtherExt(23, 0), SniExt(n), OtherExt(PADDING, 3)>> : n \in Names}
    \cup {<<OtherExt(PADDING, 2), SniExt(n)>> : n \in Names}
SizeOfExts(exts) == Total(ExtSizes(exts))

\* later is what of the handshake goes into a second record
Hello(sid, exts, later) ==
    LET h == [k |-> "tls", sid |-> sid, cs |-> 2, cm |-> 1, exts |-> exts, extl |-> SizeOfExts(exts),
              rec |-> 0, hs |-> 0, size |-> 0]
        end == ExtLenAt(h) + 2 + h.extl
    IN  [h EXCEPT !.hs = end - 9, !.rec = end - 5 - later, !.size = IF later = 0 THEN end ELSE end + 5]
Hellos(later) == {Hello(sid, exts, later) : sid \in SidLens, exts \in ExtLists}
ManyRecords == {h \in Hellos(3) : h.exts # <<>>}

Requests ==
    {[k |-> "http", breaks |-> b, method |-> 3, host |-> at, blanks |-> w, name |-> n,
      size |-> at + 5 + w + NameLen(n) + 4] :
       b \in 0 .. 2, at \in HttpHosts, w \in 0 .. 1, n \in Names}
Others == {[k |-> "other", size |-> 4]}

Messages == Hellos(0) \cup ManyRecords \cup Requests \cup Others
Markers == {[m |-> m, pos |-> p] : m \in AllMarkers, p \in Shifts}

-----------------------------------------------------------------------------
(* what is expected                                                        *)

\* The offset of the name in a message, counted from its layout; 0 if it has none.
HostOffset(msg) ==
    IF msg.k = "http" THEN msg.host + 5 + msg.blanks
    ELSE IF msg.k = "tls" /\ \E i \in DOMAIN msg.exts : msg.exts[i].type = SNI
    THEN LET i == CHOOSE j \in DOMAIN msg.exts : msg.exts[j].type = SNI
         IN  ExtLenAt(msg) + 2 + SizeOfExts(SubSeq(msg.exts, 1, i - 1)) + 9
    ELSE 0
HostOf(msg) ==
    IF msg.k = "http" THEN msg.name
    ELSE (CHOOSE e \in {msg.exts[i] : i \in DOMAIN msg.exts} : e.type = SNI).name

\* whether sz bytes of a message decide a marker: a request must be there up to the
\* end of its Host line, but for the beginning of the host and the method
Decided(msg, sz, mk) ==
    /\ mk.m = "abs" => mk.pos >= 0
    /\ msg.k = "http" => mk.m \in {"host", "method", "abs"} \/ sz >= HostOffset(msg) + NameLen(msg.name)

\* A marker never moves as a message arrives piece by piece.
Stable(msg) ==
    \A mk \in Markers, sz \in 1 .. msg.size :
        Decided(msg, sz, mk) => ResolvePos(msg, sz, mk) \in {POS_NOT_FOUND, ResolvePos(msg, msg.size, mk)}

\* In a whole message, the host markers lie around the name that profiles are
\* chosen by.
Around(msg) ==
    LET at(i) == ResolvePos(msg, msg.size, [m |-> HostMarkers[i], pos |-> 0])
        x == IF msg.k = "http" THEN HttpExtractHost(msg, msg.size) ELSE TLSHelloExtractHost(msg, msg.size, TRUE)
        in == IF msg.k = "tls" THEN msg.rec + 5 ELSE msg.size
        here == HostOffset(msg) # 0 /\ HostOffset(msg) + NameLen(HostOf(msg)) <= in
    IN  here /\ msg.k # "other" =>
          /\ x = [found |-> TRUE, at |-> HostOffset(msg), len |-> NameLen(HostOf(msg))]
          /\ at(1) = x.at
          /\ at(5) \in {x.at + x.len, POS_NOT_FOUND}
          /\ Len(HostOf(msg)) >= 2 =>
               /\ at(1) <= at(2) /\ at(2) < at(3) /\ at(3) <= at(4) /\ at(4) < x.at + x.len
               /\ at(4) = x.at + x.len - 1 - HostOf(msg)[Len(HostOf(msg))]

\* What a Lua function gets of several markers can be used to cut the message.
Cuttable(msg) ==
    \A mk1, mk2 \in Markers :
        LET ps == ResolveMultiPos(msg, msg.size, <<mk1, mk2>>)
            r == resolve_range(msg, msg.size, mk1, mk2, FALSE)
        IN  /\ \A i \in DOMAIN ps : ps[i] \in 0 .. msg.size - 1 /\ (i > 1 => ps[i - 1] < ps[i])
            /\ r # <<>> => 0 <= r[1] /\ r[1] <= r[2] /\ r[2] < msg.size

\* all lengths in a ClientHello agree, and it is one record
WellFormed(h) ==
    /\ h.size = h.rec + 5 /\ h.rec = h.hs + 4
    /\ h.hs + 9 = ExtLenAt(h) + 2 + h.extl
    /\ h.extl = SizeOfExts(h.exts)
    /\ \A i \in DOMAIN h.exts : h.exts[i].type = SNI =>
         /\ h.exts[i].len = h.exts[i].list + 2
         /\ h.exts[i].list = h.exts[i].slen + 3
         /\ h.exts[i].slen = NameLen(h.exts[i].name)

Mods == [set : SUBSET {"sni", "rndsni", "dupsid", "padencap"}, name : Names]

FrameSeqs == UNION {[1 .. n -> Frames] : n \in 1 .. MAX_DEFRAG_PIECES + 1}
=============================================================================
