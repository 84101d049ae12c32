------------------------------ MODULE Protocol ------------------------------
(***************************************************************************)
(* The parsers that Lua functions use on payloads: position markers in     *)
(* HTTP requests and TLS ClientHellos (resolve_pos and its relatives), the *)
(* modification of a fake ClientHello (tls_mod), and the collection of the *)
(* CRYPTO frames of a QUIC initial.                                        *)
(*                                                                         *)
(* A message is given by the lengths of its parts, in bytes, and by how    *)
(* many bytes of it, sz, are there; a name is the lengths of its labels.   *)
(* Offsets are from 0.                                                     *)
(***************************************************************************)
EXTENDS Sums, FiniteSets

CONSTANTS
    Names,              \* hostnames
    SidLens,            \* lengths of session ids
    HttpHosts,          \* offsets of the Host header in HTTP requests
    Shifts,             \* what is added to a marker, as in host+1
    Payloads,           \* payloads: [hello, sid, len], a ClientHello or not
    Frames,             \* CRYPTO frames <<offset, length>>
    MAX_DEFRAG_PIECES,  \* ranges of CRYPTO frames that are remembered
    DefragRoom          \* the buffer for CRYPTO data

POS_NOT_FOUND == -1
SNI == 0
PADDING == 21

\* a dot is between two labels
NameLen(name) == Total(name) + Len(name) - 1
Smaller(a, b) == IF a < b THEN a ELSE b

\* names and labels are as long as the DNS has them, the length of a session id is a
\* byte
ASSUME ProtocolAssumption ==
    /\ \A name \in Names : /\ name \in Seq(Nat) /\ name # <<>> /\ NameLen(name) <= 255
                          /\ \A i \in DOMAIN name : name[i] # 0
    /\ SidLens \subseteq 0 .. 255 /\ HttpHosts \subseteq Nat /\ Shifts \subseteq Int
    /\ \A p \in Payloads : p \in [hello : BOOLEAN, sid : Nat, len : Nat]
    /\ Frames \subseteq Nat \X Nat /\ MAX_DEFRAG_PIECES \in Nat \ {0} /\ DefragRoom \in Nat

\* a name cut after n bytes
LabelAt(name, i) == Sums(name)[i - 1] + i - 1
FirstBytes(name, n) ==
    [i \in 1 .. Cardinality({j \in DOMAIN name : j = 1 \/ LabelAt(name, j) <= n}) |->
       Smaller(name[i], n - LabelAt(name, i))]

-----------------------------------------------------------------------------
(* markers                                                                 *)

HostMarkers == <<"host", "sld", "midsld", "endsld", "endhost">>
AllMarkers == {"abs", "method", "extlen", "sniext"} \cup {HostMarkers[i] : i \in DOMAIN HostMarkers}

CheckPos(sz, offset) == IF offset >= 0 /\ offset < sz THEN offset ELSE POS_NOT_FOUND

AnyProtoPos(marker, pos, sz) ==
    IF marker = "abs" THEN CheckPos(sz, IF pos < 0 THEN sz + pos ELSE pos) ELSE POS_NOT_FOUND

\* mutant: the dot between the labels is not counted
SldNoDot(name) == NameLen(name) - name[Len(name)] - name[Len(name) - 1]

\* FindNLD for level 2: where the label before the last one begins
Sld(name) == NameLen(name) - name[Len(name)] - 1 - name[Len(name) - 1]

\* the host begins at offset and has len bytes; its second level domain is found
\* if all of it is there
HostPos(marker, pos, sz, offset, len, name) ==
    LET slen == name[Len(name) - 1]
        p == offset + Sld(name)
    IN  CASE marker = "host" -> CheckPos(sz, offset + pos)
          [] marker = "endhost" -> CheckPos(sz, offset + len + pos)
          [] marker \in {"sld", "midsld", "endsld"} /\ offset + len <= sz /\ Len(name) >= 2 ->
               CheckPos(sz, pos + (CASE marker = "sld" -> p [] marker = "endsld" -> p + slen
                                     [] OTHER -> IF slen = 1 THEN p + 1 ELSE p + slen \div 2))
          [] OTHER -> POS_NOT_FOUND

\* HttpPos for a request r: line breaks before the method, the method's length,
\* the offset of "Host:", blanks, the name, and all bytes.  One blank is skipped.
HttpHostAt(r) == r.host + 5 + Smaller(r.blanks, 1)
HttpPos(marker, pos, r, sz) ==
    LET line == [r.name EXCEPT ![1] = @ + r.blanks - Smaller(r.blanks, 1)]
        len == IF marker = "host" THEN 0 ELSE Smaller(sz - HttpHostAt(r), NameLen(line))
    IN  CASE marker = "method" ->
               IF sz >= 12 /\ r.method \in 3 .. 9 THEN CheckPos(sz, r.breaks + pos) ELSE POS_NOT_FOUND
          [] marker \in {HostMarkers[i] : i \in DOMAIN HostMarkers} ->
               IF r.host + 5 <= sz /\ r.host + 7 < sz
               THEN HostPos(marker, pos, sz, HttpHostAt(r), len, FirstBytes(line, len)) ELSE POS_NOT_FOUND
          [] OTHER -> AnyProtoPos(marker, pos, sz)

\* HttpExtractHost: where the name is that profiles are chosen by; all blanks are
\* skipped
HttpExtractHost(r, sz) ==
    LET at == r.host + 5 + r.blanks
    IN  [found |-> r.host + 5 <= sz /\ at < sz, at |-> at, len |-> Smaller(NameLen(r.name), sz - at)]

-----------------------------------------------------------------------------
(* TLS                                                                     *)

\* A ClientHello: the length fields of the record, of the handshake and of the
\* extensions, the lengths of session id, cipher suites and compression methods,
\* and the extensions: a type, a length, and for SNI the length of the list, of the
\* name, and the name.
IsTLSClientHello(h, sz, partial) ==
    sz >= 11 /\ (partial \/ (h.rec + 5 <= sz /\ h.hs + 4 <= sz - 5))

\* TLSFindExtLen: the offset of the length of the extensions
ExtLenAt(h) == 5 + 38 + 1 + h.sid + 2 + h.cs + 1 + h.cm
TLSFindExtLen(h, sz) == IF sz >= ExtLenAt(h) + 2 THEN ExtLenAt(h) ELSE POS_NOT_FOUND

\* the loop of TLSFindExtInHandshake, as far as extensions are complete: i is the
\* number of the first one of the type, 0 if none
ExtSizes(exts) == [i \in DOMAIN exts |-> 4 + exts[i].len]
WalkExts(exts, type, at, left) ==
    LET ends == Sums(ExtSizes(exts))
        found == {i \in DOMAIN exts : ends[i] <= left /\ exts[i].type = type}
        i == CHOOSE j \in found : \A k \in found : j <= k
    IN  IF found = {} THEN [i |-> 0, at |-> 0] ELSE [i |-> i, at |-> at + ends[i - 1] + 4]

\* TLSFindExt, only in the first record
TLSFindExt(h, sz, type, partial) ==
    LET len == Smaller(sz, h.rec + 5)
        have == len - ExtLenAt(h) - 2
    IN  IF \/ ~IsTLSClientHello(h, sz, partial)
           \/ ~partial /\ (h.hs + 4 > len - 5 \/ have < h.extl)
           \/ TLSFindExtLen(h, len) = POS_NOT_FOUND
        THEN [i |-> 0, at |-> 0]
        ELSE WalkExts(h.exts, type, ExtLenAt(h) + 2, Smaller(have, h.extl))

\* TLSAdvanceToHostInSNI
SniOk(e) == e.len >= 5 /\ e.slen <= e.len - 5

TLSPos(marker, pos, h, sz) ==
    LET f == TLSFindExt(h, sz, SNI, TRUE)
        e == h.exts[f.i]
    IN  CASE marker \in {HostMarkers[i] : i \in DOMAIN HostMarkers} ->
               IF f.i # 0 /\ SniOk(e) THEN HostPos(marker, pos, sz, f.at + 5, e.slen, e.name)
               ELSE POS_NOT_FOUND
          [] marker = "sniext" -> IF f.i # 0 THEN CheckPos(sz, f.at + pos) ELSE POS_NOT_FOUND
          [] marker = "extlen" ->
               IF TLSFindExtLen(h, sz) # POS_NOT_FOUND THEN CheckPos(sz, TLSFindExtLen(h, sz) + pos)
               ELSE POS_NOT_FOUND
          [] OTHER -> AnyProtoPos(marker, pos, sz)

\* TLSHelloExtractHost
TLSHelloExtractHost(h, sz, partial) ==
    LET f == TLSFindExt(h, sz, SNI, partial)
    IN  [found |-> f.i # 0 /\ SniOk(h.exts[f.i]), at |-> f.at + 5,
         len |-> IF f.i # 0 THEN h.exts[f.i].slen ELSE 0]

\* ResolvePos of a marker [m, pos]; "other" stands for all other payloads
ResolvePos(msg, sz, mk) ==
    CASE msg.k = "http" -> HttpPos(mk.m, mk.pos, msg, sz)
      [] msg.k = "tls" -> TLSPos(mk.m, mk.pos, msg, sz)
      [] OTHER -> AnyProtoPos(mk.m, mk.pos, sz)

\* ResolveMultiPos: what is found, sorted and unique
Ascending(S) ==
    CHOOSE s \in [1 .. Cardinality(S) -> S] : \A i, j \in DOMAIN s : i < j => s[i] < s[j]
ResolveMultiPos(msg, sz, mks) ==
    Ascending({ResolvePos(msg, sz, mks[i]) : i \in DOMAIN mks} \ {POS_NOT_FOUND})

\* luacall_resolve_range, zero based
resolve_range(msg, sz, mk1, mk2, strict) ==
    LET p1 == ResolvePos(msg, sz, mk1)
        p2 == ResolvePos(msg, sz, mk2)
        n == Cardinality({i \in 1 .. 2 : <<p1, p2>>[i] = POS_NOT_FOUND})
        r == << IF p1 = POS_NOT_FOUND THEN 0 ELSE p1, IF p2 = POS_NOT_FOUND THEN sz - 1 ELSE p2 >>
    IN  IF n = 2 \/ (strict /\ n # 0) \/ r[1] > r[2] THEN <<>> ELSE r

-----------------------------------------------------------------------------
(* tls_mod                                                                 *)

\* a ClientHello with other extensions and size, where the length fields grow by
\* n, mod 2^16 and 2^24
Grow16(x, n) == (x + n) % 65536
Grown(h, n, exts, size) ==
    [k |-> h.k, sid |-> h.sid, cs |-> h.cs, cm |-> h.cm, exts |-> exts, extl |-> Grow16(h.extl, n),
     rec |-> Grow16(h.rec, n), hs |-> (h.hs + n) % 16777216, size |-> size]
LongerSni(e, n, name) ==
    [type |-> e.type, len |-> Grow16(e.len, n), list |-> Grow16(e.list, n), slen |-> Grow16(e.slen, n),
     name |-> name]

\* mutant: the length of the list of names is forgotten
SetSniOnly(h, i, name) ==
    LET n == NameLen(name) - h.exts[i].slen
        sni == [LongerSni(h.exts[i], n, name) EXCEPT !.list = h.exts[i].list]
    IN  Grown(h, n, [h.exts EXCEPT ![i] = sni], h.size + n)

\* FAKE_TLS_MOD_SNI
SetSni(h, i, name) ==
    LET n == NameLen(name) - h.exts[i].slen
        sni == LongerSni(h.exts[i], n, name)
    IN  Grown(h, n, [h.exts EXCEPT ![i] = sni], h.size + n)

\* FAKE_TLS_MOD_PADENCAP: the padding, added if there is none, is to contain the
\* payload of n bytes that will be sent behind the hello
PadExt == [type |-> PADDING, len |-> 0, list |-> 0, slen |-> 0, name |-> <<>>]
AddPadding(h) == Grown(h, 4, Append(h.exts, PadExt), h.size + 4)
TooLong(h, i, n) ==
    h.rec + n > 65535 \/ h.hs + n > 16777215 \/ h.extl + n > 65535 \/ h.exts[i].len + n > 65535
Encap(h, i, n) ==
    LET pad == [h.exts[i] EXCEPT !.len = @ + n]
    IN  Grown(h, n, [h.exts EXCEPT ![i] = pad], h.size)
PadEncap(h, n) ==
    LET f == TLSFindExt(h, h.size, PADDING, FALSE)
        h1 == IF f.i # 0 THEN h ELSE AddPadding(h)
        i == IF f.i # 0 THEN f.i ELSE Len(h1.exts)
    IN  IF f.i # 0 /\ f.at + h.exts[f.i].len # h.size THEN [ok |-> FALSE, h |-> h]
        ELSE IF TooLong(h1, i, n) THEN [ok |-> FALSE, h |-> h1]
        ELSE [ok |-> TRUE, h |-> Encap(h1, i, n)]

\* FAKE_TLS_MOD_RND and DUP_SID change no lengths: dupsid needs a ClientHello
\* with a session id of the same length.  FAKE_TLS_MOD_RND_SNI keeps the length;
\* names shorter than 7 lose their dots.
DupSidOk(h, payload) == payload.hello /\ payload.len >= 44 + payload.sid /\ payload.sid = h.sid
RndName(name) == LET n == NameLen(name) IN IF n >= 7 THEN <<n - 4, 3>> ELSE <<n>>
RndSni(h, i) ==
    LET sni == [h.exts[i] EXCEPT !.name = RndName(@)]
    IN  [h EXCEPT !.exts = [@ EXCEPT ![i] = sni]]

\* TLSMod; maxsize is the buffer.  mod: the set of mods and the new name
TLSMod(mod, h, payload, maxsize) ==
    LET sni == mod.set \cap {"sni", "rndsni"} # {}
        f == TLSFindExt(h, h.size, SNI, FALSE)
        room == h.size + NameLen(mod.name) - h.exts[f.i].slen <= maxsize
        h1 == IF "sni" \in mod.set THEN SetSni(h, f.i, mod.name) ELSE h
        rnd == "rndsni" \in mod.set
        h2 == IF rnd /\ h1.exts[f.i].slen # 0 THEN RndSni(h1, f.i) ELSE h1
        ok2 == rnd => h1.exts[f.i].slen # 0
        ok3 == payload.len # 0 /\ "dupsid" \in mod.set => DupSidOk(h, payload)
        pad == PadEncap(h2, payload.len)
        fit == h2.size + 4 <= maxsize \/ TLSFindExt(h2, h2.size, PADDING, FALSE).i # 0
    IN  IF \/ ~IsTLSClientHello(h, h.size, FALSE) \/ h.size < 44 + h.sid
           \/ (sni \/ "padencap" \in mod.set) /\ TLSFindExtLen(h, h.size) = POS_NOT_FOUND
           \/ sni /\ (f.i = 0 \/ ~SniOk(h.exts[f.i]))
           \/ "sni" \in mod.set /\ ~room
        THEN [ok |-> FALSE, h |-> h]
        ELSE IF payload.len = 0 \/ "padencap" \notin mod.set THEN [ok |-> ok2 /\ ok3, h |-> h2]
        ELSE IF ~fit THEN [ok |-> FALSE, h |-> h2]
        ELSE [ok |-> ok2 /\ ok3 /\ pad.ok, h |-> pad.h]

-----------------------------------------------------------------------------
(* QUICDefragCrypto                                                        *)

\* One frame put into the buffer, where "junk" is what was there before.  Exact
\* duplicates are left out.
Put(s, f) ==
    LET end == f[1] + f[2]
    IN  IF ~s.ok \/ Len(s.ranges) >= MAX_DEFRAG_PIECES \/ end > DefragRoom THEN [s EXCEPT !.ok = FALSE]
        ELSE IF \E i \in DOMAIN s.ranges : s.ranges[i] = f THEN s
        ELSE [ok |-> TRUE, ranges |-> Append(s.ranges, f), szmax |-> IF end > s.szmax THEN end ELSE s.szmax,
              zeropos |-> IF end > s.zeropos THEN end ELSE s.zeropos,
              buf |-> [i \in DOMAIN s.buf |-> IF i >= f[1] /\ i < end THEN "data"
                                              ELSE IF i >= s.zeropos /\ i < f[1] THEN "zero" ELSE s.buf[i]]]
NothingPut == [ok |-> TRUE, ranges |-> <<>>, szmax |-> 0, zeropos |-> 0,
               buf |-> [i \in 0 .. DefragRoom - 1 |-> "junk"]]
Puts(fs) ==
    LET after[i \in 0 .. Len(fs)] == IF i = 0 THEN NothingPut ELSE Put(after[i - 1], fs[i])
    IN  after
PutAll(fs) == Puts(fs)[Len(fs)]

\* mutant: ranges that only touch are not joined
JoinOverlapping(merged, r) ==
    LET j == Len(merged)
        end == merged[j][1] + merged[j][2]
    IN  IF r[1] < end
        THEN [merged EXCEPT ![j] = <<@[1], (IF r[1] + r[2] > end THEN r[1] + r[2] ELSE end) - @[1]>>]
        ELSE Append(merged, r)

\* one step of the loop that joins ranges, sorted by offset
Join(merged, r) ==
    LET j == Len(merged)
        end == merged[j][1] + merged[j][2]
    IN  IF r[1] <= end
        THEN [merged EXCEPT ![j] = <<@[1], (IF r[1] + r[2] > end THEN r[1] + r[2] ELSE end) - @[1]>>]
        ELSE Append(merged, r)
Joins(rs) ==
    LET merged[i \in 1 .. Len(rs)] == IF i = 1 THEN <<rs[1]>> ELSE Join(merged[i - 1], rs[i])
    IN  merged
Joined(rs) == Joins(rs)[Len(rs)]

\* qsort by offset: ranges with the same offset in any order
Sortings(rs) ==
    {s \in [DOMAIN rs -> {rs[i] : i \in DOMAIN rs}] :
       /\ \A i, j \in DOMAIN rs : i < j => s[i][1] <= s[j][1]
       /\ {s[i] : i \in DOMAIN s} = {rs[i] : i \in DOMAIN rs}}

QUICDefragCrypto(fs) ==
    LET s == PutAll(fs)
    IN  [found |-> s.ok /\ fs # <<>>, len |-> s.szmax, buf |-> s.buf,
         full |-> {LET m == Joined(rs) IN Len(m) = 1 /\ m[1][1] = 0 :
                     rs \in IF s.ok THEN Sortings(s.ranges) ELSE {}}]
=============================================================================
