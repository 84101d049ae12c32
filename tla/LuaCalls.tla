------------------------------ MODULE LuaCalls ------------------------------
(***************************************************************************)
(* Calls of the functions that the program gives to Lua and that have no   *)
(* state of their own: dissect and reconstruct_dissect, ipfrag2 of the     *)
(* library on top of them, the position markers, tls_mod, and the          *)
(* collection of CRYPTO frames before a QUIC initial is given to Lua.      *)
(* What is called on what is a state; a call has no next state.            *)
(***************************************************************************)
EXTENDS IpFrag, Messages

VARIABLE call

NoCall == [k |-> "none"]
CallInit ==
    \/ \E p \in Whole \cup Parts : call = [k |-> "packet", p |-> p]
    \/ \E m \in Messages : call = [k |-> "message", m |-> m]
    \/ \E h \in Hellos(0), mod \in Mods, payload \in Payloads, room \in {0, 9} :
          call = [k |-> "tls_mod", h |-> h, mod |-> mod, payload |-> payload, room |-> room]
    \/ \E fs \in FrameSeqs : call = [k |-> "crypto", fs |-> fs]
CallSpec == (call = NoCall \/ CallInit) /\ [][UNCHANGED call]_call

-----------------------------------------------------------------------------
(* what is expected of a packet p and of its table d                       *)

ReadsAsEdited(e, q) == q # FailedPacket /\ Sound(q) /\ ReadsAs(q, e)
Rebuilt(p, d) ==
    /\ d.v # 0
    /\ Plain(p, d) =>
         /\ reconstruct(d, NoOptions) = p
         /\ d.l4 # "none" => ByHand(d) = p
    /\ \A e \in Broken(d) : reconstruct(e, NoOptions) = FailedPacket
    /\ (d.v = 4 \/ d.l4 # "none") /\ ~d.frag /\ ~HasFragHeader(d) =>
         \A e \in Edits(d) : ReadsAsEdited(e, reconstruct(e, NoOptions))

AreWhole(fs, whole) ==
    fs # <<>> =>
      /\ \A i \in 1 .. 2 : fs[i] # FailedPacket /\ Claimed(fs[i]) = Len(fs[i].data)
                           /\ (fs[i].v = 4 => fs[i].sum = ip4_fix_checksum(fs[i]).sum)
      /\ Together(fs[1], fs[2], whole)
Reassembled(d) ==
    ~d.frag /\ (\A i \in DOMAIN d.exts : d.exts[i].type = "frag" => i >= frag_idx(d.exts)) =>
      \A pos \in FragPositions : AreWhole(Fragments(d, pos), reconstruct(d, Preserve))

-----------------------------------------------------------------------------
(* properties                                                              *)

\* A packet that is taken apart and put together is the packet it was, fragments
\* and IPv6 extension headers included, also when Lua builds it header by header
\* with the csum_*_fix functions; and after an edit a receiver reads what the
\* table says, with right lengths and checksums, or no packet is made at all.
\* Not covered: other protocols than TCP, UDP and ICMP over IPv6 without
\* VERDICT_PRESERVE_NEXT (their number is not kept), options behind the end of
\* the option list, and edits of the size of what has a fragment header, whose
\* length is Lua's to give.
RebuildIsExact == call.k = "packet" => Rebuilt(call.p, dissect(call.p, FALSE))

\* ipfrag2 and lua_reconstruct_dissect divide a packet between them: Lua computes
\* lengths and offsets from its own idea of the sizes of all headers, C builds the
\* whole packet and cuts.  The two fragments always make up the packet that would
\* have been sent in one piece, with its checksum, wherever the cut is and
\* whatever headers are before and behind it.  Not for a packet that came with a
\* fragment header of its own before a header that ipfrag2 leaves in every
\* fragment: C cuts at the first fragment header, which is then the wrong one.
FragmentsReassemble == call.k = "packet" => Reassembled(dissect(call.p, FALSE))

\* Position markers: Lua functions cut a message where markers say, also before the
\* message is complete.  A marker found in a part of a message is the one of the
\* whole message, host markers agree with the hostname that profiles are chosen by,
\* and lists of markers are cuts inside the message in order (ResolvePos,
\* ResolveMultiPos, resolve_range).
MarkersAreStable == call.k = "message" => Stable(call.m) /\ Around(call.m) /\ Cuttable(call.m)

\* A fake ClientHello stays one: whatever mods are asked for, alone or together,
\* with whatever payload and also when one is refused, the lengths of the record,
\* the handshake, the extensions, the name list and the name agree with what is
\* there afterwards; and if all mods were applied, the name is the wanted one and
\* with padencap the hello together with the payload behind it is a ClientHello
\* that ends with the padding (TLSMod).
ModKeepsHello ==
    call.k = "tls_mod" =>
        LET r == TLSMod(call.mod, call.h, call.payload, call.h.size + call.room)
            n == call.payload.len
            encap == [r.h EXCEPT !.size = @ + n]
            final == r.h.exts[Len(r.h.exts)]
        IN  /\ WellFormed(r.h) \/ (n # 0 /\ WellFormed(encap))
            /\ r.ok /\ call.mod.set \cap {"sni", "rndsni"} = {"sni"} => HostOf(r.h) = call.mod.name
            /\ r.ok /\ "padencap" \in call.mod.set /\ n # 0 =>
                 WellFormed(encap) /\ final.type = PADDING /\ final.len >= n

\* CRYPTO frames of a QUIC initial in any order, doubled or overlapping: the
\* ClientHello is taken for complete exactly when every byte of it came, no byte
\* that did not come is anything but zero, and frames that fit are refused only
\* when the table of ranges is full (QUICDefragCrypto).
DefragIsExact ==
    call.k = "crypto" =>
        LET r == QUICDefragCrypto(call.fs)
            came == {call.fs[i] : i \in DOMAIN call.fs}
            bytes == UNION {f[1] .. f[1] + f[2] - 1 : f \in came}
            ends == {f[1] + f[2] : f \in came}
        IN  /\ r.found => /\ r.len \in ends /\ (\A e \in ends : e <= r.len)
                          /\ r.full = {0 .. r.len - 1 \subseteq bytes}
                          /\ \A i \in 0 .. r.len - 1 : r.buf[i] = IF i \in bytes THEN "data" ELSE "zero"
            /\ ~r.found => \/ \E e \in ends : e > DefragRoom
                           \/ Cardinality({call.fs[i] : i \in 1 .. Len(call.fs) - 1}) >= MAX_DEFRAG_PIECES
=============================================================================
