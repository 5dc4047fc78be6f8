------------------------------ MODULE Fragment ------------------------------
(***************************************************************************)
(* UDP fragmentation and reassembly of core/fragment.go.                   *)
(*                                                                         *)
(* FragmentPacket is a pure operator in the code's unsigned arithmetic.    *)
(* A FragmentContext (AddFragment, Assemble, IsTimeout) is driven by the   *)
(* receive dispatch of the spec (section 4.4): no code of the repository   *)
(* owns the reassembly table, so that dispatch is modelled from the spec.  *)
(* Each packet is sent under its own (stream_id, seq) key, its context a  *)
(* table entry; the network may duplicate and reorder fragments (a received fragment stays available), and a peer     *)
(* that does not run FragmentPacket may put any header field values on the *)
(* wire (in flight from the start).  A payload byte is <<packet, index>>,  *)
(* so a reassembled payload shows where each of its bytes came from.      *)
(***************************************************************************)
EXTENDS Naturals, Sequences, FiniteSets, SequencesExt

CONSTANTS
    HeaderSize,        \* HeaderSize = 24
    CRCSize,           \* the 4-byte CRC32 trailer
    FragMaxFragments,  \* FragMaxFragments = 256
    SlotCount,         \* length of FragmentContext.Fragments ([256][]byte)
    UintModulus,       \* width of Go's uint (2^64 in the code)
    U16Modulus,        \* width of the uint16 header fields
    Packets,           \* model values: payloads, each under its own key
    PayloadSizes,      \* payload lengths the sender uses
    MTUs,              \* MTU values FragmentPacket is called with
    ForgedTotals,      \* total_frags of forged headers on the wire (empty: none)
    None, NoFrag       \* model values: no context / an empty slot

ASSUME /\ SlotCount = FragMaxFragments
       /\ FragMaxFragments < U16Modulus /\ U16Modulus <= UintModulus
       /\ \A m \in MTUs : m < UintModulus

VARIABLES
    net,        \* fragments on the wire (a received one stays: duplicates)
    calls,      \* the sender's FragmentPacket calls: [pkt, size, mtu]
    ctx,        \* the FragmentContext of each key, or None
    out,        \* packets the dispatcher emitted after Assemble
    panicked    \* AddFragment indexed Fragments out of range

vars == <<net, calls, ctx, out, panicked>>

Payload(p, n) == [i \in 1 .. n |-> <<p, i>>]
Bytes == Packets \X (1 .. Max(PayloadSizes))
FragMsg == [key : Packets, fragID : 0 .. U16Modulus - 1, total : 0 .. U16Modulus - 1,
            data : Seq(Bytes)]

USub(a, b) == (a - b + UintModulus) % UintModulus

(* FragmentPacket(hdr, payload, mtu) on a payload of `size` bytes: the    *)
(* error, "no fragmentation needed", or the [offset, size] of each slice.  *)
\* Mutant of FragmentPacket: total_frags as (size + max) / max.
FragmentPacketCeilOff(size, mtu) ==
    LET maxFrag == USub(USub(mtu, HeaderSize), CRCSize)
        total   == (size + maxFrag) \div maxFrag
    IN CASE maxFrag = 0                 -> [status |-> "err", frags |-> <<>>]
         [] size <= maxFrag             -> [status |-> "none", frags |-> <<>>]
         [] total > FragMaxFragments    -> [status |-> "err", frags |-> <<>>]
         [] OTHER -> [status |-> "ok",
                      frags |-> [i \in 1 .. total |->
                         LET off == (i - 1) * maxFrag IN
                         [offset |-> off,
                          size |-> IF off + maxFrag > size THEN size - off ELSE maxFrag]]]

\* Mutant of FragmentPacket: the FragMaxFragments limit is not checked.
FragmentPacketNoLimit(size, mtu) ==
    LET maxFrag == USub(USub(mtu, HeaderSize), CRCSize)
        total   == (size + maxFrag - 1) \div maxFrag
    IN CASE maxFrag = 0                 -> [status |-> "err", frags |-> <<>>]
         [] size <= maxFrag             -> [status |-> "none", frags |-> <<>>]
         [] OTHER -> [status |-> "ok",
                      frags |-> [i \in 1 .. total |->
                         LET off == (i - 1) * maxFrag IN
                         [offset |-> off,
                          size |-> IF off + maxFrag > size THEN size - off ELSE maxFrag]]]

FragmentPacket(size, mtu) ==
    LET maxFrag == USub(USub(mtu, HeaderSize), CRCSize)
        total   == (size + maxFrag - 1) \div maxFrag
    IN CASE maxFrag = 0                 -> [status |-> "err", frags |-> <<>>]
         [] size <= maxFrag             -> [status |-> "none", frags |-> <<>>]
         [] total > FragMaxFragments    -> [status |-> "err", frags |-> <<>>]
         [] OTHER -> [status |-> "ok",
                      frags |-> [i \in 1 .. total |->
                         LET off == (i - 1) * maxFrag IN
                         [offset |-> off,
                          size |-> IF off + maxFrag > size THEN size - off ELSE maxFrag]]]

\* The slices of FragmentPacket with the headers it stamps on them.
Fragments(p, size, mtu) ==
    LET fs == FragmentPacket(size, mtu).frags IN
    {[key |-> p, fragID |-> (i - 1) % U16Modulus, total |-> Len(fs) % U16Modulus,
      data |-> SubSeq(Payload(p, size), fs[i].offset + 1, fs[i].offset + fs[i].size)]
       : i \in DOMAIN fs}

NewFragmentContext(total) ==
    [total |-> total, received |-> 0, slots |-> [i \in 0 .. SlotCount - 1 |-> NoFrag]]

\* Mutant of Assemble: the loop stops at i < TotalFrags - 1.
AssembleOffByOne(c) ==
    LET payload == FlattenSeq([k \in 1 .. c.total - 1 |-> c.slots[k - 1]]) IN
    [payload |-> payload, frag |-> FALSE, payloadLen |-> Len(payload) % U16Modulus]

(* Assemble once ReceivedFrags = TotalFrags: slots 0 .. TotalFrags-1      *)
(* concatenated in index order; the header of fragment 0 with             *)
(* FlagFragment cleared and PayloadLen = uint16(len(payload)).            *)
Assemble(c) ==
    LET payload == FlattenSeq([k \in 1 .. c.total |-> c.slots[k - 1]]) IN
    [payload |-> payload, frag |-> FALSE, payloadLen |-> Len(payload) % U16Modulus]

\* Headers a peer that does not run FragmentPacket has put on the wire.
Forged == {[key |-> k, fragID |-> t - 1, total |-> t, data |-> <<>>] : t \in ForgedTotals, k \in Packets}

\* Payloads the sender has fragmented.
Sent == {Payload(c.pkt, c.size) : c \in {d \in calls : FragmentPacket(d.size, d.mtu).status = "ok"}}

-----------------------------------------------------------------------------
Init ==
    /\ net = Forged /\ calls = {} /\ ctx = [k \in Packets |-> None] /\ out = {} /\ panicked = FALSE

(* The sender calls FragmentPacket once per packet and writes every      *)
(* fragment it returns ("no fragmentation needed": the packet goes whole, *)
(* outside this model; an error: nothing is sent).                        *)
SendPacket(p, size, mtu) ==
    /\ \A c \in calls : c.pkt # p
    /\ calls' = calls \cup {[pkt |-> p, size |-> size, mtu |-> mtu]}
    /\ net' = IF FragmentPacket(size, mtu).status = "ok"
             THEN net \cup Fragments(p, size, mtu) ELSE net
    /\ UNCHANGED <<ctx, out, panicked>>

(* Receive of a FRAG packet: the context of the key is created from this  *)
(* header if absent, AddFragment runs, and on completion Assemble emits   *)
(* the packet and the context is dropped.                                 *)
AddFragment(m) ==
    LET k == m.key
        c == IF ctx[k] = None THEN NewFragmentContext(m.total) ELSE ctx[k]
    IN
    /\ ~panicked
    /\ IF m.fragID >= c.total
       THEN ctx' = [ctx EXCEPT ![k] = c] /\ UNCHANGED <<out, panicked>>  \* invalid ID
       ELSE IF m.fragID >= SlotCount
       THEN panicked' = TRUE /\ UNCHANGED <<ctx, out>>         \* index out of range
       ELSE IF c.slots[m.fragID] # NoFrag
       THEN ctx' = [ctx EXCEPT ![k] = c] /\ UNCHANGED <<out, panicked>>  \* duplicate
       ELSE LET c2 == [c EXCEPT !.slots[m.fragID] = m.data, !.received = @ + 1] IN
            IF c2.received = c2.total
            THEN /\ ctx' = [ctx EXCEPT ![k] = None]
                 /\ out' = out \cup {Assemble(c2)} /\ UNCHANGED panicked
            ELSE ctx' = [ctx EXCEPT ![k] = c2] /\ UNCHANGED <<out, panicked>>
    /\ UNCHANGED <<net, calls>>

(* IsTimeout: 30 s after CreatedAt the context is reaped.                 *)
Reap(k) ==
    /\ ctx[k] # None
    /\ ctx' = [ctx EXCEPT ![k] = None]
    /\ UNCHANGED <<net, calls, out, panicked>>

Next ==
    \/ \E p \in Packets, size \in PayloadSizes, mtu \in MTUs : SendPacket(p, size, mtu)
    \/ \E m \in net : AddFragment(m)
    \/ \E k \in Packets : Reap(k)

Spec == Init /\ [][Next]_vars

-----------------------------------------------------------------------------
TypeOK ==
    /\ net \subseteq FragMsg /\ calls \subseteq [pkt : Packets, size : PayloadSizes, mtu : MTUs]
    /\ ctx \in [Packets -> {None} \cup [total : 1 .. FragMaxFragments, received : Nat,
                            slots : [0 .. SlotCount - 1 -> Seq(Bytes) \cup {NoFrag}]]]
    /\ out \subseteq [payload : Seq(Bytes), frag : BOOLEAN, payloadLen : Nat]
    /\ panicked \in BOOLEAN

(* Reassembly integrity: a packet the dispatcher emits after Assemble is  *)
(* a payload the sender fragmented, byte for byte, with FlagFragment       *)
(* cleared and PayloadLen its length -- whatever order and duplication     *)
(* the fragments arrived in and however often the context was reaped and  *)
(* rebuilt from late copies (AddFragment's duplicate test, ReceivedFrags, *)
(* Assemble's index order).                                               *)
ReassembledIsSent ==
    \A o \in out : o.payload \in Sent /\ ~o.frag /\ o.payloadLen = Len(o.payload)

(* FragmentPacket agrees with the split rule of the spec (4.4): for an    *)
(* MTU above header + CRC, max_frag = MTU - 28, "no fragmentation" when   *)
(* the payload fits, TooManyFragments above the maximum, and otherwise    *)
(* ceil(len / max_frag) slices that tile the payload in order, each at    *)
(* most max_frag bytes.                                                   *)
FragmentPacketCorrect ==
    \A c \in calls :
        c.mtu > HeaderSize + CRCSize =>
        LET size == c.size
            mtu  == c.mtu
            mf   == mtu - HeaderSize - CRCSize
            n  == (size + mf - 1) \div mf
            r  == FragmentPacket(size, mtu)
        IN CASE size <= mf             -> r.status = "none"
             [] n > FragMaxFragments   -> r.status = "err"
             [] OTHER ->
                  /\ r.status = "ok" /\ Len(r.frags) = n
                  /\ \A i \in DOMAIN r.frags :
                        /\ r.frags[i].offset = (i - 1) * mf
                        /\ 0 < r.frags[i].size /\ r.frags[i].size <= mf
                  /\ r.frags[n].offset + r.frags[n].size = size

(* A payload FragmentPacket lets through unfragmented fits, with header  *)
(* and CRC, in one datagram of the MTU: an MTU too small for that takes   *)
(* the "MTU too small for fragmentation" branch.                          *)
WholeFitsMTU ==
    \A c \in calls :
        FragmentPacket(c.size, c.mtu).status = "none" =>
        c.size + HeaderSize + CRCSize <= c.mtu

(* AddFragment never indexes Fragments[256] out of range, whatever        *)
(* total_frags a received header carries (it only checks fragID <         *)
(* TotalFrags).                                                           *)
NoSlotOverrun == ~panicked

=============================================================================
