------------------------------- MODULE Codec -------------------------------
(***************************************************************************)
(* The wire codec of core/packet.go (Serialize, Deserialize,               *)
(* ValidateHeader) and the table-driven CRC32 it uses (initCRC32Table,     *)
(* NewCRC32, Update, Final), over a link that may flip bits.               *)
(*                                                                         *)
(* Bytes are naturals in 0..255.  A uint32 does not fit TLC's integers,    *)
(* so the CRC register and every uint32 header field are records of     *)
(* their two 16-bit halves.  The table-driven CRC is checked against a bit-at-a-time       *)
(* reference of the same IEEE 802.3 reflected CRC.                        *)
(***************************************************************************)
EXTENDS Naturals, Sequences, Bitwise

CONSTANTS
    Headers,        \* headers handed to Serialize (built with the constructors below)
    Payloads,       \* payloads the sender sends
    MaxPayloadLen,  \* Serialize's limit, 65535 = the largest uint16 (scaled down in MC_Codec)
    MaxFlips,       \* bound: bits the link flips in one frame
    None            \* model value: nothing sent / received yet

Magic == 43981        \* 0xABCD
Version == 1
HeaderSize == 24

\* Header flags, opcodes and protocol types of core/common.go.
FlagReliable == 8
FlagACK == 16
OpData == 1
OpACK == 3
ProtoTCP == 1

-----------------------------------------------------------------------------
(* The 32-bit CRC register as its two 16-bit halves.                    *)
Word(hi, lo) == [hi |-> hi, lo |-> lo]
\* xor of 16-bit halves through a table of nibble xors (Bitwise's ^^
\* recurses over the bits, too deep to nest once per byte of a frame).
XorNib == [x, y \in 0 .. 15 |-> x ^^ y]
Xor16(x, y) ==
    XorNib[x \div 4096, y \div 4096] * 4096 + XorNib[(x \div 256) % 16, (y \div 256) % 16] * 256
    + XorNib[(x \div 16) % 16, (y \div 16) % 16] * 16 + XorNib[x % 16, y % 16]
XorW(a, b) == Word(Xor16(a.hi, b.hi), Xor16(a.lo, b.lo))
Shift1(a) == Word(a.hi \div 2, (a.hi % 2) * 32768 + a.lo \div 2)
Shift8(a) == Word(a.hi \div 256, (a.hi % 256) * 256 + a.lo \div 256)
Ones == Word(65535, 65535)
Poly == Word(60856, 33568)   \* 0xEDB88320

\* The register as the 4 big-endian bytes binary.BigEndian.PutUint32 writes.
WordBytes(a) == <<a.hi \div 256, a.hi % 256, a.lo \div 256, a.lo % 256>>

\* One step of initCRC32Table's inner loop.
TableStep(t) == IF t.lo % 2 = 1 THEN XorW(Shift1(t), Poly) ELSE Shift1(t)

\* Mutant of TableBits: the inner loop runs j < 7.
TableBitsSeven(i) ==
    LET step[j \in 0 .. 7] == IF j = 0 THEN Word(0, i) ELSE TableStep(step[j - 1]) IN step[7]

\* initCRC32Table: entry i is uint32(i) after 8 shift-and-xor steps.
TableBits(i) ==
    LET step[j \in 0 .. 8] == IF j = 0 THEN Word(0, i) ELSE TableStep(step[j - 1]) IN step[8]

CRC32Table == [i \in 0 .. 255 |-> TableBits(i)]

NewCRC32 == Ones

\* Update: crc = (crc >> 8) ^ crc32Table[(crc ^ b) & 0xFF] for each byte;
\* Registers is the register before the first byte and after each byte.
UpdateByte(c, b) == XorW(Shift8(c), CRC32Table[Xor16(c.lo, b) % 256])
Registers(crc, chunk) ==
    LET regs[n \in 0 .. Len(chunk)] ==
            IF n = 0 THEN <<crc>>
            ELSE LET r == regs[n - 1] IN Append(r, UpdateByte(r[n], chunk[n]))
    IN regs[Len(chunk)]
Update(crc, chunk) == LET r == Registers(crc, chunk) IN r[Len(r)]

Final(f) == XorW(f, Ones)

ComputeCRC32(msg) == Final(Update(NewCRC32, msg))

(* Reference: the reflected CRC one input bit at a time, least            *)
(* significant bit of each byte first (spec section 3).                   *)
RefBit(r, bit) ==
    IF (r.lo + bit) % 2 = 1 THEN XorW(Shift1(r), Poly) ELSE Shift1(r)
RefByte(r0, v) ==
    LET bits[k \in 0 .. 8] == IF k = 0 THEN r0 ELSE RefBit(bits[k - 1], (v \div 2^(k - 1)) % 2)
    IN bits[8]
RefCRC32(input) ==
    LET reg[i \in 0 .. Len(input)] ==
            IF i = 0 THEN <<Ones>> ELSE LET r == reg[i - 1] IN Append(r, RefByte(r[i], input[i]))
    IN XorW(reg[Len(input)][Len(input) + 1], Ones)

\* The reference gives the standard check value: CRC32("123456789") = 0xCBF43926.
ASSUME WordBytes(RefCRC32(<<49, 50, 51, 52, 53, 54, 55, 56, 57>>)) = <<203, 244, 57, 38>>

-----------------------------------------------------------------------------
(* The header layout, big-endian.                                         *)
\* Mutant of Put16: the low byte is not masked to 8 bits.
Put16NoMask(v) == <<v \div 256, v>>

Put16(v) == <<v \div 256, v % 256>>
Put32(w) == Put16(w.hi) \o Put16(w.lo)
Get16(buf, at) == buf[at] * 256 + buf[at + 1]
Get32(buf, off) == [hi |-> Get16(buf, off), lo |-> Get16(buf, off + 2)]

\* Serialize's header buffer: the CRC32/timestamp word at 20..24 is written as 0.
HeaderBytes(hd) ==
    Put16(hd.magic) \o <<hd.version, hd.flags, hd.opcode, hd.proto>>
    \o Put32(hd.streamID) \o Put32(hd.seq) \o Put16(hd.fragID) \o Put16(hd.totalFrags)
    \o Put16(hd.payloadLen) \o <<0, 0, 0, 0>>

\* Serialize: [header] [payload] [CRC32 of header and payload].
Serialize(hdr, body) ==
    LET hb == HeaderBytes(hdr) IN
    IF Len(body) > MaxPayloadLen THEN <<>>
    ELSE hb \o body \o WordBytes(ComputeCRC32(hb \o body))

ParseHeader(bytes) ==
    [magic |-> Get16(bytes, 1), version |-> bytes[3], flags |-> bytes[4], opcode |-> bytes[5],
     proto |-> bytes[6], streamID |-> Get32(bytes, 7), seq |-> Get32(bytes, 11),
     fragID |-> Get16(bytes, 15), totalFrags |-> Get16(bytes, 17),
     payloadLen |-> Get16(bytes, 19), timestamp |-> Get32(bytes, 21)]

ValidateHeader(h) ==
    CASE h.magic # Magic     -> "invalid magic"
      [] h.version # Version -> "invalid version"
      [] OTHER               -> "ok"

(* NewPacketHeader: Magic, Version and the timestamp it read; every other *)
(* field zero.                                                            *)
NewPacketHeader(ts) ==
    [magic |-> Magic, version |-> Version, flags |-> 0, opcode |-> 0, proto |-> 0,
     streamID |-> Word(0, 0), seq |-> Word(0, 0), fragID |-> 0, totalFrags |-> 0,
     payloadLen |-> 0, timestamp |-> ts]

(* Send, step 3: the caller's stream, opcode, protocol and flags on a new *)
(* header, the timestamp restamped and Seq = 0 (payload_len is stamped   *)
(* when the frame is sent).                                               *)
SendHeader(ts, streamID, opcode, proto, flags) ==
    [NewPacketHeader(ts) EXCEPT !.streamID = streamID, !.opcode = opcode, !.proto = proto,
                                !.flags = flags, !.seq = Word(0, 0)]

(* sendACK: OpACK with FlagACK | FlagReliable and the acknowledged seq.    *)
ACKHeader(ts, ackSeq) ==
    [NewPacketHeader(ts) EXCEPT !.opcode = OpACK, !.flags = FlagACK + FlagReliable,
                                !.seq = ackSeq]

Reject(e) == [err |-> e, hdr |-> None, payload |-> <<>>]

\* Mutant of Deserialize: the CRC is computed over the payload only.
DeserializeCRCNoHeader(frame) ==
    IF Len(frame) < HeaderSize + 4 THEN Reject("too short") ELSE
    LET parsed == ParseHeader(frame)
        body == SubSeq(frame, HeaderSize + 1, HeaderSize + parsed.payloadLen)
    IN CASE ValidateHeader(parsed) # "ok"                 -> Reject(ValidateHeader(parsed))
         [] HeaderSize + parsed.payloadLen > Len(frame) - 4   -> Reject("length exceeds data")
         [] SubSeq(frame, Len(frame) - 3, Len(frame)) # WordBytes(ComputeCRC32(body))
                                                     -> Reject("CRC32 mismatch")
         [] OTHER -> [err |-> "ok", hdr |-> parsed, payload |-> body]

\* Deserialize: length, Magic/Version, payload bounds, then the CRC32 over
\* the received header bytes and the payload against the last 4 bytes.
Deserialize(frame) ==
    IF Len(frame) < HeaderSize + 4 THEN Reject("too short") ELSE
    LET parsed == ParseHeader(frame)
        body == SubSeq(frame, HeaderSize + 1, HeaderSize + parsed.payloadLen)
    IN CASE ValidateHeader(parsed) # "ok"                 -> Reject(ValidateHeader(parsed))
         [] HeaderSize + parsed.payloadLen > Len(frame) - 4   -> Reject("length exceeds data")
         [] SubSeq(frame, Len(frame) - 3, Len(frame)) # WordBytes(ComputeCRC32(SubSeq(frame, 1, HeaderSize) \o body))
                                                     -> Reject("CRC32 mismatch")
         [] OTHER -> [err |-> "ok", hdr |-> parsed, payload |-> body]

-----------------------------------------------------------------------------
VARIABLES
    sent,     \* the header and payload the sender serialized, or None
    wire,     \* the frame's bytes on the link
    flips,    \* bits the link has flipped
    result    \* what Deserialize returned at the receiver, or None

vars == <<sent, wire, flips, result>>

Init == sent = None /\ wire = <<>> /\ flips = 0 /\ result = None

(* TCPSend / UDPSend write Serialize's output as one frame; when          *)
(* Serialize refuses the payload, Send returns its error and nothing is   *)
(* written.                                                               *)
WriteFrame(stamped, payload) ==
    LET frame == Serialize(stamped, payload) IN
    /\ frame # <<>>
    /\ sent' = [hdr |-> stamped, payload |-> payload]
    /\ wire' = frame

(* Send of part_001 stamps payload_len = uint16(len(payload)), a cast     *)
(* that wraps modulo MaxPayloadLen + 1.                                   *)
SendFrame(h, payload) ==
    /\ sent = None
    /\ WriteFrame([h EXCEPT !.payloadLen = Len(payload) % (MaxPayloadLen + 1)], payload)
    /\ UNCHANGED <<flips, result>>

(* SafeIntToUint16: an error outside 0 .. 65535 (MaxPayloadLen).          *)
SafeIntToUint16(v) ==
    IF v < 0 \/ v > MaxPayloadLen THEN [err |-> TRUE, val |-> 0] ELSE [err |-> FALSE, val |-> v]

(* Send of part_000 converts the length with SafeIntToUint16 and returns  *)
(* "payload too large" on its error.                                      *)
SendFrameSafe(h, payload) ==
    LET len == SafeIntToUint16(Len(payload)) IN
    /\ sent = None /\ ~len.err
    /\ WriteFrame([h EXCEPT !.payloadLen = len.val], payload)
    /\ UNCHANGED <<flips, result>>

\* The link flips bit k of byte i.
FlipBit(i, k) ==
    /\ sent # None /\ result = None /\ flips < MaxFlips
    /\ wire' = [wire EXCEPT ![i] = IF (@ \div 2^k) % 2 = 1 THEN @ - 2^k ELSE @ + 2^k]
    /\ flips' = flips + 1
    /\ UNCHANGED <<sent, result>>

\* TCPRecv / UDPRecv hand the received frame to Deserialize.
ReceiveFrame ==
    /\ sent # None /\ result = None
    /\ result' = Deserialize(wire)
    /\ UNCHANGED <<sent, wire, flips>>

Next ==
    \/ \E hd0 \in Headers, p \in Payloads : SendFrame(hd0, p) \/ SendFrameSafe(hd0, p)
    \/ \E at \in DOMAIN wire, b \in 0 .. 7 : FlipBit(at, b)
    \/ ReceiveFrame

Spec == Init /\ [][Next]_vars

-----------------------------------------------------------------------------
TypeOK ==
    /\ wire \in Seq(0 .. 255) /\ flips \in 0 .. MaxFlips
    /\ sent = None \/ sent.payload \in Payloads
    /\ result = None \/ result.err \in {"ok", "too short", "invalid magic",
                                        "invalid version", "length exceeds data",
                                        "CRC32 mismatch"}

(* The table-driven CRC (initCRC32Table's table, Update's index           *)
(* (crc ^ b) & 0xFF and shift by 8) takes the register through the same  *)
(* values as the bit-at-a-time IEEE 802.3 reflected CRC, at every byte of *)
(* every frame and corrupted frame the link carries.  By induction over   *)
(* the bytes, ComputeCRC32 equals RefCRC32 on all of them.                *)
CRCMatchesReference ==
    LET regs == Registers(NewCRC32, wire)
    IN \A n \in 1 .. Len(wire) : regs[n + 1] = RefByte(regs[n], wire[n])

(* Deserialize accepts a frame exactly when the link left it intact, and  *)
(* then returns the header the sender stamped -- with the reserved word   *)
(* at offset 20 zero, as Serialize wrote it -- and the payload: a flip of *)
(* any single bit, in header, payload or trailer, is rejected (spec 8).  *)
OnlyIntactAccepted ==
    result # None =>
        /\ (result.err = "ok") = (flips = 0)
        /\ result.err = "ok" =>
              /\ result.hdr = [sent.hdr EXCEPT !.timestamp = [hi |-> 0, lo |-> 0]]
              /\ result.payload = sent.payload

=============================================================================
