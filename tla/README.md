# TLA+ models of overproto-go

This directory holds TLA+ models of the OverProto library under `src/`. OverProto frames messages over TCP and UDP. Around that framing it adds optional compression, AES-GCM encryption, UDP fragmentation and a selective-repeat ARQ, an automatic-repeat-request layer that retransmits lost packets. Every module is translated from the Go source. `PROJECT.json` maps each definition to the lines it models. Each module is checked by TLC through an `MC_*` module and one or more `.cfg` files.

## 1. The system

| Part | Source | State | Operations | Interacts with |
|---|---|---|---|---|
| Packet codec, CRC32 | `core/packet.go`, CRC code in `src/README.md` | the CRC table (built once) | Serialize, Deserialize, ValidateHeader, NewPacketHeader | every transport |
| Compression | `optimize` in `unnamed/part_001`, `part_002` | none | Compress, Decompress (10 MiB cap), ShouldCompress | Send pipeline |
| AEAD key slot | `optimize` in `unnamed/part_002` | `encryptionKey`, `keyMutex` | SetEncryptionKey, IsEncryptionEnabled, ClearEncryptionKey, Encrypt, Decrypt | Send, Shutdown |
| Library lifecycle and Send | `overproto` in `unnamed/part_000` (and a second variant in `part_001`) | `initialized`, `config`, callback, `mu` | Init, Shutdown, SetHandler, Send | key slot, transports |
| TCP transport | `transport/tcp.go` | per connection: `recvState`, `recvBuffer`, `recvBytesRead`, `mu` | TCPRecv with readExact, TCPSend, Listen/Accept/Connect | codec |
| UDP transport | `unnamed/part_006`, `getMTU` | the socket | UDPSend (never fragments), UDPRecv, UDPGetMTU | codec |
| Fragmenter | `core/fragment.go` | per (stream, seq): FragmentContext with 256 slots | FragmentPacket, AddFragment, Assemble, IsTimeout | UDP (spec; no caller in code) |
| Reliable UDP (ARQ) | `transport/udp_mtu_linux.go` | ReliableContext: send window, sendBase, nextSeq, receive bitmap, recvBase, cwnd, ssthresh, dupACK state, RTT | Send, Recv, sendACK, ProcessACK, ProcessTimeouts, updateRTT, updateCongestionWindow | UDP; no caller in code |
| Config, conversions | `core/common.go` | constants | NewConfig, Safe* conversions | Send |
| Demos | `unnamed/part_003..005`, `examples/` | — | CLIs | library API |

The hard behaviours are the following:
- **ARQ.** Loss, reordering and duplication of datagrams. Two peers step concurrently. Timeouts race late ACKs. The uint32 sequence space wraps. Congestion state changes at window limits.
- **TCP receive.** A frame can be split across any number of reads. A read deadline can fire mid-frame. A frame can carry a corrupt CRC.
- **Fragmenter.** Fragments arrive duplicated and reordered. A context can be reaped mid-reassembly. Headers come from an untrusted peer, and `mtu - 28` is computed in unsigned arithmetic.
- **Key slot.** Sends run concurrently with Shutdown and key changes. Encrypt reads the key after releasing its lock.

## 2. Modules

### ReliableUDP (`ReliableUDP.tla`, `MC_ReliableUDP.tla`)

Peer A sends data to peer B, and each peer runs a ReliableContext. ACKs carry `FlagReliable`, so ACKs reaching A also pass through A's `Recv` (its receive window) before A's driver hands them to `ProcessACK`.

The variables map to the code as follows:
- A's send half: `sendWindow` (state, seq, retry per slot), `sendBase`, `nextSeq`, `cwnd`, `ssthresh`, `inSlowStart`, `dupACKCount`, `lastACKSeq`.
- A's receive half: `aRecvBase`, `aRecvWindow`.
- The ACK that A's Recv returned and that waits for ProcessACK: `aPending`.
- B's receive half: `recvBase`, `recvWindow`.
- The datagrams in flight: `toB`, `toA`.
- History: `sends`, `delivered`.

Each action is one method under `ctx.mu`:
- `Send` is ctx.Send.
- `BRecv` and `ARecv` are ctx.Recv, window and duplicate tests and cumulative advance included, with the sendACK that every branch makes.
- `ProcessACKIgnore`, `ProcessACKDuplicate` and `ProcessACKFresh` are the three outcomes of ProcessACK. The fresh one includes updateCongestionWindow and the advance loop.
- `ProcessTimeouts` is the whole scan: drop, retransmit, and the collapse once per resent slot.
- `LoseStep` is UDP loss, enabled only when the constant `LinkLoses` is TRUE.
- `ProcessTimeouts` picks the set of expired slots and performs `Timeout(expired)`. With the constant `RTOAboveRTT` TRUE, a slot can expire only once neither its data nor its ACK is on the way (`RoundTrip`), which is the timing of an RTO above the round trip.

A consequence visible in the model: A's Recv drops every repeated ACK before ProcessACK sees it. `dupACKCount` therefore never exceeds 1 (checked ad hoc over the `arq_safety` state space), and the fast-retransmit branch of ProcessACK (udp_mtu_linux.go:335-341) is unreachable. Sequence numbers live in `0..SeqModulus-1` with the code's wrap-around arithmetic. Time is abstracted: a ProcessTimeouts call may find any non-empty subset of the live slots expired. That covers every RTO the estimator can compute, RTO = 0 included, so the RTT fields are not state.

### ARQChannel (`ARQChannel.tla`)

The abstract channel the reliable layer promises in one direction. `sent` counts the packets A has sent. `delivered` is what B's Recv returned, in order. `acked` is the set A regards as acknowledged. The actions are:
- `Send`: one more packet is sent.
- `Deliver(p)`: a sent packet not yet returned is returned. Order is left open, because this version's Recv returns packets out of order.
- `Acknowledge(p)`: a returned packet becomes acknowledged, one at a time, and is never withdrawn.

`ReliableUDP.tla` instantiates it as `Channel` with `sent <- sends`, `delivered <- delivered` and `acked <- AckedBySender` (released below `sendBase`, or in an ACKed slot). `ChannelRefined == Channel!Spec` is checked as a temporal property. Every other step of the detailed model is a stuttering step of the channel: timeouts, losses, ACK receipt and ProcessACK outcomes that mark nothing.

### TCPRecv (`TCPRecv.tla`, `MC_TCPRecv.tla`)

The peer writes whole frames (`PeerWrite` = TCPSend) and may close. The reader is TCPRecv under `conn.mu`:
- `IdleStep` covers StateIdle.
- `HeaderDone`, `PayloadDone` and `CRCDone` cover the three reading states once readExact returns.
- `ReadyStep` is Deserialize and the return.
- Each `fd.Read` inside readExact is its own step (`ReadChunk`), because peer writes and deadlines interleave with it.
- `ReadTimeout` and `ReadEOF` are readExact's error returns, which reset the state to Idle.

Bytes are abstracted to offsets:
- `pos` is the stream offset the reader has consumed.
- `bufStart` is where the current buffer began.
- A header parsed at a frame boundary yields that frame's length. Anywhere else it yields any length.
- `DeserializeResults` is what Deserialize can return. An aligned buffer holds the frame as written, so it yields that frame, or `Err` when the frame is corrupt. A buffer that starts inside a frame holds bytes the model does not track. Deserialize checks only magic, version, length and CRC, so these bytes may fail (`Err`). They may also pass as a frame the peer never wrote (`Forged`), for example a payload that carries a serialized frame.
- `deadlines` records whether the caller sets read deadlines on the connection. It is chosen in Init and never changes; `ReadTimeout` is enabled only when it is TRUE.

### FrameStream (`FrameStream.tla`)

The abstract specification of what a TCPRecv caller is promised (spec §4.5, §7). The peer's stream is a sequence of frames, each intact or corrupt, and every call appends one result: a frame index, `Err` or `EOF`. Without deadlines (`lossy` FALSE), call i returns frame i or `Err` for a corrupt frame, and `EOF` comes only after the peer closed and every frame was returned. With deadlines a call may fail at any time and frames may be lost. A call may also return `Forged`, a frame nobody wrote. A written frame that is returned is still intact, it comes later in the stream than every written frame returned before it, and `EOF` still needs a closed peer.

TCPRecv implements it. `TCPRecv.tla` instantiates FrameStream with the refinement mapping `stream <- [k |-> frames[k].ok]`, `peerClosed <- closed`, `results <- returned`, `lossy <- deadlines`, and `StreamRefinement == FS!Spec` is checked as a temporal property. Every reader step that does not return is a stuttering step of FrameStream.

### Codec (`Codec.tla`, `MC_Codec.tla`)

Pure operators for the wire codec of `core/packet.go` and the CRC32 code in `src/README.md`. Bytes are naturals 0..255. A uint32 does not fit TLC's integers, so the CRC register and the uint32 header fields are records of two 16-bit halves. Xor goes through a table of nibble xors built from Bitwise's `^^`.
- `CRC32Table` is initCRC32Table (`TableBits` is its inner loop). `UpdateByte`, `Update`, `Final`, `ComputeCRC32` follow the CRC32Context methods. `Registers` is the register before the first byte and after each byte.
- `HeaderBytes` and `Serialize` follow Serialize, with the reserved word at offset 20 written as zero. `ParseHeader`, `ValidateHeader` and `Deserialize` follow Deserialize's checks in the code's order: too short, magic/version, payload length against the data, CRC.
- `RefByte` and `RefCRC32` are a reference: the reflected CRC one input bit at a time. An ASSUME checks that RefCRC32 gives the standard check value 0xCBF43926 on "123456789".

Headers are built the way the code builds them. `NewPacketHeader` sets Magic, Version and the timestamp. `SendHeader` adds Send's stream, opcode, protocol and flags with Seq = 0. `ACKHeader` is sendACK's header: OpACK, FlagACK | FlagReliable and the acknowledged seq. The flag, opcode and protocol constants come from `core/common.go`.

The actions form a one-frame link.
- `SendFrame` is the `part_001` Send. It stamps `PayloadLen = uint16(len(payload))`, a cast that wraps.
- `SendFrameSafe` is the `part_000` Send. It converts the length with `SafeIntToUint16` and returns an error outside the uint16 range.
- Both then call `WriteFrame`, which is TCPSend (or UDPSend) writing Serialize's output as one frame. When Serialize refuses the payload, nothing is written. `FlipBit` is a link fault that flips one bit anywhere in the frame. `ReceiveFrame` is TCPRecv's or UDPRecv's call of Deserialize.

### Fragment (`Fragment.tla`, `MC_Fragment.tla`)

`FragmentPacket(size, mtu)` is a pure operator in the code's `uint` arithmetic (`UintModulus`). It returns an error, "no fragmentation needed", or the slices. `AddFragment` follows the code's branches in order:
1. invalid fragID;
2. the slot index, which panics when fragID ≥ 256;
3. duplicate;
4. store and count.

When the context is complete, it calls `Assemble`. `Reap` is IsTimeout. The code has no caller for these functions, so the dispatcher that keys contexts by (stream, seq) and creates them from the first header is taken from spec §4.4 (`spec_modelled` in the map). A sent fragment stays on the wire, which models duplication and reordering. A forging peer's headers (`ForgedTotals`) are on the wire from the start. `calls` records the sender's FragmentPacket calls, so the split properties are checked on exactly the sizes and MTUs the sender used.

### KeySlot (`KeySlot.tla`, `MC_KeySlot.tla`)

This module models the key slot, Init/Shutdown, SetHandler, concurrent Sends with FlagEncrypted, and Decrypt. A Send runs through these steps in order:
1. `SendBegin`: the initialized check under `mu.RLock`.
2. `CheckKey`: IsEncryptionEnabled.
3. `Snapshot`: Encrypt copies the key slice under RLock and tests it for nil.
4. `Seal`: aes.NewCipher reads the bytes with no lock held.
5. `Transmit`.

Shutdown holds both write locks, so it is two steps, `ShutdownBegin` (zeroing under way) and `ShutdownEnd` (`encryptionKey = nil`, `initialized = false`). No RLock-taking step can run between them. `ShutdownEnd` also clears `recvCallback`, which `SetHandler` sets under `mu`. A NewCipher read that overlaps the zeroing loop is a data race. It may read the key, zeroes, or a mix (`Torn`).

Nothing in the library calls Decrypt: its receive path hands the payload back as received. The model's Receiver is the application calling Decrypt on the packets the Senders put on the wire, as a loopback or the echo demo would. Decrypt has two steps with the same split as Encrypt:
1. `DecryptSnapshot`: the slice is copied under RLock and tested for nil.
2. `DecryptOpen`: NewCipher reads the bytes unlocked, then gcm.Open runs.

GCM is abstracted to its contract. Open returns plaintext exactly when the key bytes read are the bytes that sealed the packet. A torn read matches nothing. `overlap` and `roverlap` are history variables: they record that a Shutdown began between a call's copy and its read.

## 3. Runs

| Run | Expect | What it shows |
|---|---|---|
| `arq_safety` (ReliableUDP.cfg) | pass | `BitmapMatchesDelivered`: B's bitmap marks exactly the delivered seqs in its window, despite ACK echoes landing in it. `ChannelRefined`: ReliableUDP implements ARQChannel. Each sent packet is returned at most once, even when premature timeouts put two copies on the link. Only packets B returned are acknowledged, and acknowledgements are never withdrawn. |
| `arq_first_ack` (ReliableUDP_LossFree.cfg) | violation | `SentEventuallyReleased`: on a link that loses nothing, with an RTO above the round trip and fair receivers, packet 0 is never released. Its first ACK is counted as a duplicate (`lastACKSeq` starts at 0), A's Recv drops every later copy, and after MaxRetries the slot is emptied and the cumulative advance stalls for good. |
| `arq_admission` | violation | `SendAdmitsBelowCwnd`: Send refuses a packet with fewer than cwnd in flight. The admission test caps in-flight packets near WindowSize/2. |
| `arq_wrap` | violation | `NoAckedAtBase`: once nextSeq wraps, `sendBase < nextSeq` stops the cumulative advance with an ACKed slot at the base. |
| `tcp_framing` | pass | `StreamRefinement`: TCPRecv implements FrameStream under every split of reads, with and without deadlines. Without deadlines the i-th call returns frame i or an error for a corrupt frame. With them, a read error can leave the reader inside a frame, and the code can then return a frame nobody wrote (`Forged`). Written frames that are returned are still intact and in stream order. `ReaderDrains`: without deadlines every written frame is eventually answered by a call, and after the peer closes the caller eventually gets EOF. |
| `tcp_resume` | violation | `IdleAtFrameBoundary`: a deadline mid-frame drops the bytes read and resets to Idle, unlike the spec's "resume mid-frame". |
| `frag_roundtrip` | pass | `FragmentPacketCorrect`: the split matches spec §4.4 for every size and MTU in range. `ReassembledIsSent`: every emitted packet is a sent payload, byte for byte. |
| `frag_small_mtu` | violation | `WholeFitsMTU`: an MTU of 27 or less wraps `mtu - 28`, FragmentPacket says the payload fits, and it goes out whole in a datagram larger than the MTU. |
| `frag_overrun` | violation | `NoSlotOverrun`: `total_frags` > 256 on the wire makes AddFragment index the 256-slot array out of range. |
| `key_lifecycle` | pass | `ZeroKeyOnlyByRace`: a zero or torn key reaches the wire only through an Encrypt that copied the slice before a Shutdown began. The nil reset and the checks keep later Sends off the zeroed buffer. `ZeroKeyOpenedOnlyByRace`: a packet sealed with zero bytes is opened only by a Decrypt that also copied the slice before a Shutdown began. A receiver of a later session never accepts it. |
| `codec_crc` | pass | `CRCMatchesReference`: the table-driven CRC takes the register through the same values as the bitwise reference at every byte of every sent or corrupted frame. `OnlyIntactAccepted`: Deserialize accepts a frame exactly when no bit was flipped, and then returns the stamped header with the reserved word zero and the sent payload. A payload too long for Serialize, whose uint16 length wraps, never reaches the wire. |
| `key_race` | violation | `SealedUnderSetKey`: that race exists, so a packet can be sealed with a zeroed or torn key. |

Every property of a pass run has a mutant in `PROJECT.json`, a plausible bug in the mapped code that TLC must catch. Deadlock checking is off where the system really stops:
- the ARQ after `MaxSends` sends with nothing left in flight;
- the TCP reader after EOF or its call bound;
- the fragment receiver once the wire holds nothing new.

KeySlot checks for deadlock.

## 4. Bounds

- **ARQ.** The safety runs allow loss and any timeout (`LinkLoses = TRUE`, `RTOAboveRTT = FALSE`). WindowSize 3 (code: 32), InitialCwnd 2, MaxCwnd 3, MaxRetries 1, SeqModulus 12 and MaxSends 4 (pass run, so no wrap and the properties can read seqs as naturals). The wrap run uses SeqModulus 6 and MaxSends 7. These keep the code's relations: MaxCwnd = WindowSize, SeqModulus a multiple of WindowSize, InitialCwnd < MaxCwnd. A window of 3 is the smallest in which reordering, gaps, cumulative advance across two slots and the admission cap all occur.
- **TCP.** The header scales to 2 bytes and the CRC to 1. Payload lengths {0, 2} give every read split, an empty payload, and misaligned parses landing both on and off boundaries. There are 3 frames. The pass run allows 4 calls and the `tcp_resume` run 5.
- **Fragment.** Header 24 and CRC 4 are real. MTUs 27–31 cover underflow, zero and 1–3-byte fragments. 256 scales to 3, uint16 to 8 and uint to 64. Payload sizes reach 1, 2 and 3 fragments and the too-many case.
- **Codec.** The real 24-byte header and 4-byte CRC. Three headers: the spec's round-trip scenario header, which sets every field the way a direct caller of Serialize may; a Send header for TCP data; and an ACK header. Serialize's limit scales from 65535 to 3, and the uint16 cast of `part_001` wraps at 4. The payloads are "test" (one byte over the limit), "tes", one byte and empty. One bit flipped anywhere in a frame of up to 31 bytes reaches every field, the payload and the trailer. A single flip is the case a CRC must always detect.
- **KeySlot.** The pass run has one Sender, one Receiver, two keys and two buffers, with symmetry over the keys. This is enough for a key change during an Encrypt or a Decrypt, and for Shutdown, re-Init and a new key while either is in flight. A second Sender only repeats the first one's interleavings with the slot. With it the run grows from about 150 thousand states to 6 million. The violation run keeps two Senders.

## 5. Fairness

`ReaderDrains` is the only liveness property. TCPRecv's spec assumes weak fairness of the reader's steps (`IdleStep`, `ReadChunk`, `ReadEOF`, `HeaderDone`, `PayloadDone`, `CRCDone`, `ReadyStep`), and of nothing else. The code justifies it: readExact blocks in `fd.Read` until bytes or EOF arrive, and a caller such as the demo server (`examples/tcp-server/main.go`) calls TCPRecv in a loop. The peer's writes and close, and deadlines firing, get no fairness: a peer may stop writing, and a deadline may never fire. That is why the property assumes no deadlines. With deadlines, a deadline may fire on every call.

`SentEventuallyReleased` (ARQ) is checked under `LossFreeSpec`, with weak fairness on these steps:
- the expiry of each window slot (`TimeoutAt(i)`): the driver calls ProcessTimeouts periodically (spec §7), and an outstanding slot ages past any finite RTO;
- B's and A's receipt of each datagram on the link, and A's ProcessACK: the drivers loop on Recv.

Loss and Sends get none. The run sets `LinkLoses = FALSE` and `RTOAboveRTT = TRUE`, the conditions under which the spec promises that nothing stalls. A liveness property for the lossy runs (every outstanding slot is eventually resolved) was tried on the `arq_safety` state space. It needs 8 minutes and only restates the retry bound, so it is not part of the project.

## 6. Not modelled

- WriteToUDP errors.
- Recv's wrong-address and non-reliable branches.
- The data race on `crc32TableInit` in initCRC32Table. The table is a constant in the model.
- The timestamp's `SafeInt64ToUint32`. The timestamp is a fixed in-memory value in the headers, and Serialize zeroes it.
- zlib.
- The exponential backoff that ProcessTimeouts computes into `backoffRTO` and then discards. Retry spacing is time, which is abstracted.
- Socket I/O, MTU discovery and socket options.
- The demos. Spec §1 puts them out of scope. Each library call they make is modelled in its own component. Their own concurrency is left out: the echo server's clients map, its ticker and echo goroutines sending on one conn (TCPSend writes a frame in one `conn.Write`), and the encrypted client's two receivers on one signal channel.
- The other `Safe*` conversions of `core/common.go`. Nothing calls them except `SafeInt64ToUint32` (see above). `SafeIntToUint16` is modelled in Codec.
- NewConfig. Nothing reads `config`: it is marked TODO in `part_000`.
- The RTT estimator (`updateRTT`, the sample in ProcessACK). The model has no clock, so its values could only be nondeterministic ghost state: they would multiply the ARQ state space and decide nothing, because which slots may expire is already left open.
- Send's burned sequence number. When Serialize fails, Send has already incremented `nextSeq`. The ARQ model has no payload sizes, so its Send always serializes; the resulting stall is listed as a hazard.

## 7. Plan for the remaining work

1. **ARQ.** The ACK echo storm as a liveness property (the links never fall quiet on a loss-free link). A WriteToUDP error mid-scan is covered by loss plus a smaller expired set, so it needs no action of its own.
2. **Send pipeline.** The compression decision and the UDP dispatch. Header construction and stamping are in Codec, the lifecycle and encryption in KeySlot.
3. **Fragmenter.** Two packets under one key, since Send stamps Seq = 0. The uint16 PayloadLen truncation in Assemble.
