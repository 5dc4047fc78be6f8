------------------------------ MODULE TCPRecv ------------------------------
(***************************************************************************)
(* The TCP receive state machine of transport/tcp.go (TCPRecv with        *)
(* readExact) reading the byte stream a peer writes with TCPSend.         *)
(*                                                                         *)
(* A frame on the stream is header (HeaderSize) | payload (len) | CRC     *)
(* (CRCSize).  Bytes are not values here: the stream is the sequence of   *)
(* frames the peer wrote, the reader's position is a byte offset into it, *)
(* and the header the reader parses is the frame that starts where its    *)
(* buffer started, or garbage when that offset is not a frame boundary.   *)
(* conn.mu serialises TCPRecv calls, so one reader covers every caller;   *)
(* each fd.Read inside readExact is one step, because the peer's writes    *)
(* and a read deadline can interleave with it.                            *)
(***************************************************************************)
EXTENDS Naturals, Sequences, SequencesExt

CONSTANTS
    HeaderSize,      \* core.HeaderSize = 24
    CRCSize,         \* the 4-byte CRC32 trailer
    PayloadLens,     \* payload_len values a frame (or a misread header) holds
    MaxFrames,       \* model bound: frames the peer writes
    MaxCalls,        \* model bound: TCPRecv calls
    Err, EOF,        \* model values: a call returning an error / io.EOF
    Forged           \* model value: a frame Deserialize parsed from bytes inside a frame

ASSUME /\ HeaderSize \in Nat \ {0} /\ CRCSize \in Nat \ {0}
       /\ PayloadLens \subseteq Nat /\ PayloadLens # {}
       /\ MaxFrames \in Nat /\ MaxCalls \in Nat

VARIABLES
    frames,         \* frames the peer has written: [len, ok]; ok = FALSE fails Deserialize
    closed,         \* the peer has closed its side
    pos,            \* bytes the reader has taken off the stream
    recvState,      \* conn.recvState
    recvBytesRead,  \* conn.recvBytesRead
    bufStart,       \* stream offset where conn.recvBuffer's frame starts
    payloadLen,     \* payload_len parsed from recvBuffer[18:20]
    partial,        \* totalRead of the readExact call in progress
    returned,       \* results of TCPRecv calls: a frame index, Err or EOF
    deadlines       \* the caller sets read deadlines, so an fd.Read may time out

vars == <<frames, closed, pos, recvState, recvBytesRead, bufStart, payloadLen,
          partial, returned, deadlines>>

States == {"Idle", "ReadingHeader", "ReadingPayload", "ReadingCRC", "Ready"}
Frame == [len : PayloadLens, ok : BOOLEAN]

FrameSize(f) == HeaderSize + f.len + CRCSize

\* Stream offset of frame k (k = Len(frames) + 1 is the end of the stream).
RECURSIVE FrameStart(_)
FrameStart(k) == IF k = 1 THEN 0 ELSE FrameStart(k - 1) + FrameSize(frames[k - 1])

StreamLen == FrameStart(Len(frames) + 1)

\* The frame whose header starts at offset p, or 0 if p is not a boundary.
FrameAt(p) ==
    IF \E k \in 1 .. Len(frames) : FrameStart(k) = p
    THEN CHOOSE k \in 1 .. Len(frames) : FrameStart(k) = p
    ELSE 0

\* Mutant of Target: crcEnd taken as crcStart, the CRC trailer never read.
TargetNoCRC(st) ==
    CASE st = "ReadingHeader"  -> HeaderSize
      [] st = "ReadingPayload" -> HeaderSize + payloadLen
      [] st = "ReadingCRC"     -> HeaderSize + payloadLen

\* The offset recvBytesRead must reach in each reading state.
Target(st) ==
    CASE st = "ReadingHeader"  -> HeaderSize
      [] st = "ReadingPayload" -> HeaderSize + payloadLen
      [] st = "ReadingCRC"     -> HeaderSize + payloadLen + CRCSize

Reading == recvState \in {"ReadingHeader", "ReadingPayload", "ReadingCRC"}
Need == Target(recvState) - recvBytesRead

(* What core.Deserialize can return on the buffered bytes.  A buffer at a *)
(* frame boundary holds the frame as the peer wrote it: that frame, or an *)
(* error when the frame is corrupt.  A buffer that starts inside a frame  *)
(* holds whatever bytes are there: Deserialize checks only magic,         *)
(* version, length and CRC, so it fails, or accepts bytes that happen to  *)
(* form a valid frame (a payload carrying a serialized frame) -- a frame  *)
(* the peer never wrote.                                                  *)
DeserializeResults ==
    IF FrameAt(bufStart) # 0
    THEN {IF frames[FrameAt(bufStart)].ok THEN FrameAt(bufStart) ELSE Err}
    ELSE {Err, Forged}

-----------------------------------------------------------------------------
Init ==
    /\ frames = <<>> /\ closed = FALSE /\ pos = 0
    /\ recvState = "Idle" /\ recvBytesRead = 0 /\ bufStart = 0 /\ payloadLen = 0
    /\ partial = 0 /\ returned = <<>> /\ deadlines \in BOOLEAN

(* Peer: TCPSend serialises a frame and writes it whole (net.Conn writes  *)
(* of one call are not interleaved with other writers).                   *)
PeerWrite ==
    /\ ~closed /\ Len(frames) < MaxFrames
    /\ \E f \in Frame : frames' = Append(frames, f)
    /\ UNCHANGED <<closed, pos, recvState, recvBytesRead, bufStart, payloadLen,
                   partial, returned, deadlines>>

PeerClose ==
    /\ ~closed /\ closed' = TRUE
    /\ UNCHANGED <<frames, pos, recvState, recvBytesRead, bufStart, payloadLen,
                   partial, returned, deadlines>>

(* A call starts in StateIdle (every return leaves Idle): a fresh         *)
(* HeaderSize buffer, recvBytesRead = 0.  The caller stops after EOF.      *)
IdleStep ==
    /\ recvState = "Idle"
    /\ Len(returned) < MaxCalls /\ EOF \notin ToSet(returned)
    /\ recvState' = "ReadingHeader" /\ recvBytesRead' = 0 /\ bufStart' = pos
    /\ UNCHANGED <<frames, closed, pos, payloadLen, partial, returned, deadlines>>

\* Mutant of ReadChunk: fd.Read(buf) instead of fd.Read(buf[totalRead:]).
ReadChunkWholeBuf ==
    /\ Reading /\ partial < Need
    /\ \E n \in 1 .. Need :
          /\ pos + n <= StreamLen
          /\ pos' = pos + n /\ partial' = partial + n
    /\ UNCHANGED <<frames, closed, recvState, recvBytesRead, bufStart, payloadLen,
                   returned, deadlines>>

(* One fd.Read inside readExact returning n > 0 bytes.                    *)
ReadChunk ==
    /\ Reading /\ partial < Need
    /\ \E n \in 1 .. Need - partial :
          /\ pos + n <= StreamLen
          /\ pos' = pos + n /\ partial' = partial + n
    /\ UNCHANGED <<frames, closed, recvState, recvBytesRead, bufStart, payloadLen,
                   returned, deadlines>>

(* fd.Read fails (deadline exceeded) or hits EOF: readExact returns the   *)
(* error, the bytes it already read are dropped, the state goes to Idle.  *)
ReadFail(result) ==
    /\ Reading /\ partial < Need
    /\ recvState' = "Idle" /\ partial' = 0
    /\ returned' = Append(returned, result)
    /\ UNCHANGED <<frames, closed, pos, recvBytesRead, bufStart, payloadLen, deadlines>>

ReadTimeout == deadlines /\ ReadFail(Err)

ReadEOF == closed /\ pos = StreamLen /\ ReadFail(EOF)

(* StateReadingHeader after readExact: parse payload_len, grow the buffer. *)
HeaderDone ==
    /\ recvState = "ReadingHeader" /\ partial = Need
    /\ IF FrameAt(bufStart) # 0
       THEN payloadLen' = frames[FrameAt(bufStart)].len
       ELSE payloadLen' \in PayloadLens
    /\ recvBytesRead' = HeaderSize /\ recvState' = "ReadingPayload" /\ partial' = 0
    /\ UNCHANGED <<frames, closed, pos, bufStart, returned, deadlines>>

\* Mutant of PayloadDone: the state moves on only inside `if remaining > 0`.
PayloadDoneOnRead ==
    /\ recvState = "ReadingPayload" /\ partial = Need /\ payloadLen > 0
    /\ recvBytesRead' = HeaderSize + payloadLen
    /\ recvState' = "ReadingCRC" /\ partial' = 0
    /\ UNCHANGED <<frames, closed, pos, bufStart, payloadLen, returned, deadlines>>

(* StateReadingPayload / StateReadingCRC once their bytes are in.         *)
PayloadDone ==
    /\ recvState = "ReadingPayload" /\ partial = Need
    /\ recvBytesRead' = HeaderSize + payloadLen
    /\ recvState' = "ReadingCRC" /\ partial' = 0
    /\ UNCHANGED <<frames, closed, pos, bufStart, payloadLen, returned, deadlines>>

CRCDone ==
    /\ recvState = "ReadingCRC" /\ partial = Need
    /\ recvBytesRead' = HeaderSize + payloadLen + CRCSize
    /\ recvState' = "Ready" /\ partial' = 0
    /\ UNCHANGED <<frames, closed, pos, bufStart, payloadLen, returned, deadlines>>

(* StateReady: Deserialize; either way back to Idle and return (the error *)
(* path leaves recvBytesRead, which the next Idle step resets).            *)
ReadyStep ==
    /\ recvState = "Ready"
    /\ \E r \in DeserializeResults :
          /\ returned' = Append(returned, r)
          /\ recvBytesRead' = IF r = Err THEN recvBytesRead ELSE 0
    /\ recvState' = "Idle"
    /\ UNCHANGED <<frames, closed, pos, bufStart, payloadLen, partial, deadlines>>

Next ==
    \/ PeerWrite \/ PeerClose
    \/ IdleStep \/ ReadChunk \/ ReadTimeout \/ ReadEOF
    \/ HeaderDone \/ PayloadDone \/ CRCDone \/ ReadyStep

(* readExact blocks until the peer's bytes (or EOF) are there, and the    *)
(* TCPRecv loop runs its states without waiting: those steps are weakly  *)
(* fair.  IdleStep is the caller calling TCPRecv again, as the receive    *)
(* loops of the demo programs do.  The peer and the deadline are not fair. *)
Fairness ==
    /\ WF_vars(IdleStep) /\ WF_vars(ReadChunk) /\ WF_vars(ReadEOF)
    /\ WF_vars(HeaderDone) /\ WF_vars(PayloadDone) /\ WF_vars(CRCDone)
    /\ WF_vars(ReadyStep)

Spec == Init /\ [][Next]_vars /\ Fairness

-----------------------------------------------------------------------------
TypeOK ==
    /\ frames \in Seq(Frame) /\ closed \in BOOLEAN
    /\ pos \in Nat /\ pos <= StreamLen
    /\ recvState \in States /\ recvBytesRead \in Nat /\ bufStart \in Nat
    /\ payloadLen \in PayloadLens \cup {0}
    /\ partial \in 0 .. (IF Reading THEN Need ELSE 0)   \* totalRead <= len(buf)
    /\ returned \in Seq(Nat \cup {Err, EOF, Forged}) /\ deadlines \in BOOLEAN

(* The abstract frame stream, seen through the reader: a frame is its     *)
(* Deserialize verdict, the results are what the calls returned.          *)
FS == INSTANCE FrameStream
        WITH stream <- [k \in DOMAIN frames |-> frames[k].ok],
             peerClosed <- closed, results <- returned, lossy <- deadlines

(* TCPRecv implements the frame stream: without deadlines each call      *)
(* returns the next frame's verdict, so a bad CRC costs exactly its own   *)
(* frame, and EOF comes only after the last frame; with deadlines a read  *)
(* error can leave the reader inside a frame, whose bytes Deserialize may *)
(* reject or accept as a frame nobody wrote (Forged), but a written frame *)
(* that is returned is intact and later than every written frame returned *)
(* before it, and EOF still needs the peer's close.  Every split of the   *)
(* stream into fd.Read results is covered.                                *)
StreamRefinement == FS!Spec

(* Without deadlines the reader drains the stream: every frame the peer   *)
(* writes is eventually returned by a call, and once the peer has closed, *)
(* a call eventually returns EOF -- the state loop never stalls, for      *)
(* empty payloads included.                                               *)
ReaderDrains ==
    /\ \A k \in 1 .. MaxFrames :
          (~deadlines /\ Len(frames) >= k) ~> (FS!Calls >= k)
    /\ (~deadlines /\ closed) ~> (EOF \in ToSet(returned))

(* Between calls the reader is at a frame boundary: a TCPRecv that ends   *)
(* with an error loses no byte of the next frame.  (spec 5: a cancelled   *)
(* TCP receive leaves the state machine mid-frame and the next call       *)
(* resumes from that state.)                                              *)
IdleAtFrameBoundary ==
    recvState = "Idle" => (FrameAt(pos) # 0 \/ pos = StreamLen)

=============================================================================
