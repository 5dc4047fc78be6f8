----------------------------- MODULE FrameStream -----------------------------
(***************************************************************************)
(* What a TCPRecv caller is promised about the byte stream a peer writes  *)
(* with TCPSend (spec sections 4.5 and 7): the stream is a queue of        *)
(* frames, each intact or corrupt, and every call returns one result.     *)
(*                                                                         *)
(* Without read deadlines (lossy = FALSE) the i-th call returns frame i   *)
(* when it is intact and an error when it is not, and io.EOF only after   *)
(* the peer closed and every frame was returned.  With deadlines a call   *)
(* may fail at any time and frames may be lost; a call may also return   *)
(* Forged, a frame the peer never wrote (bytes inside a frame that happen *)
(* to pass Deserialize).  A written frame that is returned is intact and  *)
(* comes after every written frame returned before it, and EOF still      *)
(* needs a closed peer.  After EOF the caller stops.                      *)
(***************************************************************************)
EXTENDS Naturals, Sequences, SequencesExt

CONSTANTS
    MaxFrames,  \* bound: frames the peer writes
    Err, EOF,   \* model values: a call that returns an error / io.EOF
    Forged      \* model value: a call that returns a frame nobody wrote

VARIABLES
    stream,      \* the frames written so far: TRUE = intact, FALSE = corrupt
    peerClosed,  \* the peer has closed its side
    results,     \* what each call returned: a frame index, Err or EOF
    lossy        \* the caller sets read deadlines on this connection

vars == <<stream, peerClosed, results, lossy>>

\* Calls that returned a frame or an error (EOF is the last call).
Calls == Len(SelectSeq(results, LAMBDA r : r # EOF))

\* The frames returned, in call order, and the last of them.
Returned == SelectSeq(results, LAMBDA r : r \notin {Err, EOF, Forged})
LastReturned == IF Returned = <<>> THEN 0 ELSE Last(Returned)

Ended == EOF \in ToSet(results)

Verdict(k) == IF stream[k] THEN k ELSE Err

-----------------------------------------------------------------------------
Init ==
    /\ stream = <<>> /\ peerClosed = FALSE /\ results = <<>>
    /\ lossy \in BOOLEAN

Write ==
    /\ ~peerClosed /\ Len(stream) < MaxFrames
    /\ \E ok \in BOOLEAN : stream' = Append(stream, ok)
    /\ UNCHANGED <<peerClosed, results, lossy>>

Close ==
    /\ ~peerClosed /\ peerClosed' = TRUE
    /\ UNCHANGED <<stream, results, lossy>>

\* A call returns the verdict on the next frame of the stream.
NextFrame ==
    /\ ~lossy /\ ~Ended /\ Calls < Len(stream)
    /\ results' = Append(results, Verdict(Calls + 1))
    /\ UNCHANGED <<stream, peerClosed, lossy>>

\* A call returns EOF: the peer closed, and (without deadlines) every frame was returned.
Drained ==
    /\ ~Ended /\ peerClosed /\ (lossy \/ Calls = Len(stream))
    /\ results' = Append(results, EOF)
    /\ UNCHANGED <<stream, peerClosed, lossy>>

\* With deadlines: a call returns an intact frame later than the last one returned ...
LaterFrame ==
    /\ lossy /\ ~Ended
    /\ \E k \in LastReturned + 1 .. Len(stream) :
          stream[k] /\ results' = Append(results, k)
    /\ UNCHANGED <<stream, peerClosed, lossy>>

\* ... or fails, or returns a frame nobody wrote.
Failed ==
    /\ lossy /\ ~Ended
    /\ \E r \in {Err, Forged} : results' = Append(results, r)
    /\ UNCHANGED <<stream, peerClosed, lossy>>

Next == Write \/ Close \/ NextFrame \/ Drained \/ LaterFrame \/ Failed

Spec == Init /\ [][Next]_vars

=============================================================================
