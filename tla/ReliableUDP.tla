---------------------------- MODULE ReliableUDP ----------------------------
(***************************************************************************)
(* Selective-repeat ARQ over UDP (transport/udp_mtu_linux.go, the         *)
(* ReliableContext).  Data flows from peer A to peer B.  Each peer owns    *)
(* one ReliableContext bound to the other; A uses its send half (Send,     *)
(* ProcessACK, ProcessTimeouts) and, because ACK packets carry            *)
(* FlagReliable, also its receive half: every ACK reaches A through        *)
(* ctx.Recv() before A's driver can hand its seq to ProcessACK.  B uses    *)
(* its receive half only; B's ProcessACK on an ACK packet sees an empty    *)
(* send window and changes nothing, so it is left out.                     *)
(*                                                                         *)
(* UDP may lose and reorder: the datagrams in flight are a set, a receive  *)
(* takes any one of them, Lose drops any one.  Duplicates reach the peers  *)
(* through the code's own resends (timeouts, fast retransmit, the ACK for  *)
(* every reliable packet, ACK echoes).  Wall-clock time is abstracted: ProcessTimeouts may find    *)
(* any subset of the outstanding slots expired, which covers every RTO     *)
(* the RTT estimator can produce, so SRTT/RTTVar/SentAt are not state.     *)
(***************************************************************************)
EXTENDS Naturals, Sequences, FiniteSets, SequencesExt

CONSTANTS
    WindowSize,              \* WindowSize = 32 in the code
    InitialCwnd,             \* InitialCwnd = 4
    MaxCwnd,                 \* MaxCwnd = 32
    MaxRetries,              \* MaxRetries = 5
    FastRetransmitThreshold, \* FastRetransmitThreshold = 3
    SeqModulus,              \* uint32 sequence arithmetic: 2^32 in the code
    MaxSends,                \* model bound: successful Sends
    LinkLoses,               \* fault model: UDP may lose datagrams
    RTOAboveRTT,             \* timing: the RTO exceeds the round trip
    None                     \* model value: A's driver holds no ACK

ASSUME /\ WindowSize \in Nat \ {0}
       /\ SeqModulus % WindowSize = 0 /\ SeqModulus >= 2 * WindowSize
       /\ InitialCwnd \in 2..MaxCwnd /\ MaxCwnd = WindowSize
       /\ MaxRetries \in Nat /\ FastRetransmitThreshold \in Nat \ {0}
       /\ MaxSends \in Nat /\ LinkLoses \in BOOLEAN /\ RTOAboveRTT \in BOOLEAN

VARIABLES
    \* A's send half
    sendWindow, sendBase, nextSeq, cwnd, ssthresh, inSlowStart,
    dupACKCount, lastACKSeq,
    \* A's receive half (sees the ACKs) and A's driver between Recv and ProcessACK
    aRecvBase, aRecvWindow, aPending,
    \* B's receive half
    recvBase, recvWindow,
    \* datagrams in flight towards B and towards A
    toB, toA,
    \* history: successful Sends, and the data seqs B's Recv returned, in order
    sends, delivered

senderVars == <<sendWindow, sendBase, nextSeq, cwnd, ssthresh, inSlowStart,
                dupACKCount, lastACKSeq>>
aRecvVars  == <<aRecvBase, aRecvWindow, aPending>>
bRecvVars  == <<recvBase, recvWindow>>
vars == <<senderVars, aRecvVars, bRecvVars, toB, toA, sends, delivered>>

Seqs == 0 .. SeqModulus - 1
SlotStates == {"Empty", "Sent", "ACKed", "Retransmit"}
Slot == [state : SlotStates, seq : Seqs, retry : 0 .. MaxRetries]
Msg == [kind : {"DATA", "ACK"}, seq : Seqs]
Indices == 0 .. WindowSize - 1

\* uint32 addition and subtraction
Add(a, b) == (a + b) % SeqModulus
Sub(a, b) == (a - b + SeqModulus) % SeqModulus

getWindowIndex(seq) == seq % WindowSize

\* isInSendWindow / isInRecvWindow: the same test on a different base
InWindow(base, seq) ==
    LET end == Add(base, WindowSize) IN
    \/ base <= seq /\ seq < end
    \/ end < base /\ (seq >= base \/ seq < end)

EmptySlot == [state |-> "Empty", seq |-> 0, retry |-> 0]
Data(s) == [kind |-> "DATA", seq |-> s]
Ack(s)  == [kind |-> "ACK", seq |-> s]

-----------------------------------------------------------------------------
(* The receive half of Recv: window test, duplicate test, mark, and the   *)
(* cumulative advance when the packet is the one at recvBase.             *)

(* Mutant: the advance steps over the received packet once and forgets   *)
(* to clear its bit.                                                      *)
AdvanceRecvNoClear(b, w) ==
    IF w[getWindowIndex(b)] THEN [base |-> Add(b, 1), window |-> w]
    ELSE [base |-> b, window |-> w]

RECURSIVE AdvanceRecv(_, _)
AdvanceRecv(b, w) ==
    IF w[getWindowIndex(b)]
    THEN AdvanceRecv(Add(b, 1), [w EXCEPT ![getWindowIndex(b)] = FALSE])
    ELSE [base |-> b, window |-> w]

(* Mutant of RecvStep: a packet whose bit is already set is accepted.     *)
RecvStepNoDupCheck(base, window, seq) ==
    IF ~InWindow(base, seq)
    THEN [accept |-> FALSE, base |-> base, window |-> window]
    ELSE LET w == [window EXCEPT ![getWindowIndex(seq)] = TRUE]
             r == IF seq = base THEN AdvanceRecv(base, w)
                  ELSE [base |-> base, window |-> w]
         IN [accept |-> TRUE, base |-> r.base, window |-> r.window]

RecvStep(base, window, seq) ==
    IF ~InWindow(base, seq) \/ window[getWindowIndex(seq)]
    THEN [accept |-> FALSE, base |-> base, window |-> window]
    ELSE LET w == [window EXCEPT ![getWindowIndex(seq)] = TRUE]
             r == IF seq = base THEN AdvanceRecv(base, w)
                  ELSE [base |-> base, window |-> w]
         IN [accept |-> TRUE, base |-> r.base, window |-> r.window]

(* The admission test of Send, in uint32 arithmetic.                      *)
SendAdmits(inflight, cw) ==
    LET avail0 == Sub(WindowSize, inflight)
        avail1 == IF avail0 > WindowSize THEN WindowSize ELSE avail0
        avail  == IF avail1 = 0 \/ avail1 > cw THEN cw ELSE avail1
    IN inflight < avail

(* updateCongestionWindow, integer division as in the code.               *)
CongestionOnAck(cw, ss, slow) ==
    IF slow
    THEN [cwnd |-> IF cw + 1 > MaxCwnd THEN MaxCwnd ELSE cw + 1,
          slow |-> ~(cw + 1 >= ss)]
    ELSE [cwnd |-> IF cw + 1 \div cw > MaxCwnd THEN MaxCwnd ELSE cw + 1 \div cw,
          slow |-> FALSE]

(* ProcessACK's loop: release ACKed slots at sendBase while sendBase <     *)
(* nextSeq (a plain, non-modular comparison).                             *)
RECURSIVE AdvanceSend(_, _, _)
AdvanceSend(b, nxt, w) ==
    IF b < nxt /\ w[getWindowIndex(b)].state = "ACKed"
    THEN AdvanceSend(Add(b, 1), nxt, [w EXCEPT ![getWindowIndex(b)] = EmptySlot])
    ELSE [base |-> b, window |-> w]

(* ProcessTimeouts applies the congestion collapse once per retransmitted *)
(* slot: ssthresh = max(cwnd/2, 2), cwnd = InitialCwnd.                   *)
\* Mutant of Collapse: ssthresh = cwnd / 2 without the floor of 2.
RECURSIVE CollapseNoFloor(_, _, _)
CollapseNoFloor(k, cw, ss) ==
    IF k = 0 THEN [cwnd |-> cw, ssthresh |-> ss]
    ELSE CollapseNoFloor(k - 1, InitialCwnd, cw \div 2)

RECURSIVE Collapse(_, _, _)
Collapse(k, cw, ss) ==
    IF k = 0 THEN [cwnd |-> cw, ssthresh |-> ss]
    ELSE Collapse(k - 1, InitialCwnd, IF cw \div 2 < 2 THEN 2 ELSE cw \div 2)

(* The seqs ProcessTimeouts visits: sendBase + i for i < windowSize,      *)
(* stopping at the first one >= nextSeq (again a plain comparison).       *)
TimeoutScan ==
    LET stops == {i \in Indices : Add(sendBase, i) >= nextSeq}
        len   == IF stops = {} THEN WindowSize ELSE Min(stops)
    IN {Add(sendBase, i) : i \in 0 .. len - 1}

-----------------------------------------------------------------------------
Init ==
    /\ sendWindow = [i \in Indices |-> EmptySlot]
    /\ sendBase = 0 /\ nextSeq = 0
    /\ cwnd = InitialCwnd /\ ssthresh = MaxCwnd /\ inSlowStart = TRUE
    /\ dupACKCount = 0 /\ lastACKSeq = 0
    /\ aRecvBase = 0 /\ aRecvWindow = [i \in Indices |-> FALSE] /\ aPending = None
    /\ recvBase = 0 /\ recvWindow = [i \in Indices |-> FALSE]
    /\ toB = {} /\ toA = {}
    /\ sends = 0 /\ delivered = <<>>

(* A: ctx.Send -- admission, seq assignment, slot store, datagram out.    *)
Send ==
    /\ sends < MaxSends
    /\ SendAdmits(Sub(nextSeq, sendBase), cwnd)
    /\ sendWindow' = [sendWindow EXCEPT ![getWindowIndex(nextSeq)] =
                        [state |-> "Sent", seq |-> nextSeq, retry |-> 0]]
    /\ nextSeq' = Add(nextSeq, 1)
    /\ toB' = toB \cup {Data(nextSeq)}
    /\ sends' = sends + 1
    /\ UNCHANGED <<sendBase, cwnd, ssthresh, inSlowStart, dupACKCount,
                   lastACKSeq, aRecvVars, bRecvVars, toA, delivered>>

(* B: ctx.Recv on a datagram m -- ACK in every branch; an accepted DATA   *)
(* packet is returned to B's caller.                                      *)
BRecv(m) ==
    LET r == RecvStep(recvBase, recvWindow, m.seq) IN
    /\ recvBase' = r.base
    /\ recvWindow' = r.window
    /\ toA' = toA \cup {Ack(m.seq)}
    /\ delivered' = IF r.accept /\ m.kind = "DATA"
                    THEN Append(delivered, m.seq) ELSE delivered
    /\ toB' = toB \ {m}
    /\ UNCHANGED <<senderVars, aRecvVars, sends>>

(* A: ctx.Recv on an ACK datagram -- the same window logic on A's receive *)
(* half; ACKs it back; an accepted packet goes to A's driver.             *)
ARecv(m) ==
    LET r == RecvStep(aRecvBase, aRecvWindow, m.seq) IN
    /\ aPending = None
    /\ aRecvBase' = r.base
    /\ aRecvWindow' = r.window
    /\ aPending' = IF r.accept THEN m.seq ELSE None
    /\ toB' = toB \cup {Ack(m.seq)}
    /\ toA' = toA \ {m}
    /\ UNCHANGED <<senderVars, bRecvVars, sends, delivered>>

(* A: ProcessACK(ackSeq), in its three outcomes.                          *)
AckIgnored(s) ==
    \/ ~InWindow(sendBase, s)
    \/ sendWindow[getWindowIndex(s)].state \in {"Empty", "ACKed"}

ProcessACKIgnore ==
    /\ aPending # None
    /\ AckIgnored(aPending)
    /\ aPending' = None
    /\ UNCHANGED <<senderVars, aRecvBase, aRecvWindow, bRecvVars, toB, toA,
                   sends, delivered>>

ProcessACKDuplicate ==
    LET s == aPending
        i == getWindowIndex(s)
        fast == dupACKCount + 1 = FastRetransmitThreshold
                /\ sendWindow[i].state = "Sent"
    IN
    /\ s # None
    /\ ~AckIgnored(s)
    /\ s = lastACKSeq
    /\ dupACKCount' = dupACKCount + 1
    /\ sendWindow' = IF fast THEN [sendWindow EXCEPT ![i].state = "Retransmit"]
                     ELSE sendWindow
    /\ toB' = IF fast THEN toB \cup {Data(sendWindow[i].seq)} ELSE toB
    /\ aPending' = None
    /\ UNCHANGED <<sendBase, nextSeq, cwnd, ssthresh, inSlowStart, lastACKSeq,
                   aRecvBase, aRecvWindow, bRecvVars, toA, sends, delivered>>

ProcessACKFresh ==
    LET s == aPending
        c == CongestionOnAck(cwnd, ssthresh, inSlowStart)
        r == AdvanceSend(sendBase, nextSeq,
                         [sendWindow EXCEPT ![getWindowIndex(s)].state = "ACKed"])
    IN
    /\ s # None
    /\ ~AckIgnored(s)
    /\ s # lastACKSeq
    /\ dupACKCount' = 0
    /\ lastACKSeq' = s
    /\ cwnd' = c.cwnd
    /\ inSlowStart' = c.slow
    /\ sendWindow' = r.window
    /\ sendBase' = r.base
    /\ aPending' = None
    /\ UNCHANGED <<nextSeq, ssthresh, aRecvBase, aRecvWindow, bRecvVars,
                   toB, toA, sends, delivered>>

(* A: ProcessTimeouts, with `expired` the visited slots whose SentAt is   *)
(* older than the RTO at this call: any outstanding slot, or, when        *)
(* RTOAboveRTT, one whose data and ACK are no longer on the way.          *)
LiveSeqs == {s \in TimeoutScan :
               sendWindow[getWindowIndex(s)].state \in {"Sent", "Retransmit"}}
RoundTrip(s) == Data(s) \in toB \/ Ack(s) \in toA \/ aPending = s
Expirable == {s \in LiveSeqs : RTOAboveRTT => ~RoundTrip(s)}

Timeout(expired) ==
    LET dropped == {s \in expired : sendWindow[getWindowIndex(s)].retry >= MaxRetries}
        resent  == expired \ dropped
        hit(S)  == {getWindowIndex(s) : s \in S}
        c == Collapse(Cardinality(resent), cwnd, ssthresh)
    IN
    /\ expired # {} /\ expired \subseteq Expirable
    /\ sendWindow' = [i \in Indices |->
                        IF i \in hit(dropped)
                        THEN [sendWindow[i] EXCEPT !.state = "Empty"]
                        ELSE IF i \in hit(resent)
                        THEN [sendWindow[i] EXCEPT !.state = "Retransmit",
                                                   !.retry = @ + 1]
                        ELSE sendWindow[i]]
    /\ cwnd' = c.cwnd
    /\ ssthresh' = c.ssthresh
    /\ inSlowStart' = IF resent # {} THEN TRUE ELSE inSlowStart
    /\ toB' = toB \cup {Data(s) : s \in resent}
    /\ UNCHANGED <<sendBase, nextSeq, dupACKCount, lastACKSeq, aRecvVars,
                   bRecvVars, toA, sends, delivered>>

ProcessTimeouts == \E expired \in SUBSET Expirable : Timeout(expired)

\* A ProcessTimeouts call that finds the packet in window slot i expired.
TimeoutAt(i) ==
    \E expired \in SUBSET Expirable :
        (\E s \in expired : getWindowIndex(s) = i) /\ Timeout(expired)

(* UDP loses a datagram.                                                  *)
Lose ==
    \/ \E m \in toB : toB' = toB \ {m} /\ UNCHANGED toA
    \/ \E m \in toA : toA' = toA \ {m} /\ UNCHANGED toB

LoseStep == LinkLoses /\ Lose /\ UNCHANGED <<senderVars, aRecvVars, bRecvVars, sends, delivered>>

Next ==
    \/ Send
    \/ \E m \in toB : BRecv(m)
    \/ \E m \in toA : ARecv(m)
    \/ ProcessACKIgnore
    \/ ProcessACKDuplicate
    \/ ProcessACKFresh
    \/ ProcessTimeouts
    \/ LoseStep

Spec == Init /\ [][Next]_vars

(* Fairness.  A's driver calls ProcessTimeouts periodically (spec 7), and *)
(* a slot that stays outstanding ages past any finite RTO, so a call      *)
(* eventually finds it expired.  B's driver loops on Recv, A's driver on  *)
(* Recv and ProcessACK, so a datagram that stays on a link is eventually  *)
(* received.  Loss (LoseStep) and the application's Sends get no fairness. *)
TimeoutFairness == \A i \in Indices : WF_vars(TimeoutAt(i))
DeliveryFairness ==
    /\ \A m \in Msg : WF_vars(BRecv(m) /\ m \in toB) /\ WF_vars(ARecv(m) /\ m \in toA)
    /\ WF_vars(ProcessACKIgnore \/ ProcessACKDuplicate \/ ProcessACKFresh)

LossFreeSpec == Spec /\ TimeoutFairness /\ DeliveryFairness

-----------------------------------------------------------------------------
TypeOK ==
    /\ sendWindow \in [Indices -> Slot]
    /\ {sendBase, nextSeq, lastACKSeq, aRecvBase, recvBase} \subseteq Seqs
    /\ cwnd \in 1 .. MaxCwnd /\ ssthresh \in 2 .. MaxCwnd
    /\ inSlowStart \in BOOLEAN /\ dupACKCount \in Nat
    /\ aRecvWindow \in [Indices -> BOOLEAN] /\ recvWindow \in [Indices -> BOOLEAN]
    /\ aPending \in Seqs \cup {None}
    /\ toB \subseteq Msg /\ toA \subseteq Msg
    /\ sends \in 0 .. MaxSends /\ delivered \in Seq(Seqs)

(* The properties below read sequence numbers as plain naturals: they are *)
(* checked with MaxSends < SeqModulus, where no counter wraps.            *)

\* Everything A regards as acknowledged: released below sendBase, or ACKed.
AckedBySender ==
    (0 .. sendBase - 1) \cup {sendWindow[i].seq : i \in {j \in Indices : sendWindow[j].state = "ACKed"}}

(* B's receive bitmap (Recv, the advance loop at recvBase) marks exactly  *)
(* the delivered seqs inside [recvBase, recvBase + WindowSize): the ACK    *)
(* echoes A sends back never mark a slot B has not delivered data for.     *)
BitmapMatchesDelivered ==
    \A i \in Indices :
        recvWindow[i] <=> \E s \in ToSet(delivered) :
                              getWindowIndex(s) = i /\ InWindow(recvBase, s)

(* Send is refused only when the window or cwnd is exhausted (spec 4.6:   *)
(* available = min(WINDOW - inflight, cwnd)).                             *)
SendAdmitsBelowCwnd ==
    LET f == Sub(nextSeq, sendBase) IN
    f < cwnd /\ f < WindowSize => SendAdmits(f, cwnd)

(* ProcessACK's cumulative advance leaves no ACKed slot at sendBase, also *)
(* across the wrap of the uint32 sequence space.                          *)
NoAckedAtBase == sendWindow[getWindowIndex(sendBase)].state # "ACKed"

(* The layer implements the abstract channel of ARQChannel: B's Recv     *)
(* returns only packets A sent, each at most once -- retransmissions,     *)
(* duplicates and ACK echoes never hand the caller a packet twice -- and  *)
(* A's acknowledged set (released or ACKed) only grows, one packet at a   *)
(* time, by packets B returned.                                           *)
Channel == INSTANCE ARQChannel WITH sent <- sends, delivered <- delivered,
                                    acked <- AckedBySender
ChannelRefined == Channel!Spec

(* On a link that loses nothing, every packet A sends is eventually       *)
(* acknowledged and released by ProcessACK's cumulative advance (spec 7: *)
(* only retry exhaustion, i.e. packet loss, stalls the advance).          *)
SentEventuallyReleased ==
    \A s \in 0 .. MaxSends - 1 : (nextSeq > s) ~> (sendBase > s)

=============================================================================
