----------------------------- MODULE ARQChannel -----------------------------
(***************************************************************************)
(* What the reliable-UDP layer promises about one direction of traffic    *)
(* (spec section 4.6 and 7), with delivery order left open as this         *)
(* version's Recv returns packets out of order: packets are numbered in    *)
(* the order they are sent; the receiver returns each sent packet at most  *)
(* once; the sender counts a packet acknowledged only after the receiver   *)
(* returned it, and never takes an acknowledgement back.                  *)
(***************************************************************************)
EXTENDS Naturals, Sequences, SequencesExt

CONSTANT MaxSends   \* bound: packets sent

VARIABLES
    sent,       \* packets 0 .. sent - 1 have been sent
    delivered,  \* the packets the receiver returned, in order of return
    acked       \* the packets the sender regards as acknowledged

vars == <<sent, delivered, acked>>

Init == sent = 0 /\ delivered = <<>> /\ acked = {}

Send ==
    /\ sent < MaxSends
    /\ sent' = sent + 1
    /\ UNCHANGED <<delivered, acked>>

Deliver(p) ==
    /\ p < sent /\ p \notin ToSet(delivered)
    /\ delivered' = Append(delivered, p)
    /\ UNCHANGED <<sent, acked>>

Acknowledge(p) ==
    /\ p \in ToSet(delivered) \ acked
    /\ acked' = acked \cup {p}
    /\ UNCHANGED <<sent, delivered>>

Next ==
    \/ Send
    \/ \E p \in 0 .. MaxSends - 1 : Deliver(p) \/ Acknowledge(p)

Spec == Init /\ [][Next]_vars

=============================================================================
