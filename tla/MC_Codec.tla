------------------------------ MODULE MC_Codec ------------------------------
(* TLC instance of Codec.  Three headers reach Serialize: the header of    *)
(* the spec's round-trip scenario (section 8, scenario 1), which sets     *)
(* every field as a direct caller of Serialize may; a header of Send for  *)
(* a TCP data packet; and an ACK header as sendACK builds it.  Each has a *)
(* timestamp stamped in memory.  Serialize's limit is scaled from 65535   *)
(* to 3, so the payload "test" is one byte too long (its uint16 length    *)
(* wraps to 0) while "tes", one byte and empty are sent.  One flipped bit *)
(* per frame reaches every bit of every field.                             *)
EXTENDS Codec

Now == [hi |-> 26000, lo |-> 1234]

MCHeaders ==
    { [NewPacketHeader(Now) EXCEPT !.opcode = OpData, !.proto = ProtoTCP,
                                   !.streamID = [hi |-> 4660, lo |-> 22136],
                                   !.seq = [hi |-> 34661, lo |-> 17185],
                                   !.fragID = 4369, !.totalFrags = 8738],
      SendHeader(Now, [hi |-> 0, lo |-> 1], OpData, ProtoTCP, 0),
      ACKHeader(Now, [hi |-> 0, lo |-> 7]) }

MCPayloads == { <<116, 101, 115, 116>>, <<116, 101, 115>>, <<0>>, <<>> }
=============================================================================
