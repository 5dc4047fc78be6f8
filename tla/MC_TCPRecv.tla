----------------------------- MODULE MC_TCPRecv -----------------------------
(* TLC instance of TCPRecv: the 24-byte header and 4-byte CRC are scaled  *)
(* to 2 and 1 bytes; payload lengths 0..2 cover the empty payload and     *)
(* reads that split every part of a frame.                                *)
EXTENDS TCPRecv
=============================================================================
