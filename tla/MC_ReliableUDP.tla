--------------------------- MODULE MC_ReliableUDP ---------------------------
(* TLC instance of ReliableUDP.  The code's window of 32, initial cwnd 4   *)
(* and 2^32 sequence space are scaled down in the .cfg files, keeping      *)
(* MaxCwnd = WindowSize and SeqModulus a multiple of WindowSize.           *)
EXTENDS ReliableUDP

=============================================================================
