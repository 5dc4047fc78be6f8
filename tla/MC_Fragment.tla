----------------------------- MODULE MC_Fragment -----------------------------
(* TLC instance of Fragment.  Header and CRC keep their real sizes, so    *)
(* the MTUs around 28 reach every branch of FragmentPacket with payloads   *)
(* of a few bytes; 256 fragments (and the 256-slot array) scale to 3,      *)
(* uint16 to 2^3 and uint to 2^6.                                          *)
EXTENDS Fragment
=============================================================================
