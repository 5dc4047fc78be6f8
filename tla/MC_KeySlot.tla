----------------------------- MODULE MC_KeySlot -----------------------------
(* TLC instance of KeySlot: a Sender and a Receiver running concurrently, two keys  *)
(* and two buffers let a key be replaced, a session end and a new one     *)
(* start while Encrypts and Decrypts are in flight.  Keys and Senders are *)
(* interchangeable model values, so their permutations are a symmetry.   *)
EXTENDS KeySlot, TLC

MCSymmetry == Permutations(Keys) \cup Permutations(Senders)
=============================================================================
