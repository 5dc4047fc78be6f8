------------------------------ MODULE KeySlot ------------------------------
(***************************************************************************)
(* The process-wide AEAD key slot of package optimize (SetEncryptionKey,   *)
(* IsEncryptionEnabled, ClearEncryptionKey, Encrypt) and the library       *)
(* lifecycle that drives it (Init, Shutdown, SetHandler and the            *)
(* encrypting path of Send in package overproto), and Decrypt as the       *)
(* application calls it on the packets the Senders put on the wire.        *)
(*                                                                         *)
(* Encrypt copies the slice header of encryptionKey under keyMutex.RLock   *)
(* and releases the lock before aes.NewCipher reads the 32 bytes; Shutdown *)
(* runs ClearEncryptionKey, which zeroes those same bytes in place under   *)
(* the write lock.  The read and the zeroing loop race (a Go data race),   *)
(* so a NewCipher that overlaps the loop may read the key, zeroes, or a    *)
(* mix; Decrypt takes the same snapshot and races the same way.  A key    *)
(* buffer is a record: the key it was filled with and how far the zeroing  *)
(* has got.  Open succeeds when the key bytes Decrypt read are the bytes   *)
(* the packet was sealed with (a torn read matches nothing).  Locks are modelled by the steps they exclude:     *)
(* while Shutdown holds mu and keyMutex, no RLock-taking step runs.         *)
(***************************************************************************)
EXTENDS Naturals, FiniteSets

CONSTANTS
    Senders,   \* goroutines calling Send with FlagEncrypted
    Receivers, \* goroutines calling Decrypt on received packets
    Keys,      \* key values SetEncryptionKey is called with
    MaxBufs,   \* model bound: key buffers SetEncryptionKey allocates
    Nil,       \* model value: encryptionKey == nil / no snapshot
    Torn, Zero \* model values: what NewCipher read of a zeroed buffer

VARIABLES
    initialized,  \* overproto.initialized
    keyRef,       \* encryptionKey: a buffer index, or Nil
    bufs,         \* key buffers: [key, zeroed \in {"no", "partial", "all"}]
    shutdown,     \* "idle", or "zeroing" while Shutdown is inside ClearEncryptionKey
    pc,           \* each Send: "idle", "checked", "enabled", "snapped", "sealed"
    snap,         \* the key slice each Encrypt copied
    sealedWith,   \* the key bytes each Encrypt's NewCipher read
    overlap,      \* history: a Shutdown began between this Encrypt's copy and its read
    wire,         \* packets handed to the transport: [key that sealed it, overlap]
    handler,      \* recvCallback # nil
    rpc,          \* each Decrypt: "idle" or "snapped"
    rsnap,        \* the key slice each Decrypt copied
    rpkt,         \* the packet each Decrypt is opening
    roverlap,     \* history: a Shutdown began between this Decrypt's copy and its read
    opened        \* packets Decrypt returned plaintext of, with its own overlap

lockVars == <<initialized, keyRef, bufs, shutdown>>
sendVars == <<pc, snap, sealedWith, overlap, wire>>
recvVars == <<rpc, rsnap, rpkt, roverlap, opened>>
vars == <<lockVars, sendVars, handler, recvVars>>

BufIds == 1 .. MaxBufs
Buf == [key : Keys, zeroed : {"no", "partial", "all"}]
Used == {b \in BufIds : bufs[b] # Nil}

\* What aes.NewCipher reads from buffer b while the zeroing loop may run.
ReadKey(b) ==
    CASE bufs[b].zeroed = "no"      -> {bufs[b].key}
      [] bufs[b].zeroed = "partial" -> {bufs[b].key, Torn, Zero}
      [] bufs[b].zeroed = "all"     -> {Zero}

-----------------------------------------------------------------------------
Init ==
    /\ initialized = FALSE /\ keyRef = Nil /\ bufs = [b \in BufIds |-> Nil]
    /\ shutdown = "idle"
    /\ pc = [s \in Senders |-> "idle"] /\ snap = [s \in Senders |-> Nil]
    /\ sealedWith = [s \in Senders |-> Nil] /\ overlap = [s \in Senders |-> FALSE]
    /\ wire = {} /\ handler = FALSE
    /\ rpc = [r \in Receivers |-> "idle"] /\ rsnap = [r \in Receivers |-> Nil]
    /\ rpkt = [r \in Receivers |-> Nil] /\ roverlap = [r \in Receivers |-> FALSE]
    /\ opened = {}

(* overproto.Init: rejects a second Init, else sets initialized.          *)
LibInit ==
    /\ shutdown = "idle" /\ ~initialized
    /\ initialized' = TRUE
    /\ UNCHANGED <<keyRef, bufs, shutdown, pc, snap, sealedWith, overlap, wire, handler, recvVars>>

(* SetEncryptionKey: a fresh 32-byte buffer, the old one left as it is.   *)
SetEncryptionKey(k) ==
    /\ shutdown = "idle" /\ Cardinality(Used) < MaxBufs
    /\ LET b == CHOOSE i \in BufIds \ Used : \A j \in BufIds \ Used : i <= j IN
       /\ bufs' = [bufs EXCEPT ![b] = [key |-> k, zeroed |-> "no"]]
       /\ keyRef' = b
    /\ UNCHANGED <<initialized, shutdown, pc, snap, sealedWith, overlap, wire, handler, recvVars>>

(* Shutdown (initialized): ClearEncryptionKey zeroes the buffer in place  *)
(* -- the loop is under way -- ...                                         *)
ShutdownBegin ==
    /\ shutdown = "idle" /\ initialized
    /\ shutdown' = "zeroing"
    /\ bufs' = IF keyRef = Nil THEN bufs ELSE [bufs EXCEPT ![keyRef].zeroed = "partial"]
    /\ overlap' = [s \in Senders |-> overlap[s] \/ pc[s] = "snapped"]
    /\ roverlap' = [r \in Receivers |-> roverlap[r] \/ rpc[r] = "snapped"]
    /\ UNCHANGED <<initialized, keyRef, pc, snap, sealedWith, wire, handler, rpc, rsnap, rpkt, opened>>

\* Mutant of ShutdownEnd: the zeroed buffer stays in encryptionKey.
ShutdownEndKeepRef ==
    /\ shutdown = "zeroing"
    /\ bufs' = IF keyRef = Nil THEN bufs ELSE [bufs EXCEPT ![keyRef].zeroed = "all"]
    /\ initialized' = FALSE /\ shutdown' = "idle" /\ handler' = FALSE
    /\ UNCHANGED <<keyRef, sendVars, recvVars>>

(* ... then the loop ends, encryptionKey = nil, initialized = false,     *)
(* recvCallback = nil, and both locks are released.                      *)
ShutdownEnd ==
    /\ shutdown = "zeroing"
    /\ bufs' = IF keyRef = Nil THEN bufs ELSE [bufs EXCEPT ![keyRef].zeroed = "all"]
    /\ keyRef' = Nil /\ initialized' = FALSE /\ shutdown' = "idle" /\ handler' = FALSE
    /\ UNCHANGED <<sendVars, recvVars>>

(* Send: the initialized check under mu.RLock (then released).            *)
SendBegin(s) ==
    /\ pc[s] = "idle" /\ shutdown = "idle"
    /\ pc' = [pc EXCEPT ![s] = IF initialized THEN "checked" ELSE "idle"]
    /\ UNCHANGED <<initialized, keyRef, bufs, shutdown, snap, sealedWith, overlap, wire, handler, recvVars>>

\* Mutant of CheckKey: no return after the check, the payload goes out as is.
CheckKeyFallThrough(s) ==
    /\ pc[s] = "checked" /\ shutdown = "idle"
    /\ pc' = [pc EXCEPT ![s] = IF keyRef # Nil THEN "enabled" ELSE "sealed"]
    /\ sealedWith' = [sealedWith EXCEPT ![s] = Nil]
    /\ UNCHANGED <<initialized, keyRef, bufs, shutdown, snap, overlap, wire, handler, recvVars>>

(* Send: IsEncryptionEnabled under keyMutex.RLock; an error ends Send.    *)
CheckKey(s) ==
    /\ pc[s] = "checked" /\ shutdown = "idle"
    /\ pc' = [pc EXCEPT ![s] = IF keyRef # Nil THEN "enabled" ELSE "idle"]
    /\ UNCHANGED <<initialized, keyRef, bufs, shutdown, snap, sealedWith, overlap, wire, handler, recvVars>>

(* Encrypt: key := encryptionKey under RLock; `key == nil` then fails.  *)
Snapshot(s) ==
    /\ pc[s] = "enabled" /\ shutdown = "idle"
    /\ snap' = [snap EXCEPT ![s] = keyRef]
    /\ overlap' = [overlap EXCEPT ![s] = FALSE]
    /\ pc' = [pc EXCEPT ![s] = IF keyRef # Nil THEN "snapped" ELSE "idle"]
    /\ UNCHANGED <<initialized, keyRef, bufs, shutdown, sealedWith, wire, handler, recvVars>>

(* Encrypt: aes.NewCipher(key) reads the 32 bytes with no lock held, then *)
(* GCM Seal with a fresh IV.                                              *)
Seal(s) ==
    /\ pc[s] = "snapped"
    /\ \E v \in ReadKey(snap[s]) : sealedWith' = [sealedWith EXCEPT ![s] = v]
    /\ pc' = [pc EXCEPT ![s] = "sealed"]
    /\ UNCHANGED <<initialized, keyRef, bufs, shutdown, snap, overlap, wire, handler, recvVars>>

(* Send: IV || ciphertext goes to TCPSend / UDPSend.                      *)
Transmit(s) ==
    /\ pc[s] = "sealed"
    /\ wire' = wire \cup {[key |-> sealedWith[s], overlap |-> overlap[s]]}
    /\ pc' = [pc EXCEPT ![s] = "idle"]
    /\ UNCHANGED <<initialized, keyRef, bufs, shutdown, snap, sealedWith, overlap, handler, recvVars>>

(* SetHandler: recvCallback and recvCtx are set under mu.Lock.           *)
SetHandler ==
    /\ shutdown = "idle"
    /\ handler' = TRUE
    /\ UNCHANGED <<lockVars, sendVars, recvVars>>

(* Decrypt: key := encryptionKey under keyMutex.RLock, then released;     *)
(* `key == nil` fails with "encryption key not set".                      *)
DecryptSnapshot(r, p) ==
    /\ rpc[r] = "idle" /\ shutdown = "idle" /\ p \in wire
    /\ rsnap' = [rsnap EXCEPT ![r] = keyRef]
    /\ rpkt' = [rpkt EXCEPT ![r] = p]
    /\ roverlap' = [roverlap EXCEPT ![r] = FALSE]
    /\ rpc' = [rpc EXCEPT ![r] = IF keyRef # Nil THEN "snapped" ELSE "idle"]
    /\ UNCHANGED <<lockVars, sendVars, handler, opened>>

(* Decrypt: aes.NewCipher(key) reads the 32 bytes with no lock held, then *)
(* gcm.Open checks the tag: plaintext only under the bytes that sealed it. *)
DecryptOpen(r) ==
    /\ rpc[r] = "snapped"
    /\ \E v \in ReadKey(rsnap[r]) :
          opened' = IF v = rpkt[r].key /\ v # Torn
                    THEN opened \cup {[key |-> v, sealOverlap |-> rpkt[r].overlap,
                                       openOverlap |-> roverlap[r]]}
                    ELSE opened
    /\ rpc' = [rpc EXCEPT ![r] = "idle"]
    /\ UNCHANGED <<lockVars, sendVars, handler, rsnap, rpkt, roverlap>>

Next ==
    \/ LibInit \/ ShutdownBegin \/ ShutdownEnd
    \/ \E k \in Keys : SetEncryptionKey(k)
    \/ \E s \in Senders : SendBegin(s) \/ CheckKey(s) \/ Snapshot(s)
                          \/ Seal(s) \/ Transmit(s)
    \/ SetHandler
    \/ \E r \in Receivers : DecryptOpen(r) \/ \E p \in wire : DecryptSnapshot(r, p)

Spec == Init /\ [][Next]_vars

-----------------------------------------------------------------------------
TypeOK ==
    /\ initialized \in BOOLEAN /\ keyRef \in BufIds \cup {Nil}
    /\ bufs \in [BufIds -> Buf \cup {Nil}] /\ shutdown \in {"idle", "zeroing"}
    /\ pc \in [Senders -> {"idle", "checked", "enabled", "snapped", "sealed"}]
    /\ snap \in [Senders -> BufIds \cup {Nil}]
    /\ sealedWith \in [Senders -> Keys \cup {Nil, Torn, Zero}]
    /\ overlap \in [Senders -> BOOLEAN]
    /\ wire \subseteq [key : Keys \cup {Torn, Zero}, overlap : BOOLEAN]
    /\ handler \in BOOLEAN /\ rpc \in [Receivers -> {"idle", "snapped"}]
    /\ rsnap \in [Receivers -> BufIds \cup {Nil}]
    /\ rpkt \in [Receivers -> [key : Keys \cup {Torn, Zero}, overlap : BOOLEAN] \cup {Nil}]
    /\ roverlap \in [Receivers -> BOOLEAN]
    /\ opened \subseteq [key : Keys \cup {Zero}, sealOverlap : BOOLEAN, openOverlap : BOOLEAN]

(* A packet leaves Send sealed with zeroed or torn key bytes only when    *)
(* its Encrypt copied the key slice before a Shutdown started zeroing it:  *)
(* Shutdown's encryptionKey = nil and the IsEncryptionEnabled / nil tests  *)
(* keep every later Send, of this session or the next, off that buffer.   *)
ZeroKeyOnlyByRace ==
    \A p \in wire : p.key \in {Zero, Torn} => p.overlap

(* Every packet Send transmits with FlagEncrypted is sealed under a key   *)
(* SetEncryptionKey installed (spec 4: the key slot is zeroized on        *)
(* Shutdown; readers take a snapshot pointer and release the lock).       *)
SealedUnderSetKey == \A p \in wire : p.key \in Keys

(* Decrypt returns the plaintext of a packet sealed with zeroed key bytes  *)
(* only when both that packet's Encrypt and this Decrypt copied the key    *)
(* slice before a Shutdown began zeroing it: a receiver whose snapshot     *)
(* postdates the Shutdown sees nil or a fresh buffer, so a forged all-zero *)
(* key opens nothing in a later session.                                  *)
ZeroKeyOpenedOnlyByRace ==
    \A o \in opened : o.key = Zero => o.sealOverlap /\ o.openOverlap

=============================================================================
