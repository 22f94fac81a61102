---------------------------- MODULE KeyResolver -----------------------------
(***************************************************************************)
(* The key store shared by two tasks.  While the Application task adds and *)
(* revokes keys (KeyStore), the comm task resolves the signer of an M3: it *)
(* walks the candidates with key_store_get, without a lock, and accepts    *)
(* the first one that verifies the signature (session_handle_m3).          *)
(***************************************************************************)
EXTENDS KeyStore

VARIABLES
    rpc,       \* the comm task's place in the resolver loop, or its verdict
    signer,    \* the key that signed the M3
    index,     \* candidate index
    held,      \* history: keys in the store at some moment of this resolution
    missable   \* history: was the signer away, leaving, or moved behind the reader?

rvars   == <<rpc, signer, index, held, missable>>
allVars == <<vars, rvars>>

Resolving == rpc \in {"check", "copy"}

\* The published keys and the one that key_store_add has already persisted.
Holding == RamSet \cup (IF pc \in {"add_fill", "add_publish"} THEN {key} ELSE {})

\* A memcpy out of the slot that another core is writing mixes two keys; such a
\* candidate verifies no signature.
SlotInFlux ==
    \/ pc = "add_fill" /\ index = s_count
    \/ pc = "rev_move" /\ index = i

BeingRevoked(k) == pc \in RevokePcs /\ key = k

\* The memmove takes the signer from the slot that is next to be read to the one
\* before it.
MovesBehind == pc = "rev_move" /\ s_keys[i + 1] = signer /\ index = i + 1

-----------------------------------------------------------------------------
(***************************************************************************)
(* The candidate loop of session_handle_m3 over key_store_get              *)
(***************************************************************************)

ResolveStart(k) ==
    /\ rpc = "idle" /\ pc # "off"
    /\ rpc' = "check"
    /\ signer' = k
    /\ index' = 0
    /\ held' = Holding
    /\ missable' = (k \notin RamSet \/ BeingRevoked(k))
    /\ UNCHANGED vars

\* A range test that lets the slot behind the last key through.
GetCheck_OffByOne ==
    /\ rpc = "check"
    /\ rpc' = IF index < KEY_MAX /\ index <= s_count THEN "copy" ELSE "rejected"
    /\ UNCHANGED <<vars, signer, index, held, missable>>

\* A range test that leaves the last key out.
GetCheck_MissesLast ==
    /\ rpc = "check"
    /\ rpc' = IF index < KEY_MAX /\ index + 1 < s_count THEN "copy"
                                                        ELSE "rejected"
    /\ UNCHANGED <<vars, signer, index, held, missable>>

\* key_store_get, the range test; KEY_MAX is also SESSION_MAX_PEER_CANDIDATES.
GetCheck ==
    /\ rpc = "check"
    /\ rpc' = IF index < KEY_MAX /\ index < s_count THEN "copy" ELSE "rejected"
    /\ UNCHANGED <<vars, signer, index, held, missable>>

\* key_store_get, the copy, and the verification of that candidate.
GetCopy ==
    /\ rpc = "copy"
    /\ \/ /\ s_keys[index] = signer
          /\ rpc' = "accepted"
          /\ UNCHANGED index
       \/ /\ s_keys[index] # signer \/ SlotInFlux
          /\ rpc' = "check"
          /\ index' = index + 1
    /\ UNCHANGED <<vars, signer, held, missable>>

\* The loop's locals go out of scope.
Forget ==
    /\ rpc' = "idle"
    /\ index' = 0
    /\ held' = {}
    /\ missable' = FALSE

ResolveEnd ==
    /\ rpc \in {"accepted", "rejected"}
    /\ Forget
    /\ UNCHANGED <<vars, signer>>

-----------------------------------------------------------------------------
(***************************************************************************)
(* The Application task, and power, which takes both tasks down            *)
(***************************************************************************)

AppTask ==
    /\ key_store_add \/ key_store_revoke
    /\ held' = IF Resolving THEN held \cup Holding' ELSE held
    /\ UNCHANGED <<rpc, signer, index>>
    /\ missable' = (rpc # "idle" /\ (missable \/ MovesBehind \/ BeingRevoked(signer)'))

Power ==
    /\ PowerLoss \/ key_store_init
    /\ Forget
    /\ UNCHANGED signer

RInit ==
    /\ Init
    /\ rpc = "idle"
    /\ signer \in Keys
    /\ index = 0
    /\ held = {}
    /\ missable = FALSE

RNext ==
    \/ \E k \in Keys : ResolveStart(k)
    \/ GetCheck
    \/ GetCopy
    \/ ResolveEnd
    \/ AppTask
    \/ Power

RSpec == RInit /\ [][RNext]_allVars

-----------------------------------------------------------------------------
(***************************************************************************)
(* Properties                                                              *)
(***************************************************************************)

\* The resolver's variables stay in range: no candidate is read outside
\* s_keys[0 .. KEY_MAX-1], also while the count shrinks under the reader.
RTypeOK ==
    /\ TypeOK
    /\ rpc \in {"idle", "check", "copy", "accepted", "rejected"}
    /\ signer \in Keys
    /\ index \in 0 .. KEY_MAX
    /\ rpc = "copy" => index < KEY_MAX
    /\ held \subseteq Slot
    /\ missable \in BOOLEAN

\* "never an authorization bypass" (key_store.c): an M3 is only accepted for a
\* key that was in the store at some moment of that resolution, however add and
\* revoke interleave with the lock-free iteration.
OnlyHeldAccepted == rpc = "accepted" => signer \in held

\* "a benign one-time missed candidate": the iteration misses an authorized signer
\* only when the memmove of a revoke takes it past the reader, or when it is being
\* revoked itself; other adds and revokes, under way at any point, cost no
\* candidate ("compact before shrinking count", key_store.c).
OnlyMovedMissed == rpc = "rejected" => missable

=============================================================================
