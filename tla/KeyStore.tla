------------------------------ MODULE KeyStore ------------------------------
(***************************************************************************)
(* The phone-key store (components/storage/src/key_store.c): a RAM array   *)
(* s_keys[0 .. s_count-1] mirrored, slot by slot, in the NVS namespace     *)
(* "keys" (k00, k01, ...).  The Application task adds and revokes keys;    *)
(* every HAL call is a step of its own, so that a refused write, a failed  *)
(* commit or a power loss can fall between any two of them.                *)
(*                                                                         *)
(* Assumed of the platform: one nvs_set_blob or nvs_erase_key either takes *)
(* effect or does not, also across a power loss; memory operations of one  *)
(* task become visible in program order.                                   *)
(***************************************************************************)
EXTENDS Integers, FiniteSets

CONSTANTS
    Keys,         \* public keys of phones
    KEY_MAX,      \* number of slots (64 in the firmware)
    NoKey,        \* content of an unused slot
    HalFaults,    \* which HAL failures happen: "set" (refused, nothing written),
                  \* "commit" (nvs_commit fails after the change was made)
    TornRevoke    \* may a failure or a power loss hit the compaction of a revoke?

ASSUME KeyStoreAssumption ==
    /\ KEY_MAX \in Nat \ {0}
    /\ NoKey \notin Keys
    /\ HalFaults \subseteq {"set", "commit"}
    /\ TornRevoke \in BOOLEAN

VARIABLES
    s_keys,   \* RAM slots; the ones from s_count on hold stale bytes
    s_count,  \* number of published slots
    nvs,      \* persisted slots
    pc,       \* where the Application task is in key_store_*, or "off"
    key,      \* argument of the running operation
    idx,      \* slot of the key being revoked
    i,        \* loop index of the compaction
    ret,      \* result of the last completed operation
    granted,  \* history: keys whose add returned OK and whose revocation has
              \* not been asked for since
    revoked   \* history: keys whose revoke returned OK and that nobody has
              \* tried to add since

ramVars  == <<s_keys, s_count>>
opVars   == <<key, idx, i>>
histVars == <<granted, revoked>>
vars     == <<s_keys, s_count, nvs, pc, key, idx, i, ret, granted, revoked>>

Slots == 0 .. KEY_MAX - 1
Slot  == Keys \cup {NoKey}

Results == {"NONE", "OK", "FULL", "EXISTS", "NOT_FOUND", "STORAGE"}

AddPcs    == {"add_write", "add_fill", "add_publish"}
RevokePcs == {"rev_erase", "rev_rewrite", "rev_erase_last", "rev_move",
              "rev_shrink"}

\* The keys that key_store_get and key_store_contains can find.
RamSet == {s_keys[j] : j \in 0 .. s_count - 1}

\* The keys the next key_store_init will load: it stops at the first gap.
BootSet == {nvs[j] : j \in {m \in Slots : \A l \in 0 .. m : nvs[l] # NoKey}}

\* The keys the lock honours, now or after the next boot.
Honoured == IF pc = "off" THEN BootSet ELSE RamSet

-----------------------------------------------------------------------------
(***************************************************************************)
(* storage_hal_write_blob and storage_hal_erase_key, for slot n, with the  *)
(* result r that the caller sees.                                          *)
(***************************************************************************)

MayFail == pc \in {"rev_rewrite", "rev_erase_last"} => TornRevoke

Store(n, v, refusals, r) ==
    \/ /\ r = "OK"
       /\ nvs' = [nvs EXCEPT ![n] = v]
    \/ /\ r \in refusals
       /\ "set" \in HalFaults /\ MayFail
       /\ UNCHANGED nvs
    \/ /\ r = "IO"
       /\ "commit" \in HalFaults /\ MayFail
       /\ nvs' = [nvs EXCEPT ![n] = v]

storage_hal_write_blob(n, k, r) == Store(n, k, {"FULL", "IO"}, r)

storage_hal_erase_key(n, r) == Store(n, NoKey, {"IO"}, r)

-----------------------------------------------------------------------------
(***************************************************************************)
(* key_store_add: HAL first, then the slot, then the count.                *)
(***************************************************************************)

Return(r) == pc' = "idle" /\ ret' = r

key_store_contains(k) == k \in RamSet

AddRefused(k) ==
    /\ pc = "idle"
    /\ \/ s_count >= KEY_MAX /\ Return("FULL")
       \/ s_count < KEY_MAX /\ key_store_contains(k) /\ Return("EXISTS")
    /\ UNCHANGED <<ramVars, nvs, opVars, histVars>>

AddStart(k) ==
    /\ pc = "idle"
    /\ s_count < KEY_MAX
    /\ ~key_store_contains(k)
    /\ pc' = "add_write"
    /\ key' = k
    /\ revoked' = revoked \ {k}
    /\ UNCHANGED <<ramVars, nvs, idx, i, ret, granted>>

\* An add that publishes the key whatever the HAL says.
AddWrite_Unchecked ==
    /\ pc = "add_write"
    /\ \E r \in {"OK", "FULL", "IO"} : storage_hal_write_blob(s_count, key, r)
    /\ pc' = "add_fill"
    /\ UNCHANGED <<ramVars, opVars, ret, histVars>>

AddWrite ==
    /\ pc = "add_write"
    /\ \E r \in {"OK", "FULL", "IO"} :
          /\ storage_hal_write_blob(s_count, key, r)
          /\ \/ r = "OK"   /\ pc' = "add_fill" /\ UNCHANGED ret
             \/ r = "FULL" /\ Return("FULL")
             \/ r = "IO"   /\ Return("STORAGE")
    /\ UNCHANGED <<ramVars, opVars, histVars>>

AddFill ==
    /\ pc = "add_fill"
    /\ s_keys' = [s_keys EXCEPT ![s_count] = key]
    /\ pc' = "add_publish"
    /\ UNCHANGED <<s_count, nvs, opVars, ret, histVars>>

AddPublish ==
    /\ pc = "add_publish"
    /\ s_count' = s_count + 1
    /\ granted' = granted \cup {key}
    /\ Return("OK")
    /\ UNCHANGED <<s_keys, nvs, opVars, revoked>>

-----------------------------------------------------------------------------
(***************************************************************************)
(* key_store_revoke: erase the slot, re-write the keys behind it one slot  *)
(* down, erase the old last slot (result ignored), and only then move the  *)
(* RAM array and shrink the count.                                         *)
(***************************************************************************)

RevokeMissing(k) ==
    /\ pc = "idle"
    /\ ~key_store_contains(k)
    /\ Return("NOT_FOUND")
    /\ UNCHANGED <<ramVars, nvs, opVars, histVars>>

RevokeStart(k) ==
    /\ pc = "idle"
    /\ \E n \in 0 .. s_count - 1 :
          /\ s_keys[n] = k
          /\ \A m \in 0 .. n - 1 : s_keys[m] # k
          /\ idx' = n
    /\ pc' = "rev_erase"
    /\ key' = k
    /\ granted' = granted \ {k}
    /\ UNCHANGED <<ramVars, nvs, i, ret, revoked>>

\* A compaction that starts one slot too late.
RevokeErase_LateStart ==
    /\ pc = "rev_erase"
    /\ \E r \in {"OK", "IO"} :
          /\ storage_hal_erase_key(idx, r)
          /\ \/ /\ r = "OK"
                /\ pc' = IF idx + 1 < s_count - 1 THEN "rev_rewrite"
                                                  ELSE "rev_shrink"
                /\ UNCHANGED ret
             \/ r = "IO" /\ Return("STORAGE")
    /\ i' = IF idx + 1 < s_count - 1 THEN idx + 1 ELSE idx
    /\ UNCHANGED <<ramVars, key, idx, histVars>>

\* A revoke that only works on the RAM copy.
RevokeErase_RamOnly ==
    /\ pc = "rev_erase"
    /\ pc' = IF idx < s_count - 1 THEN "rev_move" ELSE "rev_shrink"
    /\ i' = idx
    /\ UNCHANGED <<ramVars, nvs, key, idx, ret, histVars>>

RevokeErase ==
    /\ pc = "rev_erase"
    /\ \E r \in {"OK", "IO"} :
          /\ storage_hal_erase_key(idx, r)
          /\ \/ /\ r = "OK"
                /\ pc' = IF idx < s_count - 1 THEN "rev_rewrite" ELSE "rev_shrink"
                /\ UNCHANGED ret
             \/ r = "IO" /\ Return("STORAGE")
    /\ i' = idx
    /\ UNCHANGED <<ramVars, key, idx, histVars>>

RevokeRewrite ==
    /\ pc = "rev_rewrite"
    /\ \E r \in {"OK", "FULL", "IO"} :
          /\ storage_hal_write_blob(i, s_keys[i + 1], r)
          /\ \/ /\ r = "OK"
                /\ pc' = IF i + 1 < s_count - 1 THEN "rev_rewrite"
                                                ELSE "rev_erase_last"
                /\ UNCHANGED ret
             \/ r # "OK" /\ Return("STORAGE")
    /\ i' = i + 1
    /\ UNCHANGED <<ramVars, key, idx, histVars>>

\* A compaction that leaves the old last slot in place.
RevokeEraseLast_Skipped ==
    /\ pc = "rev_erase_last"
    /\ pc' = "rev_move"
    /\ i' = idx
    /\ UNCHANGED <<ramVars, nvs, key, idx, ret, histVars>>

RevokeEraseLast ==
    /\ pc = "rev_erase_last"
    /\ \E r \in {"OK", "IO"} : storage_hal_erase_key(s_count - 1, r)
    /\ pc' = "rev_move"
    /\ i' = idx
    /\ UNCHANGED <<ramVars, key, idx, ret, histVars>>

\* One slot of the memmove.
RevokeMove ==
    /\ pc = "rev_move"
    /\ s_keys' = [s_keys EXCEPT ![i] = s_keys[i + 1]]
    /\ pc' = IF i + 1 < s_count - 1 THEN "rev_move" ELSE "rev_shrink"
    /\ i' = i + 1
    /\ UNCHANGED <<s_count, nvs, key, idx, ret, histVars>>

RevokeShrink ==
    /\ pc = "rev_shrink"
    /\ s_count' = s_count - 1
    /\ revoked' = revoked \cup {key}
    /\ Return("OK")
    /\ UNCHANGED <<s_keys, nvs, opVars, granted>>

-----------------------------------------------------------------------------
(***************************************************************************)
(* Power and boot.  A key_store_init that fails with an I/O error leaves   *)
(* the lock unbooted, which is the state it started from.                  *)
(***************************************************************************)

PowerLoss ==
    /\ pc # "off"
    /\ MayFail
    /\ pc' = "off"
    /\ s_keys' = [n \in Slots |-> NoKey]
    /\ s_count' = 0
    /\ ret' = "NONE"
    /\ UNCHANGED <<nvs, opVars, histVars>>

key_store_init ==
    /\ pc = "off"
    /\ \E n \in 0 .. KEY_MAX :
          /\ \A m \in 0 .. n - 1 : nvs[m] # NoKey
          /\ n < KEY_MAX => nvs[n] = NoKey
          /\ s_count' = n
          /\ s_keys' = [m \in Slots |-> IF m < n THEN nvs[m] ELSE NoKey]
    /\ pc' = "idle"
    /\ UNCHANGED <<nvs, opVars, ret, histVars>>

Init ==
    /\ s_keys = [n \in Slots |-> NoKey]
    /\ s_count = 0
    /\ nvs = [n \in Slots |-> NoKey]
    /\ pc = "off"
    /\ key \in Keys
    /\ idx = 0
    /\ i = 0
    /\ ret = "NONE"
    /\ granted = {}
    /\ revoked = {}

key_store_add ==
    \/ \E k \in Keys : AddRefused(k) \/ AddStart(k)
    \/ AddWrite
    \/ AddFill
    \/ AddPublish

key_store_revoke ==
    \/ \E k \in Keys : RevokeMissing(k) \/ RevokeStart(k)
    \/ RevokeErase
    \/ RevokeRewrite
    \/ RevokeEraseLast
    \/ RevokeMove
    \/ RevokeShrink

Next == key_store_add \/ key_store_revoke \/ PowerLoss \/ key_store_init

Spec == Init /\ [][Next]_vars

-----------------------------------------------------------------------------
(***************************************************************************)
(* Properties                                                              *)
(***************************************************************************)

\* Every variable stays in its range: in particular no operation indexes
\* s_keys or the NVS names outside 0 .. KEY_MAX-1.
TypeOK ==
    /\ s_keys \in [Slots -> Slot]
    /\ s_count \in 0 .. KEY_MAX
    /\ nvs \in [Slots -> Slot]
    /\ pc \in {"off", "idle"} \cup AddPcs \cup RevokePcs
    /\ key \in Keys
    /\ idx \in Slots
    /\ i \in Slots
    /\ ret \in Results
    /\ granted \subseteq Keys
    /\ revoked \subseteq Keys

\* "the HAL always matches the new RAM layout" (key_store.c, comment in
\* key_store_revoke): whenever no operation is running, slot for slot, NVS
\* holds exactly the published RAM slots.
HalMatchesRam ==
    pc = "idle" =>
        \A n \in Slots : nvs[n] = IF n < s_count THEN s_keys[n] ELSE NoKey

\* No key is stored twice: key_store_add's EXISTS check and the compaction of
\* key_store_revoke (which removes one slot only) together keep it so.
NoDuplicates ==
    pc = "idle" =>
        \A m, n \in 0 .. s_count - 1 : s_keys[m] = s_keys[n] => m = n

\* A key whose key_store_add returned OK is honoured until its revocation is
\* asked for, whatever else is added or revoked and across power losses.
GrantedSurvive == granted \subseteq Honoured

\* A key whose key_store_revoke returned OK is not honoured again, also not
\* after a reboot, until somebody adds it again.
RevokedStayRevoked == revoked \cap Honoured = {}

Abstract == INSTANCE KeySet WITH authorized <- Honoured

\* The key store implements the persistent key set of key_store.h: every step,
\* power losses and boots included, adds one key, revokes one key or leaves the
\* honoured set as it is.
ImplementsKeySet == Abstract!Spec

=============================================================================
