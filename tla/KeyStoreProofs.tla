--------------------------- MODULE KeyStoreProofs ---------------------------
(***************************************************************************)
(* Proofs about the key store, and about the resolver that iterates over   *)
(* it without a lock, for every set of keys and every capacity.            *)
(* Type correctness and what concerns the resolver need no assumption on   *)
(* failures.  The other invariants and the refinement of KeySet hold as    *)
(* long as no failure hits the compaction inside key_store_revoke and no   *)
(* commit fails; under either of the two TLC finds them violated.          *)
(***************************************************************************)
EXTENDS KeyResolver, FiniteSetTheorems, TLAPS

-----------------------------------------------------------------------------
(***************************************************************************)
(* Type correctness                                                        *)
(***************************************************************************)

\* Where an operation is, its indices are in range.
IndexInv ==
    /\ pc \in AddPcs => s_count < KEY_MAX
    /\ pc \in RevokePcs => idx < s_count
    /\ pc \in {"rev_rewrite", "rev_move"} => idx <= i /\ i < s_count - 1
    /\ pc = "rev_erase_last" => idx < s_count - 1

TypeInv == TypeOK /\ IndexInv

USE DEF Slots, Slot, Results, AddPcs, RevokePcs

\* The key store that key_store_init has not yet loaded is well-typed.
LEMMA InitTypeInv == Init => TypeInv
BY KeyStoreAssumption DEF Init, TypeInv, TypeOK, IndexInv

\* Every step of key_store_add, key_store_revoke, power and boot keeps it so.
LEMMA StepTypeInv == TypeInv /\ [Next]_vars => TypeInv'
<1> SUFFICES ASSUME TypeInv, [Next]_vars PROVE TypeInv'
  OBVIOUS
<1> USE KeyStoreAssumption
    DEF TypeInv, TypeOK, IndexInv, ramVars, opVars, histVars, Return
<1>1. ASSUME NEW n \in Slots, NEW v \in Slot, NEW refusals, NEW r,
             Store(n, v, refusals, r)
      PROVE  nvs' \in [Slots -> Slot]
  BY <1>1 DEF Store
<1>2. ASSUME NEW k \in Keys, AddRefused(k) \/ RevokeMissing(k)
      PROVE  TypeInv'
  BY <1>2 DEF AddRefused, RevokeMissing
<1>3. ASSUME NEW k \in Keys, AddStart(k)
      PROVE  TypeInv'
  BY <1>3 DEF AddStart
<1>4. CASE AddWrite
  <2>1. nvs' \in [Slots -> Slot]
    BY <1>1, <1>4 DEF AddWrite, storage_hal_write_blob
  <2> QED
    BY <1>4, <2>1 DEF AddWrite
<1>5. CASE AddFill
  BY <1>5 DEF AddFill
<1>6. CASE AddPublish
  BY <1>6 DEF AddPublish
<1>7. ASSUME NEW k \in Keys, RevokeStart(k)
      PROVE  TypeInv'
  BY <1>7 DEF RevokeStart
<1>8. CASE RevokeErase
  <2>1. nvs' \in [Slots -> Slot]
    BY <1>1, <1>8 DEF RevokeErase, storage_hal_erase_key
  <2> QED
    BY <1>8, <2>1 DEF RevokeErase
<1>9. CASE RevokeRewrite
  <2>1. i \in Slots /\ s_keys[i + 1] \in Slot
    BY <1>9 DEF RevokeRewrite
  <2>2. nvs' \in [Slots -> Slot]
    BY <1>1, <1>9, <2>1 DEF RevokeRewrite, storage_hal_write_blob
  <2> QED
    BY <1>9, <2>2 DEF RevokeRewrite
<1>10. CASE RevokeEraseLast
  <2>1. s_count - 1 \in Slots /\ NoKey \in Slot
    BY <1>10 DEF RevokeEraseLast
  <2>2. nvs' \in [Slots -> Slot]
    BY <1>1, <1>10, <2>1 DEF RevokeEraseLast, storage_hal_erase_key
  <2> QED
    BY <1>10, <2>2 DEF RevokeEraseLast
<1>11. CASE RevokeMove
  BY <1>11 DEF RevokeMove
<1>12. CASE RevokeShrink
  BY <1>12 DEF RevokeShrink
<1>13. CASE PowerLoss
  BY <1>13 DEF PowerLoss
<1>14. CASE key_store_init
  BY <1>14 DEF key_store_init
<1>15. CASE UNCHANGED vars
  BY <1>15 DEF vars
<1> QED
  BY <1>2, <1>3, <1>4, <1>5, <1>6, <1>7, <1>8, <1>9, <1>10, <1>11, <1>12,
     <1>13, <1>14, <1>15 DEF Next, key_store_add, key_store_revoke

\* No operation of the key store, interrupted or not, indexes a slot outside
\* 0 .. KEY_MAX-1, and every variable stays in its range.
THEOREM TypeCorrect == Spec => []TypeOK
<1>1. TypeInv => TypeOK
  BY DEF TypeInv
<1> QED
  BY <1>1, InitTypeInv, StepTypeInv, PTL DEF Spec

-----------------------------------------------------------------------------
(***************************************************************************)
(* NVS follows RAM                                                         *)
(***************************************************************************)

\* What slot m of NVS holds at each point of an add or a revoke.
NvsSlot(m) ==
    CASE pc \in {"idle", "add_write", "rev_erase"} ->
             IF m < s_count THEN s_keys[m] ELSE NoKey
      [] pc \in {"add_fill", "add_publish"} ->
             IF m < s_count THEN s_keys[m] ELSE IF m = s_count THEN key ELSE NoKey
      [] pc = "rev_rewrite" ->
             IF m >= idx /\ m < i THEN s_keys[m + 1]
             ELSE IF m < s_count /\ (m = idx => i > idx) THEN s_keys[m] ELSE NoKey
      [] pc = "rev_erase_last" ->
             IF m >= idx /\ m < s_count - 1 THEN s_keys[m + 1]
             ELSE IF m < s_count THEN s_keys[m] ELSE NoKey
      [] pc = "rev_move" ->
             IF m < i THEN s_keys[m]
             ELSE IF m < s_count - 1 THEN s_keys[m + 1] ELSE NoKey
      [] pc = "rev_shrink" ->
             IF m < s_count - 1 THEN s_keys[m] ELSE NoKey
      [] pc = "off" -> nvs[m]

NvsInv == \A m \in Slots : nvs[m] = NvsSlot(m)

\* While the RAM array is whole, it holds distinct keys; while it is being moved
\* or is lost, NVS holds distinct keys without a gap.
RamWhole == pc \notin {"off", "rev_move", "rev_shrink"}

DistinctInv ==
    /\ RamWhole =>
         /\ \A m \in Slots : m < s_count => s_keys[m] # NoKey
         /\ \A l, m \in Slots :
               l < s_count /\ m < s_count /\ s_keys[l] = s_keys[m] => l = m
    /\ ~RamWhole =>
         /\ \A l, m \in Slots : l <= m /\ nvs[m] # NoKey => nvs[l] # NoKey
         /\ \A l, m \in Slots : nvs[l] = nvs[m] /\ nvs[l] # NoKey => l = m
    /\ pc \in {"rev_move", "rev_shrink"} =>
         \A m \in Slots : m < s_count - 1 => nvs[m] # NoKey

\* The operation's argument: new in an add, at idx until the RAM array moves,
\* gone from NVS from then on.
KeyInv ==
    /\ pc \in AddPcs => \A m \in Slots : m < s_count => s_keys[m] # key
    /\ pc = "add_publish" => s_keys[s_count] = key
    /\ pc \in {"rev_erase", "rev_rewrite", "rev_erase_last"} => s_keys[idx] = key
    /\ pc \in {"rev_move", "rev_shrink"} => \A m \in Slots : nvs[m] # key

StoreInv == TypeInv /\ NvsInv /\ DistinctInv /\ KeyInv

\* The failures under which NVS follows RAM: writes may be refused and power may
\* be lost, but neither inside the compaction, and no commit fails.
Clean == ~TornRevoke /\ "commit" \notin HalFaults

\* Under them, a HAL call either does what it is asked to or does nothing and
\* says so, and the calls of the compaction succeed.
LEMMA StoreClean ==
    ASSUME Clean, NEW n, NEW v, NEW refusals, NEW r, Store(n, v, refusals, r),
           "OK" \notin refusals
    PROVE  /\ r = "OK" => nvs' = [nvs EXCEPT ![n] = v]
           /\ r # "OK" => /\ nvs' = nvs
                          /\ pc \notin {"rev_rewrite", "rev_erase_last"}
BY DEF Clean, Store, MayFail

\* An empty, unloaded store satisfies the invariant.
LEMMA InitStoreInv == Init => StoreInv
BY InitTypeInv DEF Init, StoreInv, NvsInv, NvsSlot, DistinctInv, RamWhole, KeyInv

\* key_store_add keeps NVS and RAM together.
LEMMA AddStoreInv ==
    ASSUME Clean, StoreInv, TypeInv', key_store_add
    PROVE  StoreInv'
<1> USE KeyStoreAssumption
    DEF StoreInv, TypeInv, TypeOK, IndexInv, ramVars, opVars, histVars, Return
<1>1. ASSUME NEW k \in Keys, AddRefused(k)
      PROVE  StoreInv'
  BY <1>1 DEF AddRefused, NvsInv, NvsSlot, DistinctInv, RamWhole, KeyInv
<1>2. ASSUME NEW k \in Keys, AddStart(k)
      PROVE  StoreInv'
  <2>1. \A m \in Slots : m < s_count => s_keys[m] # k
    BY <1>2 DEF AddStart, key_store_contains, RamSet
  <2> QED
    BY <1>2, <2>1 DEF AddStart, NvsInv, NvsSlot, DistinctInv, RamWhole, KeyInv
<1>3. CASE AddWrite
  <2>1. PICK r \in {"OK", "FULL", "IO"} :
           /\ storage_hal_write_blob(s_count, key, r)
           /\ \/ r = "OK"   /\ pc' = "add_fill" /\ UNCHANGED ret
              \/ r = "FULL" /\ Return("FULL")
              \/ r = "IO"   /\ Return("STORAGE")
    BY <1>3 DEF AddWrite
  <2>2. CASE r = "OK"
    <3>1. nvs' = [nvs EXCEPT ![s_count] = key] /\ pc' = "add_fill"
      BY <2>1, <2>2, StoreClean DEF storage_hal_write_blob
    <3> QED
      BY <1>3, <3>1 DEF AddWrite, NvsInv, NvsSlot, DistinctInv, RamWhole, KeyInv
  <2>3. CASE r # "OK"
    <3>1. nvs' = nvs /\ pc' = "idle"
      BY <2>1, <2>3, StoreClean DEF storage_hal_write_blob
    <3> QED
      BY <1>3, <3>1 DEF AddWrite, NvsInv, NvsSlot, DistinctInv, RamWhole, KeyInv
  <2> QED
    BY <2>2, <2>3
<1>4. CASE AddFill
  BY <1>4 DEF AddFill, NvsInv, NvsSlot, DistinctInv, RamWhole, KeyInv
<1>5. CASE AddPublish
  BY <1>5 DEF AddPublish, NvsInv, NvsSlot, DistinctInv, RamWhole, KeyInv
<1> QED
  BY <1>1, <1>2, <1>3, <1>4, <1>5 DEF key_store_add

\* key_store_revoke does, when nothing interrupts its compaction.
LEMMA RevokeStoreInv ==
    ASSUME Clean, StoreInv, TypeInv', key_store_revoke
    PROVE  StoreInv'
<1> USE KeyStoreAssumption
    DEF StoreInv, TypeInv, TypeOK, IndexInv, ramVars, opVars, histVars, Return
<1>1. ASSUME NEW k \in Keys, RevokeMissing(k)
      PROVE  StoreInv'
  BY <1>1 DEF RevokeMissing, NvsInv, NvsSlot, DistinctInv, RamWhole, KeyInv
<1>2. ASSUME NEW k \in Keys, RevokeStart(k)
      PROVE  StoreInv'
  BY <1>2 DEF RevokeStart, NvsInv, NvsSlot, DistinctInv, RamWhole, KeyInv
<1>3. CASE RevokeErase
  <2>1. PICK r \in {"OK", "IO"} :
           /\ storage_hal_erase_key(idx, r)
           /\ \/ /\ r = "OK"
                 /\ pc' = IF idx < s_count - 1 THEN "rev_rewrite" ELSE "rev_shrink"
                 /\ UNCHANGED ret
              \/ r = "IO" /\ Return("STORAGE")
    BY <1>3 DEF RevokeErase
  <2>2. CASE r = "OK" /\ idx < s_count - 1
    <3>1. nvs' = [nvs EXCEPT ![idx] = NoKey] /\ pc' = "rev_rewrite"
      BY <2>1, <2>2, StoreClean DEF storage_hal_erase_key
    <3> QED
      BY <1>3, <2>2, <3>1
         DEF RevokeErase, NvsInv, NvsSlot, DistinctInv, RamWhole, KeyInv
  <2>3. CASE r = "OK" /\ ~(idx < s_count - 1)
    <3>1. nvs' = [nvs EXCEPT ![idx] = NoKey] /\ pc' = "rev_shrink"
      BY <2>1, <2>3, StoreClean DEF storage_hal_erase_key
    <3>2. idx = s_count - 1
      BY <1>3, <2>3 DEF RevokeErase
    <3> QED
      BY <1>3, <3>1, <3>2
         DEF RevokeErase, NvsInv, NvsSlot, DistinctInv, RamWhole, KeyInv
  <2>4. CASE r = "IO"
    <3>1. nvs' = nvs /\ pc' = "idle"
      BY <2>1, <2>4, StoreClean DEF storage_hal_erase_key
    <3> QED
      BY <1>3, <3>1 DEF RevokeErase, NvsInv, NvsSlot, DistinctInv, RamWhole, KeyInv
  <2> QED
    BY <2>2, <2>3, <2>4
<1>4. CASE RevokeRewrite
  <2>1. /\ nvs' = [nvs EXCEPT ![i] = s_keys[i + 1]]
        /\ pc' = IF i + 1 < s_count - 1 THEN "rev_rewrite" ELSE "rev_erase_last"
    BY <1>4, StoreClean DEF RevokeRewrite, storage_hal_write_blob
  <2> QED
    BY <1>4, <2>1 DEF RevokeRewrite, NvsInv, NvsSlot, DistinctInv, RamWhole, KeyInv
<1>5. CASE RevokeEraseLast
  <2>1. nvs' = [nvs EXCEPT ![s_count - 1] = NoKey]
    BY <1>5, StoreClean DEF RevokeEraseLast, storage_hal_erase_key
  <2> QED
    <3>1. pc = "rev_erase_last" /\ pc' = "rev_move" /\ i' = idx
      BY <1>5 DEF RevokeEraseLast
    <3>2. UNCHANGED <<s_keys, s_count, key, idx>>
      BY <1>5 DEF RevokeEraseLast
    <3>3. \A m \in Slots :
            nvs'[m] = IF m < idx THEN s_keys[m]
                      ELSE IF m < s_count - 1 THEN s_keys[m + 1] ELSE NoKey
      BY <2>1, <3>1 DEF NvsInv, NvsSlot
    <3>4. NvsInv'
      BY <3>1, <3>2, <3>3 DEF NvsInv, NvsSlot
    <3>5. DistinctInv'
      BY <3>1, <3>2, <3>3 DEF DistinctInv, RamWhole
    <3>6. KeyInv'
      BY <3>1, <3>2, <3>3 DEF KeyInv, DistinctInv, RamWhole
    <3> QED
      BY <3>4, <3>5, <3>6
<1>6. CASE RevokeMove
  BY <1>6 DEF RevokeMove, NvsInv, NvsSlot, DistinctInv, RamWhole, KeyInv
<1>7. CASE RevokeShrink
  BY <1>7 DEF RevokeShrink, NvsInv, NvsSlot, DistinctInv, RamWhole, KeyInv
<1> QED
  BY <1>1, <1>2, <1>3, <1>4, <1>5, <1>6, <1>7 DEF key_store_revoke

\* A power loss leaves distinct keys without a gap, and key_store_init loads all
\* of them.
LEMMA PowerStoreInv ==
    ASSUME Clean, StoreInv, TypeInv', PowerLoss \/ key_store_init
    PROVE  StoreInv'
<1> USE KeyStoreAssumption
    DEF StoreInv, TypeInv, TypeOK, IndexInv, ramVars, opVars, histVars
<1>1. CASE PowerLoss
  BY <1>1 DEF PowerLoss, Clean, MayFail, NvsInv, NvsSlot, DistinctInv, RamWhole, KeyInv
<1>2. CASE key_store_init
  <2>1. PICK n \in 0 .. KEY_MAX :
           /\ \A m \in 0 .. n - 1 : nvs[m] # NoKey
           /\ n < KEY_MAX => nvs[n] = NoKey
           /\ s_count' = n
           /\ s_keys' = [m \in Slots |-> IF m < n THEN nvs[m] ELSE NoKey]
    BY <1>2 DEF key_store_init
  <2>2. \A m \in Slots : m >= n => nvs[m] = NoKey
    BY <1>2, <2>1 DEF key_store_init, DistinctInv, RamWhole
  <2> QED
    BY <1>2, <2>1, <2>2
       DEF key_store_init, NvsInv, NvsSlot, DistinctInv, RamWhole, KeyInv
<1> QED
  BY <1>1, <1>2

\* Every step keeps the invariant.
LEMMA StepStoreInv == Clean /\ StoreInv /\ [Next]_vars => StoreInv'
<1> SUFFICES ASSUME Clean, StoreInv, [Next]_vars PROVE StoreInv'
  OBVIOUS
<1>1. TypeInv'
  BY StepTypeInv DEF StoreInv
<1>2. CASE UNCHANGED vars
  BY <1>1, <1>2
     DEF vars, StoreInv, NvsInv, NvsSlot, DistinctInv, RamWhole, KeyInv
<1> QED
  BY <1>1, <1>2, AddStoreInv, RevokeStoreInv, PowerStoreInv DEF Next

\* "the HAL always matches the new RAM layout" (key_store.c): between operations
\* NVS holds the published slots and nothing else, unless a failure hits the
\* compaction of a revoke.
THEOREM HalFollowsRam ==
    ASSUME Clean
    PROVE  Spec => []HalMatchesRam
<1>1. StoreInv => HalMatchesRam
  BY DEF StoreInv, NvsInv, NvsSlot, HalMatchesRam
<1>2. Init => StoreInv
  BY InitStoreInv
<1>3. StoreInv /\ [Next]_vars => StoreInv'
  BY StepStoreInv
<1> QED
  BY <1>1, <1>2, <1>3, PTL DEF Spec

\* Under the same assumption no key is ever stored twice, so revoking the one
\* slot that key_store_revoke finds revokes the key.
THEOREM KeysDistinct ==
    ASSUME Clean
    PROVE  Spec => []NoDuplicates
<1>1. StoreInv => NoDuplicates
  BY KeyStoreAssumption
     DEF StoreInv, TypeInv, TypeOK, DistinctInv, RamWhole, NoDuplicates
<1>2. Init => StoreInv
  BY InitStoreInv
<1>3. StoreInv /\ [Next]_vars => StoreInv'
  BY StepStoreInv
<1> QED
  BY <1>1, <1>2, <1>3, PTL DEF Spec

-----------------------------------------------------------------------------
(***************************************************************************)
(* Granted keys survive and revoked keys stay revoked                      *)
(***************************************************************************)

\* A granted key is in RAM while the RAM array is whole and in NVS otherwise; the
\* key being revoked is no longer granted.
GrantedInv ==
    /\ RamWhole =>
         \A k \in granted : \E m \in Slots : m < s_count /\ s_keys[m] = k
    /\ ~RamWhole => \A k \in granted : \E m \in Slots : nvs[m] = k
    /\ pc \in RevokePcs => key \notin granted

\* A revoked key is in no published slot and nowhere in NVS; the key being added
\* is not a revoked one.
RevokedInv ==
    /\ pc # "off" => \A m \in Slots : m < s_count => s_keys[m] \notin revoked
    /\ \A m \in Slots : nvs[m] \notin revoked
    /\ pc \in AddPcs => key \notin revoked

\* Every step keeps the granted keys.
LEMMA StepGrantedInv ==
    ASSUME Clean, StoreInv, StoreInv', GrantedInv, [Next]_vars
    PROVE  GrantedInv'
<1> USE KeyStoreAssumption
    DEF StoreInv, TypeInv, TypeOK, IndexInv, ramVars, opVars, histVars, Return,
        GrantedInv, RamWhole
<1>1. ASSUME NEW k \in Keys, AddRefused(k) \/ AddStart(k) \/ RevokeMissing(k)
      PROVE  GrantedInv'
  BY <1>1 DEF AddRefused, AddStart, RevokeMissing
<1>2. CASE AddWrite \/ AddFill
  BY <1>2 DEF AddWrite, AddFill
<1>3. CASE AddPublish
  <2>1. ASSUME NEW k \in granted'
        PROVE  \E m \in Slots : m < s_count' /\ s_keys'[m] = k
    BY <1>3, <2>1 DEF AddPublish, KeyInv
  <2> QED
    BY <1>3, <2>1 DEF AddPublish
<1>4. ASSUME NEW k \in Keys, RevokeStart(k)
      PROVE  GrantedInv'
  BY <1>4 DEF RevokeStart
<1>5. CASE RevokeErase
  <2>1. pc = "rev_erase" /\ pc' \in {"idle", "rev_rewrite", "rev_shrink"}
    BY <1>5 DEF RevokeErase
  <2>2. UNCHANGED <<s_keys, s_count, key, idx, granted>>
    BY <1>5 DEF RevokeErase
  <2>3. CASE pc' \in {"idle", "rev_rewrite"}
    BY <2>1, <2>2, <2>3
  <2>4. CASE pc' = "rev_shrink"
    <3>1. \A m \in Slots : m < s_count /\ s_keys[m] # key =>
                            m < s_count - 1
      BY <1>5, <2>1, <2>4 DEF RevokeErase, KeyInv
    <3>2. \A m \in Slots : m < s_count - 1 => nvs'[m] = s_keys[m]
      BY <2>2, <2>4 DEF NvsInv, NvsSlot
    <3> QED
      BY <2>1, <2>2, <2>4, <3>1, <3>2
  <2> QED
    BY <2>1, <2>3, <2>4
<1>6. CASE RevokeRewrite
  BY <1>6 DEF RevokeRewrite
<1>7. CASE RevokeEraseLast
  <2>1. pc = "rev_erase_last" /\ pc' = "rev_move" /\ i' = idx
    BY <1>7 DEF RevokeEraseLast
  <2>2. UNCHANGED <<s_keys, s_count, key, idx, granted>>
    BY <1>7 DEF RevokeEraseLast
  <2>3. ASSUME NEW k \in granted
        PROVE  \E m \in Slots : nvs'[m] = k
    <3>1. PICK m \in Slots : m < s_count /\ s_keys[m] = k
      BY <2>1
    <3>2. m # idx
      BY <2>1, <2>3, <3>1 DEF KeyInv
    <3>3. CASE m < idx
      BY <2>1, <2>2, <3>1, <3>3 DEF NvsInv, NvsSlot
    <3>4. CASE m > idx
      <4>1. m - 1 \in Slots /\ m - 1 < s_count - 1 /\ ~(m - 1 < idx)
        BY <2>1, <3>1, <3>4
      <4>2. nvs'[m - 1] = s_keys[(m - 1) + 1]
        BY <2>1, <2>2, <4>1 DEF NvsInv, NvsSlot
      <4> QED
        BY <3>1, <4>1, <4>2
    <3> QED
      BY <2>1, <3>2, <3>3, <3>4
  <2> QED
    BY <2>1, <2>2, <2>3
<1>8. CASE RevokeMove
  BY <1>8 DEF RevokeMove
<1>9. CASE RevokeShrink
  <2>1. ASSUME NEW k \in granted
        PROVE  \E m \in Slots : m < s_count - 1 /\ s_keys[m] = k
    <3>1. PICK m \in Slots : nvs[m] = k
      BY <1>9 DEF RevokeShrink
    <3>2. k # NoKey
      OBVIOUS
    <3> QED
      BY <1>9, <3>1, <3>2 DEF RevokeShrink, NvsInv, NvsSlot
  <2> QED
    BY <1>9, <2>1 DEF RevokeShrink
<1>10. CASE PowerLoss
  <2>1. CASE RamWhole
    <3>1. pc \in {"idle", "rev_erase"} \cup AddPcs
      BY <1>10, <2>1 DEF PowerLoss, Clean, MayFail
    <3>2. \A m \in Slots : m < s_count => nvs[m] = s_keys[m]
      BY <3>1 DEF NvsInv, NvsSlot
    <3> QED
      BY <1>10, <2>1, <3>2 DEF PowerLoss
  <2>2. CASE ~RamWhole
    BY <1>10, <2>2 DEF PowerLoss
  <2> QED
    BY <2>1, <2>2
<1>11. CASE key_store_init
  <2>1. \A m \in Slots : nvs'[m] # NoKey => m < s_count' /\ s_keys'[m] = nvs'[m]
    BY <1>11 DEF key_store_init, NvsInv, NvsSlot
  <2>2. NoKey \notin granted
    OBVIOUS
  <2> QED
    BY <1>11, <2>1, <2>2 DEF key_store_init
<1>12. CASE UNCHANGED vars
  BY <1>12 DEF vars
<1> QED
  BY <1>1, <1>2, <1>3, <1>4, <1>5, <1>6, <1>7, <1>8, <1>9, <1>10, <1>11, <1>12
     DEF Next, key_store_add, key_store_revoke

\* Every step keeps the revoked keys out.
LEMMA StepRevokedInv ==
    ASSUME Clean, StoreInv, StoreInv', RevokedInv, [Next]_vars
    PROVE  RevokedInv'
<1> USE KeyStoreAssumption
    DEF StoreInv, TypeInv, TypeOK, IndexInv, ramVars, opVars, histVars, Return,
        RevokedInv
<1>1. ASSUME NEW k \in Keys, AddRefused(k) \/ AddStart(k) \/ RevokeMissing(k)
      PROVE  RevokedInv'
  BY <1>1 DEF AddRefused, AddStart, RevokeMissing
<1>2. ASSUME NEW n \in Slots, NEW v, NEW refusals, NEW r,
             Store(n, v, refusals, r), v \notin revoked
      PROVE  \A m \in Slots : nvs'[m] \notin revoked
  BY <1>2 DEF Store
<1>3. NoKey \notin revoked
  OBVIOUS
<1>4. CASE AddWrite
  <2>1. \A m \in Slots : nvs'[m] \notin revoked
    BY <1>2, <1>4 DEF AddWrite, storage_hal_write_blob
  <2> QED
    BY <1>4, <2>1 DEF AddWrite
<1>5. CASE AddFill
  BY <1>5 DEF AddFill
<1>6. CASE AddPublish
  BY <1>6 DEF AddPublish, KeyInv
<1>7. ASSUME NEW k \in Keys, RevokeStart(k)
      PROVE  RevokedInv'
  BY <1>7 DEF RevokeStart
<1>8. CASE RevokeErase
  <2>1. \A m \in Slots : nvs'[m] \notin revoked
    BY <1>2, <1>3, <1>8 DEF RevokeErase, storage_hal_erase_key
  <2> QED
    BY <1>8, <2>1 DEF RevokeErase
<1>9. CASE RevokeRewrite
  <2>1. s_keys[i + 1] \notin revoked
    BY <1>9 DEF RevokeRewrite
  <2>2. \A m \in Slots : nvs'[m] \notin revoked
    BY <1>2, <1>9, <2>1 DEF RevokeRewrite, storage_hal_write_blob
  <2> QED
    BY <1>9, <2>2 DEF RevokeRewrite
<1>10. CASE RevokeEraseLast
  <2>1. s_count - 1 \in Slots
    BY <1>10 DEF RevokeEraseLast
  <2>2. \A m \in Slots : nvs'[m] \notin revoked
    BY <1>2, <1>3, <1>10, <2>1 DEF RevokeEraseLast, storage_hal_erase_key
  <2> QED
    BY <1>10, <2>2 DEF RevokeEraseLast
<1>11. CASE RevokeMove
  BY <1>11 DEF RevokeMove
<1>12. CASE RevokeShrink
  <2>1. \A m \in Slots : m < s_count - 1 => s_keys[m] # key
    BY <1>12 DEF RevokeShrink, NvsInv, NvsSlot, KeyInv
  <2>2. \A m \in Slots : nvs[m] # key
    BY <1>12 DEF RevokeShrink, KeyInv
  <2> QED
    BY <1>12, <2>1, <2>2 DEF RevokeShrink
<1>13. CASE PowerLoss
  BY <1>13 DEF PowerLoss
<1>14. CASE key_store_init
  BY <1>14 DEF key_store_init
<1>15. CASE UNCHANGED vars
  BY <1>15 DEF vars
<1> QED
  BY <1>1, <1>4, <1>5, <1>6, <1>7, <1>8, <1>9, <1>10, <1>11, <1>12, <1>13,
     <1>14, <1>15 DEF Next, key_store_add, key_store_revoke

\* A key whose key_store_add returned OK is honoured until its revocation is
\* asked for, across every power loss that spares the compaction of a revoke.
THEOREM GrantedKeysSurvive ==
    ASSUME Clean
    PROVE  Spec => []GrantedSurvive
<1>1. Init => StoreInv /\ GrantedInv
  BY InitStoreInv DEF Init, GrantedInv
<1>2. StoreInv /\ GrantedInv /\ [Next]_vars => (StoreInv /\ GrantedInv)'
  BY StepStoreInv, StepGrantedInv
<1>3. StoreInv /\ GrantedInv => GrantedSurvive
  <2> SUFFICES ASSUME StoreInv, GrantedInv, NEW k \in granted
               PROVE  k \in Honoured
    BY DEF GrantedSurvive
  <2> USE KeyStoreAssumption DEF StoreInv, TypeInv, TypeOK, GrantedInv, RamWhole
  <2>1. k \in Keys /\ k # NoKey
    OBVIOUS
  <2>2. CASE pc = "off"
    <3>1. PICK m \in Slots : nvs[m] = k
      BY <2>2
    <3>2. \A l \in 0 .. m : nvs[l] # NoKey
      BY <2>1, <2>2, <3>1 DEF DistinctInv
    <3> QED
      BY <2>2, <3>1, <3>2 DEF Honoured, BootSet
  <2>3. CASE pc \in {"rev_move", "rev_shrink"}
    <3>1. PICK m \in Slots : nvs[m] = k
      BY <2>3
    <3>2. \E l \in 0 .. s_count - 1 : s_keys[l] = k
      BY <2>1, <2>3, <3>1 DEF NvsInv, NvsSlot, IndexInv
    <3> QED
      BY <2>3, <3>2 DEF Honoured, RamSet
  <2>4. CASE RamWhole
    BY <2>4 DEF Honoured, RamSet
  <2> QED
    BY <2>2, <2>3, <2>4
<1> QED
  BY <1>1, <1>2, <1>3, PTL DEF Spec

\* A key whose key_store_revoke returned OK is not honoured again, also after a
\* reboot, until somebody adds it again.
THEOREM RevokedKeysStayRevoked ==
    ASSUME Clean
    PROVE  Spec => []RevokedStayRevoked
<1>1. Init => StoreInv /\ RevokedInv
  BY InitStoreInv DEF Init, RevokedInv
<1>2. StoreInv /\ RevokedInv /\ [Next]_vars => (StoreInv /\ RevokedInv)'
  BY StepStoreInv, StepRevokedInv
<1>3. StoreInv /\ RevokedInv => RevokedStayRevoked
  BY KeyStoreAssumption
     DEF StoreInv, TypeInv, TypeOK, RevokedInv, RevokedStayRevoked, Honoured,
         BootSet, RamSet
<1> QED
  BY <1>1, <1>2, <1>3, PTL DEF Spec

-----------------------------------------------------------------------------
(***************************************************************************)
(* The key store implements the key set                                    *)
(***************************************************************************)

\* While the RAM array is moved, its slot at i is stale: it is the key being
\* revoked until the first move, and a copy of the slot before it from then on.
StaleInv ==
    /\ pc = "rev_move" => s_keys[i] = IF i = idx THEN key ELSE s_keys[i - 1]
    /\ pc = "rev_shrink" =>
         s_keys[s_count - 1] = IF idx = s_count - 1 THEN key ELSE s_keys[s_count - 2]

\* The keys that NVS holds.
NvsSet == {nvs[m] : m \in Slots} \ {NoKey}

\* Every step keeps the account of the stale slot.
LEMMA StepStaleInv ==
    ASSUME Clean, StoreInv, StaleInv, [Next]_vars
    PROVE  StaleInv'
<1> USE KeyStoreAssumption
    DEF StoreInv, TypeInv, TypeOK, IndexInv, ramVars, opVars, histVars, Return,
        StaleInv
<1>1. ASSUME NEW k \in Keys,
             AddRefused(k) \/ AddStart(k) \/ RevokeMissing(k) \/ RevokeStart(k)
      PROVE  StaleInv'
  BY <1>1 DEF AddRefused, AddStart, RevokeMissing, RevokeStart
<1>2. CASE AddWrite \/ AddFill \/ AddPublish
  BY <1>2 DEF AddWrite, AddFill, AddPublish
<1>3. CASE RevokeErase
  <2>1. pc = "rev_erase" /\ pc' \in {"idle", "rev_rewrite", "rev_shrink"}
    BY <1>3 DEF RevokeErase
  <2>2. pc' = "rev_shrink" => ~(idx < s_count - 1)
    BY <1>3 DEF RevokeErase
  <2>3. UNCHANGED <<s_keys, s_count, key, idx>>
    BY <1>3 DEF RevokeErase
  <2> QED
    BY <2>1, <2>2, <2>3 DEF KeyInv
<1>4. CASE RevokeRewrite
  <2>1. pc' \in {"idle", "rev_rewrite", "rev_erase_last"}
    BY <1>4 DEF RevokeRewrite
  <2> QED
    BY <2>1
<1>5. CASE RevokeEraseLast
  BY <1>5 DEF RevokeEraseLast, KeyInv
<1>6. CASE RevokeMove
  BY <1>6 DEF RevokeMove
<1>7. CASE RevokeShrink \/ PowerLoss \/ key_store_init
  BY <1>7 DEF RevokeShrink, PowerLoss, key_store_init
<1>8. CASE UNCHANGED vars
  BY <1>8 DEF vars
<1> QED
  BY <1>1, <1>2, <1>3, <1>4, <1>5, <1>6, <1>7, <1>8
     DEF Next, key_store_add, key_store_revoke

\* The published slots hold at most s_count keys.
LEMMA RamSetBound ==
    ASSUME TypeOK
    PROVE  IsFiniteSet(RamSet) /\ Cardinality(RamSet) <= s_count
<1> DEFINE D == 0 .. s_count - 1
           f == [j \in D |-> s_keys[j]]
<1>1. s_count \in Nat /\ KEY_MAX \in Nat
  BY KeyStoreAssumption DEF TypeOK
<1>2. IsFiniteSet(D) /\ Cardinality(D) = s_count
  <2>1. IsFiniteSet(D) /\ Cardinality(D) = IF 0 > s_count - 1 THEN 0 ELSE s_count - 1 - 0 + 1
    BY <1>1, FS_Interval
  <2> QED
    BY <1>1, <2>1
<1>3. f \in Surjection(D, RamSet)
  BY DEF Surjection, RamSet
<1> QED
  BY <1>2, <1>3, FS_Surjection

\* How what NVS holds follows what the RAM array and the next boot find.  A boot
\* loads all of it, because NVS has no gap; an add that is written but not yet
\* published is ahead in NVS; while the RAM array is moved, the key being revoked
\* is still found in it, if at all, in the one stale slot.
NvsFollows ==
    /\ pc = "off" => BootSet = NvsSet
    /\ pc \in {"idle", "add_write", "rev_erase"} => NvsSet = RamSet
    /\ pc \in {"add_fill", "add_publish"} => NvsSet = RamSet \cup {key}
    /\ pc \in {"rev_move", "rev_shrink"} =>
         /\ NvsSet = RamSet \ {key}
         /\ key \in RamSet <=> (idx = IF pc = "rev_move" THEN i ELSE s_count - 1)

\* While the lock is off.
LEMMA BootSetIsNvsSet ==
    ASSUME StoreInv, pc = "off"
    PROVE  BootSet = NvsSet
<1> USE KeyStoreAssumption DEF StoreInv, TypeInv, TypeOK, DistinctInv, RamWhole
<1>1. \A m \in Slots : nvs[m] # NoKey => \A l \in 0 .. m : nvs[l] # NoKey
  OBVIOUS
<1> QED
  BY <1>1 DEF BootSet, NvsSet

\* Between two operations, and in an add or a revoke until the RAM array changes.
LEMMA NvsSetBeforeMove ==
    ASSUME StoreInv
    PROVE  /\ pc \in {"idle", "add_write", "rev_erase"} => NvsSet = RamSet
           /\ pc \in {"add_fill", "add_publish"} => NvsSet = RamSet \cup {key}
<1> USE KeyStoreAssumption
    DEF StoreInv, TypeInv, TypeOK, IndexInv, DistinctInv, RamWhole
<1>1. \A m \in 0 .. s_count - 1 : m \in Slots /\ m < s_count
  OBVIOUS
<1>2. CASE pc \in {"idle", "add_write", "rev_erase"}
  <2>1. \A m \in Slots : nvs[m] = IF m < s_count THEN s_keys[m] ELSE NoKey
    BY <1>2 DEF NvsInv, NvsSlot
  <2>2. \A m \in Slots : m < s_count => s_keys[m] # NoKey /\ m \in 0 .. s_count - 1
    BY <1>2
  <2> QED
    BY <1>1, <1>2, <2>1, <2>2 DEF NvsSet, RamSet
<1>3. CASE pc \in {"add_fill", "add_publish"}
  <2>1. \A m \in Slots : nvs[m] = IF m < s_count THEN s_keys[m]
                                  ELSE IF m = s_count THEN key ELSE NoKey
    BY <1>3 DEF NvsInv, NvsSlot
  <2>2. \A m \in Slots : m < s_count => s_keys[m] # NoKey /\ m \in 0 .. s_count - 1
    BY <1>3
  <2>3. s_count \in Slots /\ key # NoKey
    BY <1>3
  <2> QED
    BY <1>1, <1>3, <2>1, <2>2, <2>3 DEF NvsSet, RamSet
<1> QED
  BY <1>2, <1>3

\* While the RAM array is moved and shrunk.
LEMMA NvsSetDuringMove ==
    ASSUME StoreInv, StaleInv, pc \in {"rev_move", "rev_shrink"}
    PROVE  /\ NvsSet = RamSet \ {key}
           /\ key \in RamSet <=> (idx = IF pc = "rev_move" THEN i ELSE s_count - 1)
<1> USE KeyStoreAssumption DEF StoreInv, TypeInv, TypeOK, IndexInv
<1>1. \A m \in Slots : nvs[m] # key
  BY DEF KeyInv
<1>2. CASE pc = "rev_move"
  <2>1. \A m \in Slots : nvs[m] = IF m < i THEN s_keys[m]
                                  ELSE IF m < s_count - 1 THEN s_keys[m + 1] ELSE NoKey
    BY <1>2 DEF NvsInv, NvsSlot
  <2>2. s_keys[i] = IF i = idx THEN key ELSE s_keys[i - 1]
    BY <1>2 DEF StaleInv
  <2>3. \A m \in Slots : m < s_count - 1 => nvs[m] # NoKey
    BY <1>2 DEF DistinctInv
  <2>4. ASSUME NEW x \in NvsSet
        PROVE  x \in RamSet \ {key}
    <3>1. PICK m \in Slots : x = nvs[m] /\ x # NoKey
      BY DEF NvsSet
    <3>2. CASE m < i
      BY <1>1, <1>2, <2>1, <3>1, <3>2 DEF RamSet
    <3>3. CASE ~(m < i)
      <4>1. m + 1 \in 0 .. s_count - 1 /\ x = s_keys[m + 1]
        BY <1>2, <2>1, <3>1, <3>3
      <4> QED
        BY <1>1, <3>1, <4>1 DEF RamSet
    <3> QED
      BY <3>2, <3>3
  <2>5. ASSUME NEW n \in 0 .. s_count - 1, s_keys[n] # key
        PROVE  s_keys[n] \in NvsSet
    <3>1. CASE n < i
      <4>1. n \in Slots /\ nvs[n] = s_keys[n] /\ nvs[n] # NoKey
        BY <1>2, <2>1, <2>3, <3>1
      <4> QED
        BY <4>1 DEF NvsSet
    <3>2. CASE n = i
      <4>1. i > idx /\ s_keys[n] = s_keys[i - 1]
        BY <1>2, <2>2, <2>5, <3>2
      <4>2. i - 1 \in Slots /\ nvs[i - 1] = s_keys[i - 1] /\ nvs[i - 1] # NoKey
        BY <1>2, <2>1, <2>3, <4>1
      <4> QED
        BY <4>1, <4>2 DEF NvsSet
    <3>3. CASE n > i
      <4>1. n - 1 \in Slots /\ ~(n - 1 < i) /\ n - 1 < s_count - 1
        BY <1>2, <3>3
      <4>2. nvs[n - 1] = s_keys[(n - 1) + 1] /\ nvs[n - 1] # NoKey
        BY <2>1, <2>3, <4>1
      <4>3. (n - 1) + 1 = n
        OBVIOUS
      <4> QED
        BY <4>1, <4>2, <4>3 DEF NvsSet
    <3> QED
      BY <1>2, <3>1, <3>2, <3>3
  <2>6. NvsSet = RamSet \ {key}
    BY <2>4, <2>5 DEF RamSet
  <2>7. key \in RamSet <=> i = idx
    <3>1. CASE i = idx
      <4>1. i \in 0 .. s_count - 1 /\ s_keys[i] = key
        BY <1>2, <2>2, <3>1
      <4> QED
        BY <3>1, <4>1 DEF RamSet
    <3>2. ASSUME i # idx, NEW n \in 0 .. s_count - 1, s_keys[n] = key
          PROVE  FALSE
      <4>1. i - 1 \in Slots /\ s_keys[i] = nvs[i - 1]
        BY <1>2, <2>1, <2>2, <3>2
      <4>2. n < i => n \in Slots /\ nvs[n] = s_keys[n]
        BY <1>2, <2>1
      <4>3. n > i => n - 1 \in Slots /\ nvs[n - 1] = s_keys[(n - 1) + 1] /\ (n - 1) + 1 = n
        BY <1>2, <2>1
      <4> QED
        BY <1>1, <1>2, <3>2, <4>1, <4>2, <4>3
    <3> QED
      BY <3>1, <3>2 DEF RamSet
  <2> QED
    BY <1>2, <2>6, <2>7
<1>3. CASE pc = "rev_shrink"
  <2>1. \A m \in Slots : nvs[m] = IF m < s_count - 1 THEN s_keys[m] ELSE NoKey
    BY <1>3 DEF NvsInv, NvsSlot
  <2>2. s_keys[s_count - 1] = IF idx = s_count - 1 THEN key ELSE s_keys[s_count - 2]
    BY <1>3 DEF StaleInv
  <2>3. \A m \in Slots : m < s_count - 1 => nvs[m] # NoKey
    BY <1>3 DEF DistinctInv
  <2>4. s_count - 1 \in Slots /\ idx <= s_count - 1
    BY <1>3
  <2>5. ASSUME NEW x \in NvsSet
        PROVE  x \in RamSet \ {key}
    <3>1. PICK m \in Slots : x = nvs[m] /\ x # NoKey
      BY DEF NvsSet
    <3>2. m \in 0 .. s_count - 1 /\ x = s_keys[m]
      BY <2>1, <2>4, <3>1
    <3> QED
      BY <1>1, <3>1, <3>2 DEF RamSet
  <2>6. ASSUME NEW n \in 0 .. s_count - 1, idx # s_count - 1 \/ n # s_count - 1
        PROVE  s_keys[n] \in NvsSet
    <3>1. CASE n < s_count - 1
      <4>1. n \in Slots /\ nvs[n] = s_keys[n] /\ nvs[n] # NoKey
        BY <2>1, <2>3, <2>4, <3>1
      <4> QED
        BY <4>1 DEF NvsSet
    <3>2. CASE n = s_count - 1
      <4>1. s_keys[n] = s_keys[s_count - 2] /\ s_count - 2 \in Slots
        BY <2>2, <2>4, <2>6, <3>2
      <4>2. nvs[s_count - 2] = s_keys[s_count - 2] /\ nvs[s_count - 2] # NoKey
        BY <2>1, <2>3, <2>4, <4>1
      <4> QED
        BY <4>1, <4>2 DEF NvsSet
    <3> QED
      BY <2>4, <3>1, <3>2
  <2>7. key \in RamSet <=> idx = s_count - 1
    <3>1. CASE idx = s_count - 1
      <4>1. s_count - 1 \in 0 .. s_count - 1 /\ s_keys[s_count - 1] = key
        BY <2>2, <2>4, <3>1
      <4> QED
        BY <3>1, <4>1 DEF RamSet
    <3>2. CASE idx # s_count - 1
      BY <1>1, <2>6, <3>2 DEF RamSet, NvsSet
    <3> QED
      BY <3>1, <3>2
  <2>8. NvsSet = RamSet \ {key}
    BY <1>1, <2>2, <2>5, <2>6 DEF RamSet
  <2> QED
    BY <1>3, <2>7, <2>8
<1> QED
  BY <1>2, <1>3

\* Put together, for the present state and, by PTL, for the next.
LEMMA NvsFollowsRam == StoreInv /\ StaleInv => NvsFollows
BY BootSetIsNvsSet, NvsSetBeforeMove, NvsSetDuringMove DEF NvsFollows

\* The instance of KeySet counts as this module does.
LEMMA SameCardinality ==
    ASSUME NEW S
    PROVE  Abstract!Cardinality(S) = Cardinality(S)
BY DEF Cardinality, IsFiniteSet, Abstract!Cardinality, Abstract!IsFiniteSet

\* key is in no published slot yet, and there is a slot for it.
LEMMA RoomForKey ==
    ASSUME StoreInv, pc \in {"add_fill", "add_publish"}
    PROVE  key \in Keys /\ key \notin RamSet /\ Cardinality(RamSet) < KEY_MAX
<1> USE KeyStoreAssumption DEF StoreInv, TypeInv, TypeOK, IndexInv
<1>1. key \in Keys /\ key \notin RamSet
  BY DEF KeyInv, RamSet
<1>2. Cardinality(RamSet) \in Nat /\ Cardinality(RamSet) <= s_count
  BY RamSetBound, FS_CardinalityType
<1>3. s_count < KEY_MAX /\ s_count \in Nat
  OBVIOUS
<1> QED
  BY <1>1, <1>2, <1>3

\* AddPublish is the moment at which a key is added, unless a power loss has made
\* it one before: NVS has it already, RAM gets it now.
LEMMA PublishAdds ==
    ASSUME StoreInv, NvsFollows, NvsFollows', AddPublish
    PROVE  Abstract!Add(key)
<1>1. pc = "add_publish" /\ pc' = "idle" /\ nvs' = nvs
  BY DEF AddPublish, Return
<1>2. Honoured = RamSet /\ Honoured' = RamSet'
  BY <1>1 DEF Honoured
<1>3. RamSet' = RamSet \cup {key}
  BY <1>1 DEF NvsFollows, NvsSet
<1> QED
  BY <1>1, <1>2, <1>3, RoomForKey, SameCardinality DEF Abstract!Add

\* The steps that move and shrink the RAM array revoke the key, the one that
\* overwrites or drops its slot, or change nothing.
LEMMA MoveRevokes ==
    ASSUME NvsFollows, NvsFollows', RevokeMove \/ RevokeShrink,
           pc' = "rev_move" => i' # idx', pc' = "rev_shrink" => idx' # s_count' - 1
    PROVE  Abstract!Revoke(key) \/ UNCHANGED Honoured
<1>1. /\ pc \in {"rev_move", "rev_shrink"} /\ nvs' = nvs /\ key' = key
      /\ pc' \in {"rev_move", "rev_shrink", "idle"}
  BY DEF RevokeMove, RevokeShrink, Return, opVars
<1>2. Honoured = RamSet /\ Honoured' = RamSet'
  BY <1>1 DEF Honoured
<1>3. NvsSet = RamSet \ {key} /\ NvsSet' = NvsSet
  BY <1>1 DEF NvsFollows, NvsSet
<1>4. RamSet' = NvsSet'
  BY <1>1 DEF NvsFollows
<1> QED
  BY <1>2, <1>3, <1>4 DEF Abstract!Revoke

\* A power loss completes what NVS is ahead of RAM with: the add of a key that is
\* written, the revocation of one that is erased.  Inside the compaction there is
\* none, by the assumption.
LEMMA PowerLossCompletes ==
    ASSUME Clean, StoreInv, NvsFollows, NvsFollows', PowerLoss
    PROVE  Abstract!Add(key) \/ Abstract!Revoke(key) \/ UNCHANGED Honoured
<1>1. pc # "off" /\ pc' = "off" /\ nvs' = nvs /\ NvsSet' = NvsSet
  BY DEF PowerLoss, NvsSet
<1>2. pc \in {"idle", "add_write", "rev_erase", "add_fill", "add_publish",
              "rev_move", "rev_shrink"}
  BY <1>1 DEF PowerLoss, Clean, MayFail, StoreInv, TypeInv, TypeOK, AddPcs, RevokePcs
<1>3. Honoured = RamSet /\ Honoured' = NvsSet
  BY <1>1 DEF Honoured, NvsFollows
<1>4. CASE pc \in {"idle", "add_write", "rev_erase"}
  BY <1>3, <1>4 DEF NvsFollows
<1>5. CASE pc \in {"add_fill", "add_publish"}
  BY <1>3, <1>5, RoomForKey, SameCardinality DEF NvsFollows, Abstract!Add
<1>6. CASE pc \in {"rev_move", "rev_shrink"}
  BY <1>3, <1>6 DEF NvsFollows, Abstract!Revoke
<1> QED
  BY <1>2, <1>4, <1>5, <1>6

\* Every step of the key store is a step of the key set or a stutter.
LEMMA StepImplements ==
    ASSUME Clean, StoreInv, StaleInv, NvsFollows, NvsFollows', [Next]_vars
    PROVE  [Abstract!Next]_Honoured
<1> USE DEF ramVars, opVars, histVars, Return
<1>1. key \in Keys
  BY DEF StoreInv, TypeInv, TypeOK
<1>2. CASE AddPublish
  BY <1>1, <1>2, PublishAdds DEF Abstract!Next
<1>3. CASE RevokeMove \/ RevokeShrink
  <2>1. /\ pc' = "rev_move" => i' # idx'
        /\ pc' = "rev_shrink" => idx' # s_count' - 1
    BY <1>3, KeyStoreAssumption
       DEF RevokeMove, RevokeShrink, StoreInv, TypeInv, TypeOK, IndexInv
  <2> QED
    BY <1>1, <1>3, <2>1, MoveRevokes DEF Abstract!Next
<1>4. CASE PowerLoss
  BY <1>1, <1>4, PowerLossCompletes DEF Abstract!Next
<1>5. CASE key_store_init
  <2>1. Honoured = NvsSet /\ Honoured' = RamSet' /\ NvsSet' = NvsSet
    BY <1>5 DEF key_store_init, Honoured, NvsFollows, NvsSet
  <2> QED
    BY <1>5, <2>1 DEF key_store_init, NvsFollows
<1>6. CASE AddFill
  <2>1. Honoured = RamSet /\ Honoured' = RamSet'
    BY <1>6 DEF AddFill, Honoured
  <2>2. \A j \in 0 .. s_count - 1 : s_keys'[j] = s_keys[j]
    BY <1>6, KeyStoreAssumption DEF AddFill, StoreInv, TypeInv, TypeOK
  <2> QED
    BY <1>6, <2>1, <2>2 DEF AddFill, RamSet
<1>7. ASSUME pc # "off", pc' # "off", UNCHANGED <<s_keys, s_count>>
      PROVE  UNCHANGED Honoured
  BY <1>7 DEF Honoured, RamSet
<1>8. ASSUME NEW k \in Keys,
             AddRefused(k) \/ AddStart(k) \/ RevokeMissing(k) \/ RevokeStart(k)
      PROVE  UNCHANGED Honoured
  BY <1>7, <1>8 DEF AddRefused, AddStart, RevokeMissing, RevokeStart
<1>9. CASE AddWrite \/ RevokeErase \/ RevokeRewrite \/ RevokeEraseLast
  BY <1>7, <1>9 DEF AddWrite, RevokeErase, RevokeRewrite, RevokeEraseLast
<1>10. CASE UNCHANGED vars
  BY <1>10 DEF vars, Honoured, RamSet, BootSet
<1> QED
  BY <1>2, <1>3, <1>4, <1>5, <1>6, <1>8, <1>9, <1>10
     DEF Next, key_store_add, key_store_revoke

\* "Persistent": the key store is the key set that key_store.h promises.  Power
\* losses and boots included, every step adds one key, revokes one key or leaves
\* the honoured set as it is, and never more than KEY_MAX keys are honoured;
\* unless a failure hits the compaction of a revoke or a commit fails.
THEOREM KeyStoreImplementsKeySet ==
    ASSUME Clean
    PROVE  Spec => ImplementsKeySet
<1>1. Init => StoreInv /\ StaleInv
  BY InitStoreInv DEF Init, StaleInv
<1>2. Init => Abstract!Init
  BY KeyStoreAssumption DEF Init, Abstract!Init, Honoured, BootSet
<1>3. StoreInv /\ StaleInv /\ [Next]_vars => (StoreInv /\ StaleInv)'
  BY StepStoreInv, StepStaleInv
<1>4. StoreInv /\ StaleInv /\ NvsFollows /\ NvsFollows' /\ [Next]_vars
        => [Abstract!Next]_Honoured
  BY StepImplements
<1> QED
  BY <1>1, <1>2, <1>3, <1>4, NvsFollowsRam, PTL
     DEF Spec, ImplementsKeySet, Abstract!Spec

-----------------------------------------------------------------------------
(***************************************************************************)
(* The resolver.  The lock-free iteration over the key store never accepts *)
(* a key that was not in the store, with every HAL failure and every power *)
(* loss that KeyStore knows, torn ones included; and it misses no key but  *)
(* one that a revoke moves past it or removes.                             *)
(***************************************************************************)

\* What is in the store during a resolution has been recorded; so has the slot
\* that key_store_get is about to copy, even when the count has since shrunk
\* below it and the slot is stale.
HeldInv ==
    /\ Resolving => Holding \subseteq held
    /\ rpc = "copy" => s_keys[index] \in held
    /\ rpc = "accepted" => signer \in held

ResolverInv == TypeInv /\ RTypeOK /\ HeldInv

\* Published slots are slots, so everything the store holds is a slot's content.
LEMMA HoldingInSlot == TypeInv => Holding \subseteq Slot
BY KeyStoreAssumption DEF TypeInv, TypeOK, IndexInv, Holding, RamSet

\* Nothing is being resolved before the first boot.
LEMMA InitResolverInv == RInit => ResolverInv
<1> SUFFICES ASSUME RInit PROVE ResolverInv
  OBVIOUS
<1>1. TypeInv /\ TypeOK
  BY InitTypeInv DEF RInit, TypeInv
<1>2. index \in 0 .. KEY_MAX
  BY KeyStoreAssumption DEF RInit
<1>3. RTypeOK /\ HeldInv
  BY <1>1, <1>2 DEF RInit, RTypeOK, HeldInv, Resolving
<1> QED
  BY <1>1, <1>3 DEF ResolverInv

\* A step of key_store_add or key_store_revoke puts into a slot only a key that
\* is published or that it has persisted before.
LEMMA SlotsFromHolding ==
    ASSUME TypeInv, key_store_add \/ key_store_revoke, NEW n \in Slots
    PROVE  s_keys'[n] = s_keys[n] \/ s_keys'[n] \in Holding
<1> USE KeyStoreAssumption
    DEF TypeInv, TypeOK, IndexInv, ramVars
<1>1. CASE AddFill
  BY <1>1 DEF AddFill, Holding
<1>2. CASE RevokeMove
  <2>1. s_keys[i + 1] \in RamSet
    BY <1>2 DEF RevokeMove, RamSet
  <2>2. s_keys'[n] = IF n = i THEN s_keys[i + 1] ELSE s_keys[n]
    BY <1>2 DEF RevokeMove
  <2> QED
    BY <2>1, <2>2 DEF Holding
<1>3. CASE s_keys' = s_keys
  BY <1>3
<1> QED
  BY <1>1, <1>2, <1>3
     DEF key_store_add, key_store_revoke, AddRefused, AddStart, AddWrite,
         AddPublish, RevokeMissing, RevokeStart, RevokeErase, RevokeRewrite,
         RevokeEraseLast, RevokeShrink

\* Every step of the comm task, the Application task and power keeps the
\* invariant.
LEMMA StepResolverInv == ResolverInv /\ [RNext]_allVars => ResolverInv'
<1> SUFFICES ASSUME ResolverInv, [RNext]_allVars PROVE ResolverInv'
  OBVIOUS
<1> USE KeyStoreAssumption
<1>1. [Next]_vars
  BY DEF RNext, allVars, ResolveStart, GetCheck, GetCopy, ResolveEnd, AppTask,
         Power, Next
<1>2. TypeInv'
  BY <1>1, StepTypeInv DEF ResolverInv
<1>3. TypeOK'
  BY <1>2 DEF TypeInv
<1>4. TypeInv /\ RTypeOK /\ HeldInv
  BY DEF ResolverInv
<1>5. CASE UNCHANGED allVars
  BY <1>2, <1>4, <1>5
     DEF allVars, vars, rvars, ResolverInv, RTypeOK, TypeOK, HeldInv, Resolving,
         Holding, RamSet
<1>6. ASSUME NEW k \in Keys, ResolveStart(k)
      PROVE  ResolverInv'
  <2>1. Holding \subseteq Slot /\ Holding' = Holding
    BY <1>4, <1>6, HoldingInSlot DEF ResolveStart, vars, Holding, RamSet
  <2> QED
    BY <1>2, <1>3, <1>4, <1>6, <2>1
       DEF ResolveStart, ResolverInv, RTypeOK, HeldInv, Resolving
<1>7. CASE GetCheck
  <2>1. Holding' = Holding /\ RamSet' = RamSet /\ s_keys' = s_keys /\ RamSet \subseteq Holding
    BY <1>7 DEF GetCheck, vars, Holding, RamSet
  <2>2. RTypeOK'
    BY <1>3, <1>4, <1>7 DEF GetCheck, RTypeOK
  <2>3. rpc' = "copy" => s_keys[index] \in RamSet
    BY <1>4, <1>7 DEF GetCheck, RTypeOK, RamSet, TypeOK
  <2>4. HeldInv'
    BY <1>4, <1>7, <2>1, <2>3 DEF GetCheck, HeldInv, Resolving
  <2> QED
    BY <1>2, <2>2, <2>4 DEF ResolverInv
<1>8. CASE GetCopy
  <2>1. Holding' = Holding
    BY <1>8 DEF GetCopy, vars, Holding, RamSet
  <2>2. RTypeOK'
    BY <1>3, <1>4, <1>8 DEF GetCopy, RTypeOK
  <2>3. HeldInv'
    BY <1>4, <1>8, <2>1 DEF GetCopy, HeldInv, Resolving
  <2> QED
    BY <1>2, <2>2, <2>3 DEF ResolverInv
<1>9. CASE ResolveEnd \/ Power
  <2>1. Forget /\ signer' = signer
    BY <1>9 DEF ResolveEnd, Power
  <2>2. index' \in 0 .. KEY_MAX
    BY <2>1 DEF Forget
  <2>3. RTypeOK' /\ HeldInv'
    BY <1>3, <1>4, <2>1, <2>2 DEF Forget, RTypeOK, HeldInv, Resolving
  <2> QED
    BY <1>2, <2>3 DEF ResolverInv
<1>10. CASE AppTask
  <2>1. Holding' \subseteq Slot
    BY <1>2 DEF TypeInv, TypeOK, IndexInv, Holding, RamSet
  <2>2. RTypeOK'
    BY <1>3, <1>4, <1>10, <2>1 DEF AppTask, RTypeOK
  <2>3. rpc = "copy" => s_keys'[index] \in held'
    BY <1>4, <1>10, SlotsFromHolding DEF AppTask, HeldInv, Resolving, RTypeOK
  <2>4. HeldInv'
    BY <1>4, <1>10, <2>3 DEF AppTask, HeldInv, Resolving
  <2> QED
    BY <1>2, <2>2, <2>4 DEF ResolverInv
<1> QED
  BY <1>5, <1>6, <1>7, <1>8, <1>9, <1>10 DEF RNext

\* Neither task ever indexes outside the slots, whatever the other one does.
THEOREM ResolverTypeCorrect == RSpec => []RTypeOK
<1>1. ResolverInv => RTypeOK
  BY DEF ResolverInv
<1> QED
  BY <1>1, InitResolverInv, StepResolverInv, PTL DEF RSpec

\* "never an authorization bypass" (key_store.c): an accepted signer was in the
\* store during the resolution that accepted it.
THEOREM NoBypass == RSpec => []OnlyHeldAccepted
<1>1. ResolverInv => OnlyHeldAccepted
  BY DEF ResolverInv, HeldInv, OnlyHeldAccepted
<1> QED
  BY <1>1, InitResolverInv, StepResolverInv, PTL DEF RSpec

\* While the keys behind a revoked one move, the slot to be overwritten next holds
\* what the one before it was given, at first the revoked key; it is the last one
\* when the count shrinks.
MoveInv ==
    /\ pc \in {"rev_erase", "rev_rewrite", "rev_erase_last"} => s_keys[idx] = key
    /\ pc \in {"rev_move", "rev_shrink"} =>
          /\ idx <= i /\ i <= s_count - 1
          /\ i = idx => s_keys[i] = key
          /\ i > idx => s_keys[i - 1] = s_keys[i]
    /\ pc = "rev_shrink" => i = s_count - 1

\* A signer that cannot be missed is in a published slot that the reader has not
\* passed and that is not overwritten next; so "rejected" is only said of one that
\* can.
PassedInv ==
    /\ ~missable /\ rpc # "idle" => ~BeingRevoked(signer)
    /\ ~missable /\ Resolving =>
          \E j \in index .. s_count - 1 :
             s_keys[j] = signer /\ (pc \in {"rev_move", "rev_shrink"} => j # i)
    /\ rpc = "rejected" => missable

\* The search finds the key, the memmove goes up one slot at a time.
LEMMA StepMoveInv == TypeInv /\ MoveInv /\ [Next]_vars => MoveInv'
<1> SUFFICES ASSUME TypeInv, MoveInv, [Next]_vars PROVE MoveInv'
  OBVIOUS
<1> USE KeyStoreAssumption DEF TypeInv, TypeOK, IndexInv, MoveInv, ramVars, opVars
<1>1. CASE UNCHANGED vars
  BY <1>1 DEF vars
<1>2. ASSUME NEW k \in Keys, AddRefused(k) \/ AddStart(k) \/ RevokeMissing(k)
      PROVE  MoveInv'
  BY <1>2 DEF AddRefused, AddStart, RevokeMissing, Return
<1>3. CASE AddWrite \/ AddFill \/ AddPublish
  BY <1>3 DEF AddWrite, AddFill, AddPublish, Return
<1>4. ASSUME NEW k \in Keys, RevokeStart(k)
      PROVE  MoveInv'
  BY <1>4 DEF RevokeStart
<1>5. CASE RevokeErase
  BY <1>5 DEF RevokeErase, Return
<1>6. CASE RevokeRewrite
  BY <1>6 DEF RevokeRewrite, Return
<1>7. CASE RevokeEraseLast
  BY <1>7 DEF RevokeEraseLast
<1>8. CASE RevokeMove
  <2>1. /\ i' = i + 1 /\ idx' = idx /\ s_count' = s_count
        /\ s_keys'[i] = s_keys[i + 1] /\ s_keys'[i + 1] = s_keys[i + 1]
        /\ pc' = IF i + 1 < s_count - 1 THEN "rev_move" ELSE "rev_shrink"
    BY <1>8 DEF RevokeMove
  <2> QED
    BY <1>8, <2>1 DEF RevokeMove
<1>9. CASE RevokeShrink
  BY <1>9 DEF RevokeShrink, Return
<1>10. CASE PowerLoss \/ key_store_init
  BY <1>10 DEF PowerLoss, key_store_init
<1> QED
  BY <1>1, <1>2, <1>3, <1>4, <1>5, <1>6, <1>7, <1>8, <1>9, <1>10
     DEF Next, key_store_add, key_store_revoke

\* When a resolution begins, a published signer is in a slot that stays, or in one
\* whose content has just been copied to the slot before it.
LEMMA StartFindsSlot ==
    ASSUME TypeInv, MoveInv, NEW k \in RamSet, ~BeingRevoked(k)
    PROVE  \E j \in 0 .. s_count - 1 :
              s_keys[j] = k /\ (pc \in {"rev_move", "rev_shrink"} => j # i)
<1> USE KeyStoreAssumption DEF TypeInv, TypeOK, IndexInv, MoveInv
<1>1. PICK n \in 0 .. s_count - 1 : s_keys[n] = k
  BY DEF RamSet
<1>2. CASE pc \in {"rev_move", "rev_shrink"} /\ n = i
  <2>1. i # idx
    BY <1>1, <1>2 DEF BeingRevoked
  <2>2. i - 1 \in 0 .. s_count - 1 /\ s_keys[i - 1] = k /\ i - 1 # i
    BY <1>1, <1>2, <2>1
  <2> QED
    BY <2>2
<1>3. CASE ~(pc \in {"rev_move", "rev_shrink"} /\ n = i)
  BY <1>1, <1>3
<1> QED
  BY <1>2, <1>3

\* The Application task takes the slot of such a signer only by the memmove, one
\* slot down, which the reader has then not passed.
LEMMA SlotStays ==
    ASSUME TypeInv, MoveInv, RTypeOK, MoveInv',
           key_store_add \/ key_store_revoke, ~MovesBehind,
           ~BeingRevoked(signer), ~BeingRevoked(signer)', signer' = signer,
           NEW j \in index .. s_count - 1, s_keys[j] = signer,
           pc \in {"rev_move", "rev_shrink"} => j # i
    PROVE  \E n \in index .. s_count' - 1 :
              s_keys'[n] = signer /\ (pc' \in {"rev_move", "rev_shrink"} => n # i')
<1> USE KeyStoreAssumption DEF TypeInv, TypeOK, RTypeOK, IndexInv, MoveInv, ramVars, opVars
<1>1. j \in Slots /\ index \in Nat /\ index <= j /\ j < s_count
  OBVIOUS
<1>2. ASSUME UNCHANGED ramVars, pc' \notin {"rev_move", "rev_shrink"}
      PROVE  s_keys'[j] = signer /\ j \in index .. s_count' - 1
             /\ pc' \notin {"rev_move", "rev_shrink"}
  BY <1>2
<1>3. ASSUME NEW k \in Keys,
             AddRefused(k) \/ AddStart(k) \/ RevokeMissing(k) \/ RevokeStart(k)
      PROVE  UNCHANGED ramVars /\ pc' \notin {"rev_move", "rev_shrink"}
  BY <1>3 DEF AddRefused, AddStart, RevokeMissing, RevokeStart, Return
<1>4. CASE AddWrite \/ RevokeRewrite
  <2>1. UNCHANGED ramVars /\ pc' \notin {"rev_move", "rev_shrink"}
    BY <1>4 DEF AddWrite, RevokeRewrite, Return
  <2> QED
    BY <1>2, <2>1
<1>5. CASE AddFill \/ AddPublish
  <2>1. s_keys'[j] = s_keys[j] /\ s_count <= s_count' /\ s_count' \in Nat
        /\ pc' \in {"add_publish", "idle"}
    BY <1>1, <1>5 DEF AddFill, AddPublish, Return
  <2> QED
    BY <1>1, <2>1
<1>6. CASE RevokeErase \/ RevokeEraseLast
  <2>1. /\ UNCHANGED ramVars /\ i' = idx /\ key' = key /\ pc \in RevokePcs
        /\ s_keys[idx] = key
    BY <1>6 DEF RevokeErase, RevokeEraseLast, Return
  <2>2. j # idx
    BY <2>1 DEF BeingRevoked
  <2> QED
    BY <1>1, <2>1, <2>2
<1>7. CASE RevokeMove
  <2>1. /\ pc = "rev_move" /\ i' = i + 1 /\ s_count' = s_count /\ i \in Nat
        /\ s_keys' = [s_keys EXCEPT ![i] = s_keys[i + 1]]
    BY <1>7 DEF RevokeMove
  <2>2. CASE j = i + 1
    <3>1. index # i + 1
      BY <2>1, <2>2 DEF MovesBehind
    <3>2. i \in index .. s_count' - 1 /\ s_keys'[i] = signer /\ i # i'
      BY <1>1, <2>1, <2>2, <3>1
    <3> QED
      BY <3>2
  <2>3. CASE j # i + 1
    <3>1. j \in index .. s_count' - 1 /\ s_keys'[j] = signer /\ j # i'
      BY <1>1, <2>1, <2>3
    <3> QED
      BY <3>1
  <2> QED
    BY <2>2, <2>3
<1>8. CASE RevokeShrink
  <2>1. pc = "rev_shrink" /\ s_count' = s_count - 1 /\ s_keys' = s_keys /\ pc' = "idle"
    BY <1>8 DEF RevokeShrink, Return
  <2>2. j # s_count - 1
    BY <2>1
  <2>3. j \in index .. s_count' - 1
    BY <1>1, <2>1, <2>2
  <2> QED
    BY <2>1, <2>3
<1> QED
  BY <1>2, <1>3, <1>4, <1>5, <1>6, <1>7, <1>8 DEF key_store_add, key_store_revoke

\* A candidate is passed over only when it verifies nothing, and only the range test
\* ends the loop.
LEMMA StepPassedInv ==
    ResolverInv /\ MoveInv /\ MoveInv' /\ PassedInv /\ [RNext]_allVars => PassedInv'
<1> SUFFICES ASSUME ResolverInv, MoveInv, MoveInv', PassedInv, [RNext]_allVars
             PROVE  PassedInv'
  OBVIOUS
<1> USE KeyStoreAssumption
<1>1. TypeInv /\ TypeOK /\ RTypeOK
  BY DEF ResolverInv, RTypeOK
<1>2. CASE UNCHANGED allVars
  BY <1>2 DEF allVars, vars, rvars, PassedInv, Resolving, BeingRevoked
<1>3. ASSUME NEW k \in Keys, ResolveStart(k)
      PROVE  PassedInv'
  <2>1. missable' = (k \notin RamSet \/ BeingRevoked(k))
    BY <1>3, Zenon DEF ResolveStart
  <2>2. rpc' = "check" /\ index' = 0 /\ signer' = k /\ UNCHANGED vars
    BY <1>3 DEF ResolveStart
  <2>3. ~missable' => k \in RamSet /\ ~BeingRevoked(k)
    BY <2>1, Zenon
  <2>4. ~missable' => \E j \in 0 .. s_count - 1 :
                         s_keys[j] = k /\ (pc \in {"rev_move", "rev_shrink"} => j # i)
    BY <1>1, <2>3, StartFindsSlot
  <2>5. BeingRevoked(signer)' <=> BeingRevoked(k)
    BY <2>2 DEF BeingRevoked, vars
  <2> QED
    BY <2>2, <2>3, <2>4, <2>5 DEF PassedInv, Resolving, vars
<1>4. CASE GetCheck
  <2>1. UNCHANGED <<vars, signer, index, missable>> /\ rpc = "check"
        /\ rpc' \in {"copy", "rejected"}
    BY <1>4 DEF GetCheck
  <2>2. BeingRevoked(signer)' <=> BeingRevoked(signer)
    BY <2>1 DEF BeingRevoked, vars
  <2>3. rpc' = "rejected" => index >= s_count
    BY <1>1, <1>4 DEF GetCheck, TypeOK, RTypeOK
  <2>4. rpc' = "rejected" => missable
    BY <1>1, <2>1, <2>3 DEF PassedInv, Resolving, TypeOK, RTypeOK
  <2> QED
    BY <2>1, <2>2, <2>4 DEF PassedInv, Resolving, vars
<1>5. CASE GetCopy
  <2>1. UNCHANGED <<vars, signer, missable>> /\ rpc = "copy" /\ rpc' \in {"accepted", "check"}
    BY <1>5 DEF GetCopy
  <2>2. BeingRevoked(signer)' <=> BeingRevoked(signer)
    BY <2>1 DEF BeingRevoked, vars
  <2>3. ASSUME ~missable, rpc' = "check"
        PROVE  \E j \in index' .. s_count - 1 :
                  s_keys[j] = signer /\ (pc \in {"rev_move", "rev_shrink"} => j # i)
    <3>1. PICK j \in index .. s_count - 1 :
             s_keys[j] = signer /\ (pc \in {"rev_move", "rev_shrink"} => j # i)
      BY <2>1, <2>3 DEF PassedInv, Resolving
    <3>2. index' = index + 1 /\ (s_keys[index] # signer \/ SlotInFlux)
      BY <1>5, <2>3 DEF GetCopy
    <3>3. j # index
      BY <1>1, <3>1, <3>2 DEF SlotInFlux, TypeOK
    <3> QED
      BY <1>1, <3>1, <3>2, <3>3 DEF TypeOK, RTypeOK
  <2> QED
    BY <2>1, <2>2, <2>3 DEF PassedInv, Resolving, vars
<1>6. CASE ResolveEnd \/ Power
  BY <1>6 DEF ResolveEnd, Power, Forget, PassedInv, Resolving
<1>7. CASE AppTask
  <2>1. missable' = (rpc # "idle" /\ (missable \/ MovesBehind \/ BeingRevoked(signer)'))
    BY <1>7, Zenon DEF AppTask
  <2>2. UNCHANGED <<rpc, signer, index>> /\ (key_store_add \/ key_store_revoke)
    BY <1>7 DEF AppTask
  <2>3. ~missable' /\ rpc # "idle" =>
           ~missable /\ ~MovesBehind /\ ~BeingRevoked(signer)'
    BY <2>1, Zenon
  <2>4. rpc = "rejected" => missable'
    <3>1. rpc = "rejected" => missable /\ rpc # "idle"
      BY DEF PassedInv
    <3> QED
      BY <2>1, <3>1, Zenon
  <2>5. ASSUME ~missable', Resolving
        PROVE  \E n \in index .. s_count' - 1 :
                  s_keys'[n] = signer /\ (pc' \in {"rev_move", "rev_shrink"} => n # i')
    <3>1. ~missable /\ ~MovesBehind /\ ~BeingRevoked(signer)' /\ ~BeingRevoked(signer)
      BY <2>3, <2>5 DEF Resolving, PassedInv
    <3>2. PICK j \in index .. s_count - 1 :
             s_keys[j] = signer /\ (pc \in {"rev_move", "rev_shrink"} => j # i)
      BY <2>5, <3>1 DEF PassedInv
    <3> QED
      BY <1>1, <2>2, <3>1, <3>2, SlotStays
  <2> QED
    BY <2>2, <2>3, <2>4, <2>5 DEF PassedInv, Resolving
<1> QED
  BY <1>2, <1>3, <1>4, <1>5, <1>6, <1>7 DEF RNext

\* "a benign one-time missed candidate" (key_store.c): the resolver rejects a signer
\* that was in the store when it began only when the memmove of a revoke took that
\* signer past the reader, or when it was being revoked itself.
THEOREM OnlyMovedAreMissed == RSpec => []OnlyMovedMissed
<1>1. RInit => MoveInv /\ PassedInv
  BY DEF RInit, Init, MoveInv, PassedInv, Resolving
<1>2. ResolverInv /\ MoveInv /\ [RNext]_allVars => MoveInv'
  <2>1. [RNext]_allVars => [Next]_vars
    BY DEF RNext, allVars, ResolveStart, GetCheck, GetCopy, ResolveEnd, AppTask,
           Power, Next
  <2> QED
    BY <2>1, StepMoveInv DEF ResolverInv
<1>3. PassedInv => OnlyMovedMissed
  BY DEF PassedInv, OnlyMovedMissed
<1> QED
  BY <1>1, <1>2, <1>3, InitResolverInv, StepResolverInv, StepPassedInv, PTL DEF RSpec

=============================================================================
