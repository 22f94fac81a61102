------------------------------ MODULE Identity ------------------------------
(***************************************************************************)
(* The identity of the lock (storage/src/key_store.c): loaded from NVS, or *)
(* generated on the first boot, which also clears the phone keys of an     *)
(* earlier life of the NVS.  Every read, write and erase of the HAL is a   *)
(* step: it can fail, and the power can fail before the next one.  The     *)
(* slots of phone keys are of interest only for whose they are: a key is   *)
(* represented by the identity of the lock it was provisioned for.         *)
(***************************************************************************)
EXTENDS Integers, Sequences, FiniteSetsExt

CONSTANTS
    KEY_MAX,   \* slots of the key store
    MaxIds,    \* bound: the identities a device generates in its life
    None,      \* no blob, no key
    Corrupt,   \* a blob of another length
    TestKey    \* a key of the STORAGE_ONLY harness

ASSUME KeyMaxAssumption == KEY_MAX \in Nat \ {0}
ASSUME MaxIdsAssumption == MaxIds \in Nat
ASSUME BlobAssumption == /\ {None, Corrupt, TestKey} \cap 0 .. MaxIds = {}
                         /\ Corrupt # None /\ TestKey # None

EarlierLife == 0   \* an identity from before this life of the NVS
Ids == EarlierLife .. MaxIds
Slots == 1 .. KEY_MAX
Keys == Ids \cup {TestKey}

VARIABLES
    at,          \* where the start-up is
    caller,      \* who called key_store_identity_init: "config" or "app_init"
    nvs_lock,    \* identity/lock
    nvs_booted,  \* identity/booted, the sentinel
    nvs_keys,    \* keys/k00 and on
    s_keys,      \* the RAM cache of the key store
    s_identity,  \* s_identity_sk and s_identity_pk; None while not loaded
    slot,        \* the slot the wipe has come to
    born,        \* how many identities have been generated
    spoiled      \* history: keys of another identity may have stayed

nvs == <<nvs_lock, nvs_booted, nvs_keys>>
idRest == <<caller, nvs, s_keys, s_identity, slot, born, spoiled>>
identityVars == <<at, idRest>>

\* The keys from the first slot to the first empty one.
Warm(keys) ==
    LET gaps == {i \in Slots : keys[i] = None}
    IN  SubSeq(keys, 1, (IF gaps = {} THEN KEY_MAX + 1 ELSE Min(gaps)) - 1)

\* key_store_identity_init returns.
Done(ok) ==
    at' = IF caller = "config" THEN "snapshot" ELSE IF ok THEN "lock_pk" ELSE "halted"

\* An identity that is generated whenever none can be read.
ReadIdentity_AnyError(reads) ==
    /\ at = "identity"
    /\ IF s_identity # None THEN Done(TRUE) /\ UNCHANGED s_identity
       ELSE IF reads /\ nvs_lock \in Ids THEN s_identity' = nvs_lock /\ Done(TRUE)
       ELSE at' = "sentinel_read" /\ UNCHANGED s_identity
    /\ UNCHANGED <<caller, nvs, s_keys, slot, born, spoiled>>

\* It is idempotent; reads says whether the HAL answers.
ReadIdentity(reads) ==
    /\ at = "identity"
    /\ IF s_identity # None THEN Done(TRUE) /\ UNCHANGED s_identity
       ELSE IF ~reads \/ nvs_lock = Corrupt THEN Done(FALSE) /\ UNCHANGED s_identity
       ELSE IF nvs_lock = None THEN at' = "sentinel_read" /\ UNCHANGED s_identity
       ELSE s_identity' = nvs_lock /\ Done(TRUE)
    /\ UNCHANGED <<caller, nvs, s_keys, slot, born, spoiled>>

\* Only a sentinel that is not found makes a first boot.
ReadSentinel(reads) ==
    /\ at = "sentinel_read"
    /\ at' = IF reads /\ ~nvs_booted THEN "generate_first" ELSE "generate"
    /\ spoiled' = IF reads /\ ~nvs_booted THEN spoiled ELSE TRUE
    /\ UNCHANGED <<caller, nvs, s_keys, s_identity, slot, born>>

\* The key pair is generated and persisted.  A write that fails clears it; nvs_set_blob
\* may have changed the entry before nvs_commit failed.
Generate ==
    /\ at \in {"generate_first", "generate"}
    /\ born < MaxIds
    /\ \/ /\ nvs_lock' = born + 1
          /\ s_identity' = born + 1
          /\ IF at = "generate_first" THEN at' = "sentinel" ELSE Done(TRUE)
          /\ UNCHANGED spoiled
       \/ /\ nvs_lock' \in {nvs_lock, born + 1}
          /\ Done(FALSE)
          /\ spoiled' = IF nvs_lock' = nvs_lock THEN spoiled ELSE TRUE
          /\ UNCHANGED s_identity
    /\ born' = IF nvs_lock' = nvs_lock THEN born ELSE born + 1
    /\ UNCHANGED <<caller, nvs_booted, nvs_keys, s_keys, slot>>

\* The result of this write is not looked at.
WriteSentinel ==
    /\ at = "sentinel"
    /\ nvs_booted' \in {nvs_booted, TRUE}
    /\ at' = "wipe"
    /\ slot' = 1
    /\ UNCHANGED <<caller, nvs_lock, nvs_keys, s_keys, s_identity, born, spoiled>>

\* Nor are those of the erases.
WipeSlot ==
    /\ at = "wipe" /\ slot <= KEY_MAX
    /\ \/ nvs_keys' = [nvs_keys EXCEPT ![slot] = None] /\ UNCHANGED spoiled
       \/ /\ UNCHANGED nvs_keys
          /\ spoiled' = IF nvs_keys[slot] = None THEN spoiled ELSE TRUE
    /\ slot' = slot + 1
    /\ UNCHANGED <<at, caller, nvs_lock, nvs_booted, s_keys, s_identity, born>>

\* A wipe that forgets what key_store_init has already loaded.
WipeRam_Forgotten ==
    /\ at = "wipe" /\ slot > KEY_MAX
    /\ Done(TRUE)
    /\ UNCHANGED <<caller, nvs, s_keys, s_identity, slot, born, spoiled>>

WipeRam ==
    /\ at = "wipe" /\ slot > KEY_MAX
    /\ s_keys' = <<>>
    /\ Done(TRUE)
    /\ UNCHANGED <<caller, nvs, s_identity, slot, born, spoiled>>

key_store_identity_init(reads) ==
    \/ ReadIdentity(reads)
    \/ ReadSentinel(reads)
    \/ Generate
    \/ WriteSentinel
    \/ WipeSlot
    \/ WipeRam

\* The partition is damaged while the power is off: the identity is gone or has
\* another length.
LoseIdentity ==
    /\ at = "off"
    /\ nvs_lock \in Ids /\ born < MaxIds
    /\ nvs_lock' \in {None, Corrupt}
    /\ UNCHANGED <<at, caller, nvs_booted, nvs_keys, s_keys, s_identity, slot, born, spoiled>>

\* A power loss in the middle of a first boot: the next boot finds an identity, or
\* a sentinel, and does not wipe.
CutShort == at \in {"sentinel", "wipe"}

IdentityInit ==
    /\ at = "off"
    /\ caller = "config"
    /\ nvs_lock = None /\ nvs_booted = FALSE
    /\ nvs_keys \in {[i \in Slots |-> IF i <= n THEN EarlierLife ELSE None] : n \in 0 .. KEY_MAX}
    /\ s_keys = <<>>
    /\ s_identity = None
    /\ slot = 1
    /\ born = 0
    /\ spoiled = FALSE

IdentityTypeOK ==
    /\ caller \in {"config", "app_init"}
    /\ nvs_lock \in Ids \cup {None, Corrupt}
    /\ {nvs_booted, spoiled} \subseteq BOOLEAN
    /\ nvs_keys \in [Slots -> Keys \cup {None}]
    /\ s_keys \in Seq(Keys) /\ Len(s_keys) <= KEY_MAX
    /\ s_identity \in Ids \cup {None}
    /\ slot \in 1 .. KEY_MAX + 1
    /\ born \in 0 .. MaxIds

=============================================================================
