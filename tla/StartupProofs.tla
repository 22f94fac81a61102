--------------------------- MODULE StartupProofs ---------------------------
(***************************************************************************)
(* Proofs about the start of the firmware and the identity of the lock,    *)
(* for any number of key slots and of identities: what any sequence of     *)
(* boots, failures, power losses, reflashes and damages to the partition   *)
(* leaves behind.                                                          *)
(***************************************************************************)
EXTENDS Startup, SequenceTheorems, WellFoundedInduction, TLAPS

USE KeyMaxAssumption, MaxIdsAssumption, BlobAssumption
USE DEF vars, identityVars, idRest, bootVars, nvs, Builds, Modes

-----------------------------------------------------------------------------
(***************************************************************************)
(* The inductive invariant                                                 *)
(***************************************************************************)

IdPlaces == {"identity", "sentinel_read", "generate_first", "generate", "sentinel", "wipe"}
CommPlaces == {"snapshot", "session", "i2c", "pn532_init", "wakeup", "firmware", "configure"}

\* Where the start-up of each mode can be while it runs.
Places(mode) ==
    CASE mode = "FULL_APPLICATION" ->
            {"storage", "intent", "display", "actuator", "integrity", "config", "app_init",
             "lock_pk", "start", "register", "comm_start", "running"}
                \cup IdPlaces \cup CommPlaces
      [] mode = "COMM_ONLY" ->
            {"storage", "intent", "config", "register", "comm_start", "running"}
                \cup IdPlaces \cup CommPlaces
      [] mode = "ACTUATOR_ONLY"  -> {"actuator", "harness", "over"}
      [] mode = "DISPLAY_ONLY"   -> {"display", "harness", "over"}
      [] mode = "INTEGRITY_ONLY" -> {"integrity", "harness", "over"}
      [] mode = "STORAGE_ONLY"   -> {"storage", "intent", "harness", "over"}

\* Only the full application calls key_store_identity_init a second time.
PlaceInv ==
    /\ at \in {"off", "halted"} \cup Places(build.mode)
    /\ at \in IdPlaces /\ caller = "app_init" => build.mode = "FULL_APPLICATION"

\* No backend is passed that refuses its init.
BackendInv ==
    build.mode = "FULL_APPLICATION" /\ at \notin {"off", "halted", "storage"} =>
        /\ build.storage = "NVS"
        /\ at \notin {"intent", "display"} => build.display = "CONSOLE"
        /\ at \notin {"intent", "display", "actuator"} => build.actuator = "STUB"
        /\ at \notin {"intent", "display", "actuator", "integrity"} =>
             build.integrity = "STUB"

\* Before the handle of the driver is there.
BeforeHandle ==
    \/ at \in {"off", "storage", "intent", "display", "actuator", "integrity", "config",
               "snapshot", "session", "i2c", "pn532_init"}
    \/ at \in IdPlaces /\ caller = "config"

\* What a failing step finds to be released.
ReleaseInv ==
    /\ BeforeHandle => "handle" \notin held
    /\ BeforeHandle /\ at \notin {"i2c", "pn532_init"} => step = 1
    /\ at = "i2c" => step <= Len(I2cSteps)
    /\ at # "halted" => destroyed = 0
    /\ NothingLeaks
    /\ DestroyedOnce

\* The identity in RAM is the persisted one, and one is generated only where none is.
IdentityInv ==
    /\ s_identity # None => s_identity = nvs_lock
    /\ at \in {"sentinel_read", "generate_first", "generate"} =>
         nvs_lock = None /\ s_identity = None
    /\ at \in {"sentinel", "wipe", "lock_pk"} => s_identity # None
    /\ build.mode = "FULL_APPLICATION"
       /\ at \in {"start", "register", "comm_start", "running"} =>
         s_identity # None /\ s_lock_pk = s_identity

\* After the configuration has been copied.
AfterSnapshot ==
    \/ at \in {"session", "i2c", "pn532_init", "wakeup", "firmware", "configure",
               "app_init", "lock_pk", "start", "register", "comm_start", "running"}
    \/ at \in IdPlaces /\ caller = "app_init"

\* The session has the key of the identity, or one of zeros.
SessionInv ==
    AfterSnapshot =>
        /\ IF cfg_key = None THEN failed_at = "config" ELSE cfg_key = s_identity
        /\ at # "session" => session = <<cfg_key>>

\* In a lock that was not spoiled, the keys are those of the persisted identity,
\* except while a first boot erases them.
OwnInv ==
    ~spoiled =>
        /\ at # "generate"
        /\ at = "wipe" => \A i \in Slots : i < slot => nvs_keys[i] = None
        /\ nvs_lock \in Ids /\ at \notin {"sentinel", "wipe"} =>
             /\ \A i \in Slots : nvs_keys[i] \in {None, nvs_lock}
             /\ \A i \in 1 .. Len(s_keys) : s_keys[i] = nvs_lock

StartupIInv ==
    /\ StartupInv /\ PlaceInv /\ BackendInv /\ ReleaseInv /\ IdentityInv /\ SessionInv
    /\ OwnInv

\* What the steps below have of it.
LEMMA PartsOfIInv ==
    ASSUME StartupIInv
    PROVE  /\ TypeOK /\ PlaceInv /\ BackendInv /\ ReleaseInv /\ IdentityInv
           /\ SessionInv /\ OwnInv
BY DEF StartupIInv, StartupInv

-----------------------------------------------------------------------------
(***************************************************************************)
(* The operators of the model                                              *)
(***************************************************************************)

\* A set of naturals that is not empty has a minimum.
LEMMA MinIsLeast ==
    ASSUME NEW S \in SUBSET Nat, S # {}
    PROVE  Min(S) \in S /\ \A y \in S : Min(S) <= y
<1>1. PICK x \in S : \A y \in S : ~(<<y, x>> \in OpToRel(<, Nat))
  BY NatLessThanWellFounded, WFMin, Zenon
<1>2. \A y \in Nat : ~(<<y, x>> \in OpToRel(<, Nat)) => x <= y
  BY SMT DEF OpToRel
<1>3. \A y \in S : x <= y
  BY <1>1, <1>2
<1> QED
  BY <1>3 DEF Min

\* key_store_init loads the keys of the first slots, in their order.
LEMMA WarmLoads ==
    ASSUME NEW keys \in [Slots -> Keys \cup {None}]
    PROVE  /\ Warm(keys) \in Seq(Keys)
           /\ Len(Warm(keys)) <= KEY_MAX
           /\ \A i \in 1 .. Len(Warm(keys)) :
                 i \in Slots /\ Warm(keys)[i] = keys[i] /\ keys[i] # None
<1> DEFINE gaps == {i \in Slots : keys[i] = None}
           end == (IF gaps = {} THEN KEY_MAX + 1 ELSE Min(gaps)) - 1
<1>1. gaps \in SUBSET Nat
  BY DEF Slots
<1>2. end \in 0 .. KEY_MAX /\ \A i \in 1 .. end : i \in Slots /\ keys[i] # None
  <2>1. CASE gaps = {}
    BY <2>1 DEF Slots
  <2>2. CASE gaps # {}
    <3>1. Min(gaps) \in gaps /\ \A i \in gaps : Min(gaps) <= i
      BY <1>1, <2>2, MinIsLeast
    <3>2. end = Min(gaps) - 1 /\ Min(gaps) \in 1 .. KEY_MAX
      BY <2>2, <3>1 DEF Slots
    <3>3. \A i \in 1 .. Min(gaps) - 1 : i \in Slots /\ i \notin gaps
      BY <3>1, <3>2 DEF Slots
    <3> QED
      BY <3>2, <3>3 DEF Slots
  <2> QED
    BY <2>1, <2>2
<1>3. \A i \in 1 .. end : keys[i] \in Keys
  BY <1>2
<1>4. Warm(keys) = SubSeq(keys, 1, end)
  BY DEF Warm
<1> HIDE DEF end
<1>5. /\ SubSeq(keys, 1, end) \in Seq(Keys)
      /\ Len(SubSeq(keys, 1, end)) = IF 1 <= end THEN end - 1 + 1 ELSE 0
      /\ \A i \in 1 .. end - 1 + 1 : SubSeq(keys, 1, end)[i] = keys[1 + i - 1]
  BY <1>2, <1>3, SubSeqProperties
<1> QED
  BY <1>2, <1>4, <1>5

\* The revocation of a key takes nothing away but that key.
LEMMA RemoveFirstKeeps ==
    ASSUME NEW S, NEW s \in Seq(S), NEW e
    PROVE  RemoveFirst(s, e) \in Seq(S) /\ Len(RemoveFirst(s, e)) <= Len(s)
<1>1. CASE \E i \in 1 .. Len(s) : s[i] = e
  <2> DEFINE I == {i \in 1 .. Len(s) : s[i] = e}
             m == SelectInSeq(s, LAMBDA v : v = e)
  <2>1. Len(s) \in Nat /\ \A i \in 1 .. Len(s) : s[i] \in S
    BY ElementOfSeq, LenProperties
  <2>2. I # {} /\ I \in SUBSET Nat
    BY <1>1, <2>1
  <2>3. m = Min(I)
    BY <2>2 DEF SelectInSeq
  <2>4. m \in 1 .. Len(s)
    BY <2>2, <2>3, MinIsLeast
  <2>5. RemoveFirst(s, e) = SubSeq(s, 1, m - 1) \o SubSeq(s, m + 1, Len(s))
    BY <1>1 DEF RemoveFirst, RemoveAt
  <2> HIDE DEF m
  <2>6. SubSeq(s, 1, m - 1) \in Seq(S) /\ Len(SubSeq(s, 1, m - 1)) = m - 1
    BY <2>1, <2>4, SubSeqProperties
  <2>7. SubSeq(s, m + 1, Len(s)) \in Seq(S) /\ Len(SubSeq(s, m + 1, Len(s))) = Len(s) - m
    BY <2>1, <2>4, SubSeqProperties
  <2> QED
    <3> DEFINE a == SubSeq(s, 1, m - 1)
               b == SubSeq(s, m + 1, Len(s))
    <3>1. a \o b \in Seq(S) /\ Len(a \o b) = Len(a) + Len(b)
      BY <2>6, <2>7, ConcatProperties
    <3> HIDE DEF a, b
    <3>2. RemoveFirst(s, e) = a \o b
      BY <2>5 DEF a, b
    <3>3. Len(a) = m - 1 /\ Len(b) = Len(s) - m
      BY <2>6, <2>7 DEF a, b
    <3> QED
      BY <2>1, <2>4, <3>1, <3>2, <3>3
<1>2. CASE ~\E i \in 1 .. Len(s) : s[i] = e
  BY <1>2, LenProperties DEF RemoveFirst
<1> QED
  BY <1>1, <1>2

\* The step after the one that is at place k of an order.
LEMMA NextInOrder ==
    ASSUME NEW order, NEW k \in DOMAIN order,
           \A j \in DOMAIN order : order[j] = order[k] => j = k
    PROVE  (CHOOSE j \in DOMAIN order : order[j] = order[k]) = k
BY Zenon

\* The order of the full application ...
LEMMA FullOrder ==
    ASSUME build.mode = "FULL_APPLICATION"
    PROVE  /\ After("storage") = "intent"
           /\ After("intent") = "display"
           /\ After("display") = "actuator"
           /\ After("actuator") = "integrity"
           /\ After("integrity") = "config"
           /\ After("comm") = "app_init"
           /\ After("start") = "register"
           /\ After("register") = "comm_start"
           /\ After("comm_start") = "running"
<1> DEFINE order == Order(build.mode)
<1>1. order = <<"storage", "intent", "display", "actuator", "integrity", "config", "comm",
                "app_init", "start", "register", "comm_start", "running">>
  BY DEF Order
<1>2. DOMAIN order = 1 .. 12
  BY <1>1
<1>3. \A j, k \in 1 .. 12 : order[j] = order[k] => j = k
  BY <1>1
<1> HIDE DEF order
<1>4. \A k \in 1 .. 12 : (CHOOSE j \in DOMAIN order : order[j] = order[k]) = k
  BY <1>2, <1>3, NextInOrder
<1>5. \A k \in 1 .. 12 : After(order[k]) = order[k + 1]
  BY <1>4 DEF After, order
<1> QED
  BY <1>1, <1>5

\* ... and what follows a step of the other modes.
LEMMA OtherOrder ==
    ASSUME build.mode \in Modes \ {"FULL_APPLICATION"}
    PROVE  /\ build.mode \in {"COMM_ONLY", "STORAGE_ONLY"} => After("storage") = "intent"
           /\ build.mode = "STORAGE_ONLY" => After("intent") = "harness"
           /\ build.mode = "COMM_ONLY" => After("intent") = "config"
           /\ build.mode = "COMM_ONLY" => After("comm") = "register"
           /\ build.mode = "COMM_ONLY" => After("register") = "comm_start"
           /\ build.mode = "COMM_ONLY" => After("comm_start") = "running"
           /\ build.mode = "ACTUATOR_ONLY" => After("actuator") = "harness"
           /\ build.mode = "DISPLAY_ONLY" => After("display") = "harness"
           /\ build.mode = "INTEGRITY_ONLY" => After("integrity") = "harness"
           /\ build.mode # "COMM_ONLY" => After("harness") = "over"
<1> DEFINE order == Order(build.mode)
<1>1. ASSUME NEW n \in {3, 4, 7}, DOMAIN order = 1 .. n,
             \A j, k \in 1 .. n : order[j] = order[k] => j = k
      PROVE  \A k \in 1 .. n - 1 : After(order[k]) = order[k + 1]
  <2> HIDE DEF order
  <2>1. \A k \in 1 .. n : (CHOOSE j \in DOMAIN order : order[j] = order[k]) = k
    BY <1>1, NextInOrder
  <2>2. \A k \in 1 .. n : After(order[k]) = order[k + 1]
    BY <2>1 DEF After, order
  <2> QED
    BY <2>2
<1>2. CASE build.mode = "COMM_ONLY"
  <2>1. order = <<"storage", "intent", "config", "comm", "register", "comm_start", "running">>
    BY <1>2 DEF Order
  <2> QED
    BY <1>1, <1>2, <2>1
<1>3. CASE build.mode = "ACTUATOR_ONLY"
  <2>1. order = <<"actuator", "harness", "over">>
    BY <1>3 DEF Order
  <2> QED
    BY <1>1, <1>3, <2>1
<1>4. CASE build.mode = "DISPLAY_ONLY"
  <2>1. order = <<"display", "harness", "over">>
    BY <1>4 DEF Order
  <2> QED
    BY <1>1, <1>4, <2>1
<1>5. CASE build.mode = "INTEGRITY_ONLY"
  <2>1. order = <<"integrity", "harness", "over">>
    BY <1>5 DEF Order
  <2> QED
    BY <1>1, <1>5, <2>1
<1>6. CASE build.mode = "STORAGE_ONLY"
  <2>1. order = <<"storage", "intent", "harness", "over">>
    BY <1>6 DEF Order
  <2> QED
    BY <1>1, <1>6, <2>1
<1> QED
  BY <1>2, <1>3, <1>4, <1>5, <1>6 DEF Modes

\* An identity is neither an empty nor a corrupt blob.
LEMMA IdsAreNoBlobs == \A id \in Ids : id \notin {None, Corrupt, TestKey}
BY DEF Ids, EarlierLife

\* What a generation does: the new identity is in RAM and persisted, or the call fails
\* and the blob may have changed nevertheless.
LEMMA GenerateResult ==
    ASSUME IdentityTypeOK, Generate
    PROVE  /\ born + 1 \in Ids /\ born + 1 # None
           /\ \/ /\ nvs_lock' = born + 1 /\ s_identity' = born + 1 /\ UNCHANGED spoiled
                 /\ at' = IF at = "generate_first" THEN "sentinel"
                          ELSE IF caller = "config" THEN "snapshot" ELSE "lock_pk"
              \/ /\ nvs_lock' \in {nvs_lock, born + 1} /\ UNCHANGED s_identity
                 /\ spoiled' = IF nvs_lock' = nvs_lock THEN spoiled ELSE TRUE
                 /\ at' = IF caller = "config" THEN "snapshot" ELSE "halted"
<1>1. born + 1 \in Ids
  BY DEF Generate, IdentityTypeOK, Ids, EarlierLife
<1>2. born + 1 # None
  BY <1>1, IdsAreNoBlobs
<1> QED
  BY <1>1, <1>2 DEF Generate, Done

\* A step of key_store_identity_init stays in it, or returns to its caller.
LEMMA IdentityMoves ==
    ASSUME IdentityStep, IdentityTypeOK
    PROVE  /\ at \in IdPlaces
           /\ UNCHANGED <<caller, build, bootVars>>
           /\ at' \in IdPlaces \cup {"snapshot", "lock_pk", "halted"}
           /\ at' = "snapshot" => caller = "config"
           /\ at' \in {"lock_pk", "halted"} => caller = "app_init"
           /\ failed_at' = IF at' = "halted" THEN caller ELSE failed_at
<1>1. PICK reads \in storage_hal_answers : key_store_identity_init(reads)
  BY DEF IdentityStep
<1>2. CASE Generate
  BY <1>2, GenerateResult DEF IdentityStep, Generate, IdentityTypeOK, IdPlaces
<1>3. CASE ~Generate
  BY <1>1, <1>3 DEF IdentityStep, key_store_identity_init, ReadIdentity, ReadSentinel,
     WriteSentinel, WipeSlot, WipeRam, Done, IdentityTypeOK, IdPlaces
<1> QED
  BY <1>2, <1>3

-----------------------------------------------------------------------------
(***************************************************************************)
(* Places and backends                                                     *)
(***************************************************************************)

\* Every step of the start-up goes to a place of its mode, and only a power loss to
\* "off".
LEMMA PlaceKeeps ==
    ASSUME StartupIInv, Next
    PROVE  PlaceInv' /\ (at' = "off" => at = "off" \/ PowerLoss)
<1>0. build.mode \in Modes
  BY PartsOfIInv DEF TypeOK
<1> USE <1>0, PartsOfIInv DEF PlaceInv, Places, IdPlaces, CommPlaces
<1>1. CASE key_store_init \/ intent_log_init
  BY <1>1, FullOrder, OtherOrder DEF key_store_init, intent_log_init, Proceed, Fail
<1>2. CASE init_display \/ init_actuator \/ init_integrity
  BY <1>2, FullOrder, OtherOrder DEF init_display, init_actuator, init_integrity, Proceed, Fail
<1>3. CASE Harness \/ AppModule_Start
  BY <1>3, FullOrder, OtherOrder DEF Harness, AppModule_Start, Proceed, Fail
<1>4. CASE RegisterTask \/ comm_module_start
  BY <1>4, FullOrder, OtherOrder DEF RegisterTask, comm_module_start, Proceed
<1>5. CASE CallIdentity \/ Snapshot \/ session_init
  BY <1>5 DEF CallIdentity, Snapshot, session_init, Fail
<1>6. CASE IdentityStep
  BY <1>6, IdentityMoves DEF TypeOK, IdentityTypeOK
<1>7. CASE pn532_i2c_create \/ pn532_init
  BY <1>7 DEF pn532_i2c_create, pn532_init, EndComm
<1>8. CASE lli_init
  BY <1>8, FullOrder, OtherOrder DEF lli_init, EndComm
<1>9. CASE AppModule_Init \/ Provision
  BY <1>9 DEF AppModule_Init, Provision
<1>10. CASE Boot
  BY <1>10 DEF Boot, Order, TypeOK
<1>11. CASE PowerLoss
  BY <1>11 DEF PowerLoss
<1>12. CASE Reflash \/ Damage
  BY <1>12 DEF Reflash, Damage, LoseIdentity
<1> QED
  BY <1>1, <1>2, <1>3, <1>4, <1>5, <1>6, <1>7, <1>8, <1>9, <1>10, <1>11, <1>12
     DEF Next, app_main

\* The steps before a place have returned OK.
LEMMA BackendKeeps == ASSUME StartupIInv, Next PROVE BackendInv'
<1> USE PartsOfIInv DEF BackendInv, PlaceInv, Places, IdPlaces, CommPlaces
<1>1. CASE key_store_init \/ intent_log_init
  BY <1>1, FullOrder DEF key_store_init, intent_log_init, Proceed, Fail, storage_hal_answers
<1>2. CASE init_display \/ init_actuator \/ init_integrity
  BY <1>2, FullOrder DEF init_display, init_actuator, init_integrity, Proceed, Fail,
     Display_Init, console_init, panel_init, AAI_Init, aai_stub_init, rmt_init, mcpwm_init,
     Integrity_Init, integrity_stub_init, gpio_init, TypeOK
<1>3. CASE Harness \/ AppModule_Start \/ RegisterTask \/ comm_module_start
  BY <1>3, FullOrder
     DEF Harness, AppModule_Start, RegisterTask, comm_module_start, Proceed, Fail
<1>4. CASE CallIdentity \/ Snapshot \/ session_init \/ AppModule_Init \/ Provision
  BY <1>4 DEF CallIdentity, Snapshot, session_init, Fail, AppModule_Init, Provision
<1>5. CASE IdentityStep
  BY <1>5, IdentityMoves DEF TypeOK
<1>6. CASE pn532_i2c_create \/ pn532_init \/ lli_init
  BY <1>6 DEF pn532_i2c_create, pn532_init, lli_init, EndComm
<1>7. CASE Boot \/ PowerLoss \/ Reflash \/ Damage
  BY <1>7 DEF Boot, Order, PowerLoss, Reflash, Damage, LoseIdentity
<1> QED
  BY <1>1, <1>2, <1>3, <1>4, <1>5, <1>6, <1>7 DEF Next, app_main

-----------------------------------------------------------------------------
(***************************************************************************)
(* Failing steps                                                           *)
(***************************************************************************)

\* The driver, its handle and the session are released once, wherever the start ends.
LEMMA ReleaseKeeps == ASSUME StartupIInv, Next PROVE ReleaseInv'
<1> USE PartsOfIInv
    DEF ReleaseInv, NothingLeaks, DestroyedOnce, BeforeHandle, IdPlaces
<1>1. CASE key_store_init \/ intent_log_init
  <2>1. UNCHANGED <<held, step, destroyed, caller>> /\ at \in {"storage", "intent"}
    BY <1>1 DEF key_store_init, intent_log_init
  <2>2. /\ at' \in {"halted", "intent", "display", "harness", "config"}
        /\ at' = "halted" => failed_at' = at
    BY <1>1, FullOrder, OtherOrder
       DEF key_store_init, intent_log_init, Proceed, Fail, PlaceInv, Places, CommPlaces,
           TypeOK
  <2> QED
    BY <2>1, <2>2
<1>2. CASE init_display \/ init_actuator \/ init_integrity
  <2>1. UNCHANGED <<held, step, destroyed, caller>>
        /\ at \in {"display", "actuator", "integrity"}
    BY <1>2 DEF init_display, init_actuator, init_integrity
  <2>2. /\ at' \in {"halted", "actuator", "integrity", "harness", "config"}
        /\ at' = "halted" => failed_at' = at
    BY <1>2, FullOrder, OtherOrder
       DEF init_display, init_actuator, init_integrity, Proceed, Fail, PlaceInv, Places,
           CommPlaces, TypeOK
  <2> QED
    BY <2>1, <2>2
<1>3. CASE Harness \/ AppModule_Start \/ RegisterTask \/ comm_module_start
  <2>1. UNCHANGED <<held, step, destroyed>>
        /\ at \in {"harness", "start", "register", "comm_start"}
    BY <1>3 DEF Harness, AppModule_Start, RegisterTask, comm_module_start
  <2>2. /\ at' \in {"halted", "over", "register", "comm_start", "running"}
        /\ at' = "halted" => failed_at' = at
    BY <1>3, FullOrder, OtherOrder
       DEF Harness, AppModule_Start, RegisterTask, comm_module_start, Proceed, Fail,
           PlaceInv, Places, CommPlaces, TypeOK
  <2> QED
    BY <2>1, <2>2
<1>4. CASE CallIdentity \/ Snapshot \/ session_init \/ AppModule_Init \/ Provision
  <2>1. CASE CallIdentity
    BY <2>1 DEF CallIdentity
  <2>2. CASE Snapshot \/ session_init
    BY <2>2 DEF Snapshot, session_init, Fail, I2cSteps
  <2>3. CASE AppModule_Init \/ Provision
    BY <2>3 DEF AppModule_Init, Provision
  <2> QED
    BY <1>4, <2>1, <2>2, <2>3
<1>5. CASE IdentityStep
  <2>1. /\ UNCHANGED <<caller, held, step, destroyed>> /\ at \in IdPlaces
        /\ at' \in IdPlaces \cup {"snapshot", "lock_pk", "halted"}
        /\ at' = "snapshot" => caller = "config"
        /\ at' = "halted" => failed_at' = "app_init"
    BY <1>5, IdentityMoves DEF TypeOK
  <2> QED
    BY <2>1
<1>6. CASE pn532_i2c_create
  BY <1>6 DEF pn532_i2c_create, pn532_i2c_destroy, EndComm, I2cSteps, Resources, TypeOK
<1>7. CASE pn532_init
  BY <1>7 DEF pn532_init, pn532_i2c_destroy, EndComm, Resources, TypeOK
<1>8. CASE lli_init
  <2>1. After("comm") \in {"app_init", "register"}
    BY <1>8, FullOrder, OtherOrder DEF lli_init, PlaceInv, Places, CommPlaces, TypeOK
  <2>2. at \in {"wakeup", "firmware", "configure"} /\ destroyed = 0
    BY <1>8 DEF lli_init
  <2>3. CASE UNCHANGED <<held, step, destroyed>>
             /\ at' \in {"firmware", "configure", After("comm")}
    BY <2>1, <2>2, <2>3
  <2>4. CASE /\ held' = pn532_i2c_destroy \ {"handle"} /\ destroyed' = destroyed + 2
             /\ EndComm
    <3>1. held' = {}
      BY <2>4 DEF pn532_i2c_destroy, TypeOK
    <3> QED
      BY <2>2, <2>4, <3>1 DEF EndComm
  <2> QED
    BY <1>8, <2>3, <2>4 DEF lli_init
<1>9. CASE Boot
  BY <1>9 DEF Boot, Order, TypeOK
<1>10. CASE PowerLoss
  BY <1>10 DEF PowerLoss, BlankRam
<1>11. CASE Reflash \/ Damage
  BY <1>11 DEF Reflash, Damage, LoseIdentity
<1> QED
  BY <1>1, <1>2, <1>3, <1>4, <1>5, <1>6, <1>7, <1>8, <1>9, <1>10, <1>11
     DEF Next, app_main

-----------------------------------------------------------------------------
(***************************************************************************)
(* The identity, the session and the keys                                  *)
(***************************************************************************)

\* The identity that is loaded or generated is the one that persists.
LEMMA IdentityKeeps == ASSUME StartupIInv, Next PROVE IdentityInv'
<1> USE PartsOfIInv DEF IdentityInv
<1>1. CASE key_store_init \/ intent_log_init
  BY <1>1, FullOrder, OtherOrder
     DEF key_store_init, intent_log_init, Proceed, Fail, PlaceInv, Places, IdPlaces,
         CommPlaces, TypeOK
<1>2. CASE init_display \/ init_actuator \/ init_integrity
  BY <1>2, FullOrder, OtherOrder
     DEF init_display, init_actuator, init_integrity, Proceed, Fail, PlaceInv, Places,
         IdPlaces, CommPlaces, TypeOK
<1>3. CASE Harness \/ AppModule_Start \/ RegisterTask \/ comm_module_start
  BY <1>3, FullOrder, OtherOrder
     DEF Harness, AppModule_Start, RegisterTask, comm_module_start, Proceed, Fail,
         PlaceInv, Places, IdPlaces, CommPlaces, TypeOK
<1>4. CASE CallIdentity \/ Snapshot \/ session_init \/ AppModule_Init \/ Provision
  BY <1>4 DEF CallIdentity, Snapshot, session_init, Fail, AppModule_Init, Provision
<1>5. CASE IdentityStep
  <2>0. IdentityTypeOK /\ UNCHANGED <<build, s_lock_pk>>
    BY <1>5 DEF IdentityStep, TypeOK
  <2>1. CASE \E reads \in storage_hal_answers : ReadIdentity(reads)
    BY <2>0, <2>1 DEF ReadIdentity, Done, IdentityTypeOK
  <2>2. CASE \E reads \in storage_hal_answers : ReadSentinel(reads)
    BY <2>0, <2>2 DEF ReadSentinel
  <2>3. CASE Generate
    <3>1. at \in {"generate_first", "generate"}
      BY <2>3 DEF Generate
    <3>2. at' \in {"sentinel", "lock_pk"} => s_identity' # None /\ s_identity' = nvs_lock'
      BY <2>0, <2>3, GenerateResult
    <3>3. at' \in {"sentinel", "lock_pk", "snapshot", "halted"}
      BY <2>0, <2>3, GenerateResult
    <3>4. s_identity' # None => s_identity' = nvs_lock'
      BY <2>0, <2>3, <3>1, GenerateResult
    <3> QED
      BY <3>2, <3>3, <3>4
  <2>4. CASE WriteSentinel \/ WipeSlot
    BY <2>0, <2>4 DEF WriteSentinel, WipeSlot
  <2>5. CASE WipeRam
    BY <2>0, <2>5 DEF WipeRam, Done
  <2> QED
    BY <1>5, <2>1, <2>2, <2>3, <2>4, <2>5 DEF IdentityStep, key_store_identity_init
<1>6. CASE pn532_i2c_create \/ pn532_init
  BY <1>6 DEF pn532_i2c_create, pn532_init, EndComm
<1>7. CASE lli_init
  BY <1>7, FullOrder, OtherOrder
     DEF lli_init, EndComm, PlaceInv, Places, IdPlaces, CommPlaces, TypeOK
<1>8. CASE Boot
  BY <1>8 DEF Boot, Order, TypeOK
<1>9. CASE PowerLoss \/ Reflash \/ Damage
  BY <1>9 DEF PowerLoss, Reflash, Damage, LoseIdentity, TypeOK
<1> QED
  BY <1>1, <1>2, <1>3, <1>4, <1>5, <1>6, <1>7, <1>8, <1>9 DEF Next, app_main

\* The session keeps the key that was copied, and the copy is the identity unless the
\* first call has failed.
LEMMA SessionKeeps == ASSUME StartupIInv, Next PROVE SessionInv'
<1> USE PartsOfIInv DEF SessionInv, AfterSnapshot, IdPlaces
<1>1. CASE key_store_init \/ intent_log_init
  BY <1>1, FullOrder, OtherOrder
     DEF key_store_init, intent_log_init, Proceed, Fail, PlaceInv, Places, CommPlaces, TypeOK
<1>2. CASE init_display \/ init_actuator \/ init_integrity
  BY <1>2, FullOrder, OtherOrder
     DEF init_display, init_actuator, init_integrity, Proceed, Fail, PlaceInv, Places,
         CommPlaces, TypeOK
<1>3. CASE Harness \/ AppModule_Start \/ RegisterTask \/ comm_module_start
  BY <1>3, FullOrder, OtherOrder
     DEF Harness, AppModule_Start, RegisterTask, comm_module_start, Proceed, Fail,
         PlaceInv, Places, CommPlaces, TypeOK
<1>4. CASE CallIdentity \/ Snapshot \/ session_init \/ AppModule_Init \/ Provision
  BY <1>4 DEF CallIdentity, Snapshot, session_init, Fail, AppModule_Init, Provision
<1>5. CASE IdentityStep
  <2>1. /\ UNCHANGED <<caller, cfg_key, session>> /\ at \in IdPlaces
        /\ at' \in IdPlaces \cup {"snapshot", "lock_pk", "halted"}
        /\ at' = "lock_pk" => caller = "app_init"
        /\ at' # "halted" => UNCHANGED failed_at
    BY <1>5, IdentityMoves DEF TypeOK
  <2>2. s_identity # None => UNCHANGED s_identity
    BY <1>5 DEF IdentityStep, key_store_identity_init, ReadIdentity, ReadSentinel, Generate,
       WriteSentinel, WipeSlot, WipeRam, IdentityInv
  <2>3. cfg_key \in Ids \cup {None}
    BY DEF TypeOK
  <2> QED
    BY <2>1, <2>2, <2>3
<1>6. CASE pn532_i2c_create \/ pn532_init
  BY <1>6 DEF pn532_i2c_create, pn532_init, EndComm
<1>7. CASE lli_init
  BY <1>7, FullOrder, OtherOrder
     DEF lli_init, EndComm, PlaceInv, Places, CommPlaces, TypeOK
<1>8. CASE Boot
  BY <1>8 DEF Boot, Order, TypeOK
<1>9. CASE PowerLoss \/ Reflash \/ Damage
  BY <1>9 DEF PowerLoss, Reflash, Damage, LoseIdentity
<1> QED
  BY <1>1, <1>2, <1>3, <1>4, <1>5, <1>6, <1>7, <1>8, <1>9 DEF Next, app_main

\* Keys of another identity come only from a slot that was not erased, and an identity
\* is generated beside them only in a spoiled lock.
LEMMA OwnKeeps == ASSUME StartupIInv, Next PROVE OwnInv'
<1> USE PartsOfIInv DEF OwnInv
<1>0. IdentityTypeOK
  BY DEF TypeOK
<1>1. CASE key_store_init
  <2>1. s_keys' \in {Warm(nvs_keys), s_keys}
    BY <1>1 DEF key_store_init
  <2>2. \A i \in 1 .. Len(Warm(nvs_keys)) :
          i \in Slots /\ Warm(nvs_keys)[i] = nvs_keys[i] /\ nvs_keys[i] # None
    BY <1>0, WarmLoads DEF IdentityTypeOK
  <2>3. /\ UNCHANGED <<nvs, spoiled, slot>>
        /\ at = "storage" /\ at' \notin {"generate", "wipe", "sentinel"}
    BY <1>1, FullOrder, OtherOrder
       DEF key_store_init, Proceed, Fail, PlaceInv, Places, IdPlaces, CommPlaces, TypeOK
  <2> QED
    BY <2>1, <2>2, <2>3
<1>2. CASE Harness
  <2>1. at' = "over" /\ UNCHANGED <<nvs_lock, s_keys, slot>> /\ at = "harness"
    BY <1>2, OtherOrder
       DEF Harness, Proceed, PlaceInv, Places, IdPlaces, CommPlaces, TypeOK
  <2>2. ~spoiled' => UNCHANGED <<nvs_keys, spoiled>>
    BY <1>2, Zenon DEF Harness
  <2> QED
    BY <2>1, <2>2
<1>3. CASE IdentityStep
  <2>1. CASE \E reads \in storage_hal_answers : ReadIdentity(reads)
    BY <1>0, <2>1 DEF ReadIdentity, Done, IdentityTypeOK
  <2>2. CASE \E reads \in storage_hal_answers : ReadSentinel(reads)
    BY <1>0, <2>2 DEF ReadSentinel, IdentityTypeOK
  <2>3. CASE Generate
    <3>1. at \in {"generate_first", "generate"} /\ nvs_lock = None
      BY <2>3 DEF Generate, IdentityInv
    <3>2. ~spoiled' => ~spoiled /\ (at' = "sentinel" \/ nvs_lock' = None)
      BY <1>0, <2>3, <3>1, GenerateResult
    <3>3. at' \notin {"generate", "wipe"}
      BY <1>0, <2>3, <3>1, GenerateResult
    <3> QED
      BY <3>2, <3>3, IdsAreNoBlobs
  <2>4. CASE WriteSentinel
    BY <1>0, <2>4 DEF WriteSentinel, Slots
  <2>5. CASE WipeSlot
    <3>1. slot \in Slots /\ at = "wipe" /\ UNCHANGED <<at, nvs_lock>> /\ slot' = slot + 1
      BY <1>0, <2>5 DEF WipeSlot, Slots, IdentityTypeOK
    <3>2. ~spoiled' => ~spoiled /\ nvs_keys'[slot] = None
      BY <1>0, <2>5, <3>1 DEF WipeSlot, IdentityTypeOK
    <3>3. \A i \in Slots : i # slot => nvs_keys'[i] = nvs_keys[i]
      BY <1>0, <2>5 DEF WipeSlot, IdentityTypeOK
    <3>4. \A i \in Slots : i < slot' => i < slot \/ i = slot
      BY <3>1 DEF Slots
    <3> QED
      BY <3>1, <3>2, <3>3, <3>4
  <2>6. CASE WipeRam
    <3>1. at = "wipe" /\ \A i \in Slots : i < slot
      BY <1>0, <2>6 DEF WipeRam, Slots, IdentityTypeOK
    <3>2. s_keys' = <<>> /\ UNCHANGED <<nvs, spoiled>> /\ at' \notin {"generate", "wipe"}
      BY <2>6 DEF WipeRam, Done
    <3>3. 1 .. Len(<<>>) = {}
      OBVIOUS
    <3> QED
      BY <3>1, <3>2, <3>3
  <2> QED
    BY <1>3, <2>1, <2>2, <2>3, <2>4, <2>5, <2>6 DEF IdentityStep, key_store_identity_init
<1>4. CASE Provision
  <2>1. s_lock_pk = nvs_lock /\ s_lock_pk \in Keys
    BY <1>0, <1>4 DEF Provision, IdentityInv, IdentityTypeOK, Keys
  <2>2. /\ Len(s_keys') = Len(s_keys) + 1 /\ s_keys'[Len(s_keys) + 1] = s_lock_pk
        /\ \A i \in 1 .. Len(s_keys) : s_keys'[i] = s_keys[i]
    BY <1>0, <1>4, <2>1, AppendProperties DEF Provision, IdentityTypeOK
  <2>3. Len(s_keys) \in Nat
    BY <1>0 DEF IdentityTypeOK
  <2>4. \A i \in 1 .. Len(s_keys') : i \in 1 .. Len(s_keys) \/ i = Len(s_keys) + 1
    BY <2>2, <2>3
  <2>5. \A i \in Slots : nvs_keys'[i] \in {nvs_keys[i], s_lock_pk}
    BY <1>0, <1>4 DEF Provision, IdentityTypeOK
  <2>6. UNCHANGED <<at, nvs_lock, spoiled>> /\ at = "running"
    BY <1>4 DEF Provision
  <2> QED
    BY <2>1, <2>2, <2>4, <2>5, <2>6
<1>5. CASE \/ intent_log_init \/ init_display \/ init_actuator \/ init_integrity
           \/ AppModule_Start \/ RegisterTask \/ comm_module_start \/ lli_init
  <2>1. UNCHANGED <<nvs, s_keys, spoiled, slot>> /\ at \notin {"sentinel", "wipe"}
    BY <1>5 DEF intent_log_init, init_display, init_actuator, init_integrity,
       AppModule_Start, RegisterTask, comm_module_start, lli_init
  <2>2. at' \notin IdPlaces
    BY <1>5, FullOrder, OtherOrder
       DEF intent_log_init, init_display, init_actuator, init_integrity, AppModule_Start,
           RegisterTask, comm_module_start, lli_init, EndComm, Proceed, Fail, PlaceInv,
           Places, IdPlaces, CommPlaces, TypeOK
  <2> QED
    BY <2>1, <2>2 DEF IdPlaces
<1>6. CASE CallIdentity \/ Snapshot \/ session_init \/ AppModule_Init
  BY <1>6 DEF CallIdentity, Snapshot, session_init, Fail, AppModule_Init
<1>7. CASE pn532_i2c_create \/ pn532_init
  BY <1>7 DEF pn532_i2c_create, pn532_init, EndComm
<1>8. CASE Boot
  BY <1>8 DEF Boot, Order, TypeOK
<1>9. CASE PowerLoss
  <2>1. spoiled' = (spoiled \/ CutShort)
    BY <1>9, Zenon DEF PowerLoss
  <2>2. ~spoiled' => ~spoiled /\ at \notin {"sentinel", "wipe"}
    BY <2>1 DEF CutShort
  <2>3. at' = "off" /\ s_keys' = <<>> /\ UNCHANGED nvs
    BY <1>9 DEF PowerLoss
  <2> QED
    BY <2>2, <2>3
<1>10. CASE Reflash
  BY <1>10 DEF Reflash
<1>11. CASE Damage
  <2>1. nvs_lock' \notin Ids /\ at' = "off" /\ UNCHANGED spoiled
    BY <1>11, IdsAreNoBlobs DEF Damage, LoseIdentity
  <2> QED
    BY <2>1
<1> QED
  BY <1>1, <1>2, <1>3, <1>4, <1>5, <1>6, <1>7, <1>8, <1>9, <1>10, <1>11
     DEF Next, app_main

-----------------------------------------------------------------------------
(***************************************************************************)
(* Types                                                                   *)
(***************************************************************************)

\* What a boot has in RAM is gone when it is off.
OffInv == at = "off" => s_identity = None /\ s_keys = <<>> /\ held = {} /\ tasks = {}

LEMMA OffKeeps == ASSUME StartupIInv, Next PROVE OffInv'
<1> USE PartsOfIInv DEF OffInv
<1>1. at' = "off" => at = "off" \/ PowerLoss
  BY PlaceKeeps
<1>2. CASE PowerLoss
  BY <1>2 DEF PowerLoss, BlankRam
<1>3. CASE Boot
  BY <1>3 DEF Boot, Order, TypeOK
<1>4. CASE Reflash \/ Damage
  BY <1>4 DEF Reflash, Damage, LoseIdentity, TypeOK
<1>5. CASE app_main \/ Provision
  <2>1. at # "off"
    BY <1>5 DEF app_main, Provision, key_store_init, intent_log_init, init_display,
       init_actuator, init_integrity, Harness, CallIdentity, IdentityStep,
       key_store_identity_init, ReadIdentity, ReadSentinel, Generate, WriteSentinel,
       WipeSlot, WipeRam, Snapshot, session_init, pn532_i2c_create, pn532_init, lli_init,
       AppModule_Init, AppModule_Start, RegisterTask, comm_module_start
  <2>2. CASE PowerLoss
    BY <1>2, <2>2
  <2> QED
    BY <1>1, <2>1, <2>2
<1> QED
  BY <1>2, <1>3, <1>4, <1>5 DEF Next

\* The variables of the identity stay in their ranges.
LEMMA IdentityTypeKeeps == ASSUME StartupIInv, Next PROVE IdentityTypeOK'
<1>0. IdentityTypeOK
  BY PartsOfIInv DEF TypeOK
<1> USE <1>0 DEF IdentityTypeOK
<1>1. CASE key_store_init
  <2>1. UNCHANGED <<caller, nvs, s_identity, slot, born, spoiled>>
        /\ s_keys' \in {Warm(nvs_keys), s_keys}
    BY <1>1 DEF key_store_init
  <2> QED
    BY <2>1, WarmLoads
<1>2. CASE Harness
  <2>1. nvs_keys' \in [Slots -> Keys \cup {None}]
    <3>1. CASE storage_test_task
      <4> DEFINE others == RemoveFirst(Warm(nvs_keys), TestKey)
                 n == Len(others)
      <4>1. others \in Seq(Keys)
        BY WarmLoads, RemoveFirstKeeps
      <4>2. n \in Nat /\ \A i \in 1 .. n : others[i] \in Keys
        BY <4>1, LenProperties, ElementOfSeq
      <4>3. nvs_keys' = [i \in Slots |->
                IF i <= n THEN others[i]
                ELSE IF i > n + 2 THEN nvs_keys[i]
                ELSE IF i = n + 1 /\ n + 2 <= KEY_MAX THEN TestKey ELSE None]
        BY <3>1 DEF storage_test_task
      <4> HIDE DEF others, n
      <4> QED
        BY <4>2, <4>3 DEF Slots, Keys
    <3>2. CASE UNCHANGED nvs_keys
      BY <3>2
    <3> QED
      BY <1>2, <3>1, <3>2 DEF Harness
  <2>2. spoiled' \in {spoiled, TRUE}
    BY <1>2 DEF Harness
  <2>3. UNCHANGED <<caller, nvs_lock, nvs_booted, s_keys, s_identity, slot, born>>
    BY <1>2 DEF Harness
  <2> QED
    BY <2>1, <2>2, <2>3
<1>3. CASE IdentityStep
  <2>1. CASE \E reads \in storage_hal_answers : ReadIdentity(reads)
    BY <2>1 DEF ReadIdentity
  <2>2. CASE \E reads \in storage_hal_answers : ReadSentinel(reads)
    <3>1. spoiled' \in {spoiled, TRUE}
      BY <2>2 DEF ReadSentinel
    <3> QED
      BY <2>2, <3>1 DEF ReadSentinel
  <2>3. CASE Generate
    <3>1. UNCHANGED <<caller, nvs_booted, nvs_keys, s_keys, slot>>
      BY <2>3 DEF Generate
    <3>2. /\ nvs_lock' \in Ids \cup {None, Corrupt} /\ s_identity' \in Ids \cup {None}
          /\ spoiled' \in BOOLEAN
      BY <2>3, GenerateResult
    <3>3. born' \in 0 .. MaxIds
      BY <2>3 DEF Generate
    <3> QED
      BY <3>1, <3>2, <3>3
  <2>4. CASE WriteSentinel
    <3>1. nvs_booted' \in BOOLEAN /\ slot' = 1
      BY <2>4 DEF WriteSentinel
    <3> QED
      BY <2>4, <3>1 DEF WriteSentinel
  <2>5. CASE WipeSlot
    <3>1. spoiled' \in {spoiled, TRUE}
      BY <2>5 DEF WipeSlot
    <3>2. nvs_keys' = [nvs_keys EXCEPT ![slot] = None] \/ nvs_keys' = nvs_keys
      BY <2>5 DEF WipeSlot
    <3>3. nvs_keys' \in [Slots -> Keys \cup {None}]
      BY <3>2
    <3>4. slot <= KEY_MAX /\ slot' = slot + 1
      BY <2>5 DEF WipeSlot
    <3>5. slot' \in 1 .. KEY_MAX + 1
      BY <3>4
    <3>6. UNCHANGED <<caller, nvs_lock, nvs_booted, s_keys, s_identity, born>>
      BY <2>5 DEF WipeSlot
    <3> QED
      BY <3>1, <3>3, <3>5, <3>6
  <2>6. CASE WipeRam
    <3>1. s_keys' \in Seq(Keys) /\ Len(s_keys') = 0
      BY <2>6, EmptySeq DEF WipeRam
    <3> QED
      BY <2>6, <3>1 DEF WipeRam
  <2> QED
    BY <1>3, <2>1, <2>2, <2>3, <2>4, <2>5, <2>6 DEF IdentityStep, key_store_identity_init
<1>4. CASE Provision
  <2>1. s_lock_pk \in Keys
    BY <1>4, PartsOfIInv DEF Provision, IdentityInv, Keys
  <2>2. s_keys' \in Seq(Keys) /\ Len(s_keys') = Len(s_keys) + 1
    BY <1>4, <2>1, AppendProperties DEF Provision
  <2>3. nvs_keys' \in [Slots -> Keys \cup {None}]
    BY <1>4, <2>1 DEF Provision
  <2>4. Len(s_keys) \in Nat /\ Len(s_keys) < KEY_MAX
    BY <1>4 DEF Provision
  <2>5. UNCHANGED <<caller, nvs_lock, nvs_booted, s_identity, slot, born, spoiled>>
    BY <1>4 DEF Provision
  <2> QED
    BY <2>2, <2>3, <2>4, <2>5
<1>5. CASE CallIdentity
  BY <1>5 DEF CallIdentity
<1>6. CASE PowerLoss
  <2>1. spoiled' = (spoiled \/ CutShort)
    BY <1>6, Zenon DEF PowerLoss
  <2>2. spoiled' \in BOOLEAN
    BY <2>1
  <2>3. s_keys' \in Seq(Keys) /\ Len(s_keys') = 0
    BY <1>6, EmptySeq DEF PowerLoss
  <2>4. UNCHANGED <<caller, nvs, born>> /\ s_identity' = None /\ slot' = 1
    BY <1>6 DEF PowerLoss
  <2> QED
    BY <2>2, <2>3, <2>4
<1>7. CASE Damage
  BY <1>7 DEF Damage, LoseIdentity
<1>8. CASE UNCHANGED idRest
  BY <1>8
<1> QED
  BY <1>1, <1>2, <1>3, <1>4, <1>5, <1>6, <1>7, <1>8
     DEF Next, app_main, intent_log_init, init_display, init_actuator, init_integrity,
         Snapshot, session_init, pn532_i2c_create, pn532_init, lli_init, AppModule_Init,
         AppModule_Start, RegisterTask, comm_module_start, Boot, Reflash

\* What the start-up itself keeps.
BootTypeOK ==
    /\ build \in Builds
    /\ held \subseteq Resources \cup {"handle"}
    /\ step \in 1 .. Len(I2cSteps) + 1
    /\ destroyed \in 0 .. 2
    /\ cfg_key \in Ids \cup {None} /\ s_lock_pk \in Ids \cup {None}
    /\ session = None \/ session \in Seq(Ids \cup {None})
    /\ tasks \subseteq {"app", "comm"}

LEMMA BootTypeKeeps == ASSUME StartupIInv, Next PROVE BootTypeOK'
<1>0. BootTypeOK /\ IdentityTypeOK
  BY PartsOfIInv DEF TypeOK, BootTypeOK
<1> USE <1>0 DEF BootTypeOK
<1>1. CASE Snapshot
  BY <1>1 DEF Snapshot, IdentityTypeOK
<1>2. CASE session_init
  <2>1. session' = <<cfg_key>> \/ session' = session
    BY <1>2 DEF session_init
  <2>2. <<cfg_key>> \in Seq(Ids \cup {None})
    OBVIOUS
  <2>3. UNCHANGED <<build, held, step, destroyed, cfg_key, s_lock_pk, tasks>>
    BY <1>2 DEF session_init
  <2> QED
    BY <2>1, <2>2, <2>3
<1>3. CASE pn532_i2c_create
  <2>1. destroyed = 0 /\ step \in 1 .. Len(I2cSteps)
    BY <1>3, PartsOfIInv DEF pn532_i2c_create, ReleaseInv
  <2>2. held' \subseteq Resources \cup {"handle"} /\ session' \in {session, None}
    BY <1>3 DEF pn532_i2c_create, pn532_i2c_destroy, EndComm
  <2>3. step' \in 1 .. Len(I2cSteps) + 1 /\ destroyed' \in 0 .. 2
    BY <1>3, <2>1 DEF pn532_i2c_create, I2cSteps
  <2>4. UNCHANGED <<build, cfg_key, s_lock_pk, tasks>>
    BY <1>3 DEF pn532_i2c_create
  <2> QED
    BY <2>2, <2>3, <2>4
<1>4. CASE pn532_init \/ lli_init
  <2>1. destroyed = 0
    BY <1>4, PartsOfIInv DEF pn532_init, lli_init, ReleaseInv
  <2>2. held' \subseteq Resources \cup {"handle"} /\ session' \in {session, None}
    BY <1>4 DEF pn532_init, lli_init, pn532_i2c_destroy, EndComm
  <2>3. destroyed' \in 0 .. 2 /\ UNCHANGED <<build, step, cfg_key, s_lock_pk, tasks>>
    BY <1>4, <2>1 DEF pn532_init, lli_init
  <2> QED
    BY <2>2, <2>3
<1>5. CASE AppModule_Init
  BY <1>5 DEF AppModule_Init, IdentityTypeOK
<1>6. CASE RegisterTask \/ comm_module_start
  BY <1>6 DEF RegisterTask, comm_module_start
<1>7. CASE PowerLoss
  BY <1>7 DEF PowerLoss, BlankRam, I2cSteps
<1>8. CASE Reflash
  BY <1>8 DEF Reflash
<1>9. CASE UNCHANGED <<build, bootVars>>
  BY <1>9
<1> QED
  BY <1>1, <1>2, <1>3, <1>4, <1>5, <1>6, <1>7, <1>8, <1>9
     DEF Next, app_main, key_store_init, intent_log_init, init_display, init_actuator,
         init_integrity, Harness, CallIdentity, IdentityStep, AppModule_Start, Provision,
         Boot, Damage

-----------------------------------------------------------------------------
(***************************************************************************)
(* Theorems                                                                *)
(***************************************************************************)

\* A device that was never switched on.
LEMMA InitIInv == Init => StartupIInv
<1> SUFFICES ASSUME Init PROVE StartupIInv
  OBVIOUS
<1>1. IdentityTypeOK
  <2>1. nvs_keys \in [Slots -> Keys \cup {None}]
    <3>1. PICK n \in 0 .. KEY_MAX :
             nvs_keys = [i \in Slots |-> IF i <= n THEN EarlierLife ELSE None]
      BY DEF Init, IdentityInit
    <3>2. EarlierLife \in Keys
      BY DEF Keys, Ids, EarlierLife
    <3>3. \A i \in Slots : (IF i <= n THEN EarlierLife ELSE None) \in Keys \cup {None}
      BY <3>2
    <3> QED
      BY <3>1, <3>3
  <2>2. s_keys \in Seq(Keys) /\ Len(s_keys) = 0
    BY EmptySeq DEF Init, IdentityInit
  <2>3. {nvs_booted, spoiled} \subseteq BOOLEAN
    BY DEF Init, IdentityInit
  <2> QED
    BY <2>1, <2>2, <2>3 DEF Init, IdentityInit, IdentityTypeOK
<1>2. TypeOK
  BY <1>1 DEF Init, IdentityInit, TypeOK, I2cSteps
<1>3. PlaceInv /\ BackendInv /\ ReleaseInv /\ SessionInv
  BY DEF Init, IdentityInit, PlaceInv, BackendInv, ReleaseInv, NothingLeaks, DestroyedOnce,
     SessionInv, AfterSnapshot, IdPlaces, BeforeHandle, I2cSteps
<1>4. IdentityInv /\ OwnInv
  BY IdsAreNoBlobs DEF Init, IdentityInit, IdentityInv, OwnInv
<1>5. StartupInv
  BY <1>2, <1>3 DEF Init, IdentityInit, StartupInv, LockPkIsPersisted, RunsOnlyImplemented,
     Full, ReleaseInv
<1> QED
  BY <1>3, <1>4, <1>5 DEF StartupIInv

\* What the inductive parts say of a lock that runs.
LEMMA RunningLock ==
    ASSUME TypeOK, BackendInv, ReleaseInv, IdentityInv, SessionInv, OwnInv
    PROVE  StartupInv /\ SignsAsItself /\ OwnKeysOnly
<1>1. LockPkIsPersisted
  BY DEF LockPkIsPersisted, Full, IdentityInv, TypeOK, IdentityTypeOK
<1>2. RunsOnlyImplemented
  BY DEF RunsOnlyImplemented, Full, BackendInv
<1>3. StartupInv
  BY <1>1, <1>2 DEF StartupInv, ReleaseInv
<1>4. SignsAsItself
  BY DEF SignsAsItself, Full, IdentityInv, SessionInv, AfterSnapshot
<1>5. OwnKeysOnly
  <2>1. DOMAIN s_keys = 1 .. Len(s_keys)
    BY LenProperties DEF TypeOK, IdentityTypeOK
  <2> QED
    BY <1>1, <2>1 DEF OwnKeysOnly, Full, OwnInv, LockPkIsPersisted
<1> QED
  BY <1>3, <1>4, <1>5

\* The same of every step, to be primed.
LEMMA RunningInv ==
    TypeOK /\ BackendInv /\ ReleaseInv /\ IdentityInv /\ SessionInv /\ OwnInv => StartupInv
BY RunningLock

\* Every step keeps the inductive invariant.
LEMMA NextIInv == StartupIInv /\ [Next]_vars => StartupIInv'
<1> SUFFICES ASSUME StartupIInv, [Next]_vars PROVE StartupIInv'
  OBVIOUS
<1>1. CASE Next
  <2>1. TypeOK'
    BY <1>1, OffKeeps, IdentityTypeKeeps, BootTypeKeeps DEF OffInv, BootTypeOK, TypeOK
  <2>2. /\ PlaceInv' /\ BackendInv' /\ ReleaseInv' /\ IdentityInv' /\ SessionInv'
        /\ OwnInv'
    BY <1>1, PlaceKeeps, BackendKeeps, ReleaseKeeps, IdentityKeeps, SessionKeeps, OwnKeeps
  <2>3. (TypeOK /\ BackendInv /\ ReleaseInv /\ IdentityInv /\ SessionInv /\ OwnInv
          => StartupInv)'
    BY RunningInv, PTL
  <2> QED
    BY <2>1, <2>2, <2>3 DEF StartupIInv
<1>2. CASE UNCHANGED vars
  BY <1>2 DEF StartupIInv, StartupInv, TypeOK, IdentityTypeOK, LockPkIsPersisted,
     NothingLeaks, DestroyedOnce, RunsOnlyImplemented, Full, PlaceInv, BackendInv,
     ReleaseInv, BeforeHandle, IdentityInv, SessionInv, AfterSnapshot, OwnInv
<1> QED
  BY <1>1, <1>2

\* No sequence of boots, failures of the start-up, power losses, reflashes and damages
\* leaves a lock that shows another public key than the persisted one, a leak behind a
\* comm stack that did not come up, a second destruction of the I2C context elsewhere
\* than in cleanup_deinit, or a lock that runs on a skeleton.
THEOREM StartupCorrect == Spec => []StartupInv
<1>1. StartupIInv => StartupInv
  BY DEF StartupIInv
<1> QED
  BY InitIInv, NextIInv, <1>1, PTL DEF Spec

\* The session of a lock that runs signs M2 with the identity its QR code shows, or the
\* first call of key_store_identity_init has failed.
THEOREM LockSignsAsItself == Spec => []SignsAsItself
<1>1. StartupIInv => SignsAsItself
  BY PartsOfIInv, RunningLock
<1> QED
  BY InitIInv, NextIInv, <1>1, PTL DEF Spec

\* Where no first boot was cut short, no erase failed, no identity was lost and no storage
\* harness ran, every key a lock accepts was provisioned for its present identity.
THEOREM KeysAreOwn == Spec => []OwnKeysOnly
<1>1. StartupIInv => OwnKeysOnly
  BY PartsOfIInv, RunningLock
<1> QED
  BY InitIInv, NextIInv, <1>1, PTL DEF Spec

\* While the device is on, a persisted identity stays what it is: only Generate writes
\* it, and that runs only where there is none.
LEMMA StepIdentityStays == StartupIInv /\ [Next]_vars => [IdentityStays]_vars
<1> SUFFICES ASSUME StartupIInv, [Next]_vars PROVE [IdentityStays]_vars
  OBVIOUS
<1> USE DEF IdentityStays
<1>1. CASE IdentityStep
  <2>1. CASE Generate
    BY <2>1, PartsOfIInv DEF Generate, IdentityInv
  <2>2. CASE ~Generate
    BY <1>1, <2>2 DEF IdentityStep, key_store_identity_init, ReadIdentity, ReadSentinel,
       WriteSentinel, WipeSlot, WipeRam
  <2> QED
    BY <2>1, <2>2
<1>2. CASE app_main /\ ~IdentityStep
  BY <1>2 DEF app_main, key_store_init, intent_log_init, init_display, init_actuator,
     init_integrity, Harness, CallIdentity, Snapshot, session_init, pn532_i2c_create,
     pn532_init, lli_init, AppModule_Init, AppModule_Start, RegisterTask,
     comm_module_start
<1>3. CASE Boot \/ Provision \/ PowerLoss \/ Reflash
  BY <1>3 DEF Boot, Provision, PowerLoss, Reflash
<1>4. CASE Damage
  BY <1>4 DEF Damage, LoseIdentity
<1>5. CASE UNCHANGED vars
  BY <1>5
<1> QED
  BY <1>1, <1>2, <1>3, <1>4, <1>5 DEF Next

\* No read that fails, no corrupt blob, no power loss and no boot replaces the identity of
\* a lock: for every phone it was provisioned to, it would be another lock.
THEOREM IdentityNeverReplaced == Spec => IdentityIsStable
<1>1. Spec => []StartupIInv
  BY InitIInv, NextIInv, PTL DEF Spec
<1> QED
  BY <1>1, StepIdentityStays, PTL DEF Spec, IdentityIsStable

=============================================================================
