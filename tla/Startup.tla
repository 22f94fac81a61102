------------------------------ MODULE Startup ------------------------------
(***************************************************************************)
(* The start of the firmware (main/smart_lock_firmware.c, app_main): the   *)
(* peers in dependency order, the comm stack down to the PN532, the        *)
(* Application and its task.  Every step may fail and then ends the start  *)
(* through its clean-up path; the power may fail between any two.  While   *)
(* it is off, another build may be flashed: the test mode and the backends *)
(* are chosen at build time (Kconfig).                                     *)
(***************************************************************************)
EXTENDS Identity, SequencesExt

VARIABLES
    build,       \* the configuration of the flashed firmware
    held,        \* what pn532_i2c_create and pn532_init have acquired
    step,        \* the step pn532_i2c_create has come to
    destroyed,   \* how often pn532_i2c_destroy has run on this context
    cfg_key,     \* local_sk and local_pk of the comm configuration
    session,     \* <<the key the session signs M2 with>>; None while there is none
    s_lock_pk,   \* the key the QR code shows
    tasks,       \* the tasks that run
    failed_at    \* history: the step of this boot that failed, or "none"
bootVars == <<held, step, destroyed, cfg_key, session, s_lock_pk, tasks>>
vars == <<identityVars, build, bootVars, failed_at>>

Modes == {"FULL_APPLICATION", "COMM_ONLY", "ACTUATOR_ONLY", "DISPLAY_ONLY",
          "INTEGRITY_ONLY", "STORAGE_ONLY"}
Builds == [mode : Modes, storage : {"NVS", "SE"}, display : {"CONSOLE", "PANEL"},
           actuator : {"STUB", "RMT", "MCPWM"}, integrity : {"STUB", "TAMPER_GPIO"}]

\* What the HAL may do: the SE backend is a skeleton, and NVS may fail.
storage_hal_answers == IF build.storage = "NVS" THEN BOOLEAN ELSE {FALSE}

\* Whether the init of a backend returns OK; the skeletons refuse.
console_init == TRUE
panel_init == FALSE
Display_Init == IF build.display = "CONSOLE" THEN console_init ELSE panel_init

aai_stub_init == TRUE
rmt_init == FALSE
mcpwm_init == FALSE
AAI_Init ==
    CASE build.actuator = "STUB"  -> aai_stub_init
      [] build.actuator = "RMT"   -> rmt_init
      [] build.actuator = "MCPWM" -> mcpwm_init

integrity_stub_init == TRUE
gpio_init == FALSE
Integrity_Init == IF build.integrity = "STUB" THEN integrity_stub_init ELSE gpio_init

\* The steps of each mode, in order; a harness does what it tests in its task.
Order(mode) ==
    CASE mode = "FULL_APPLICATION" ->
            <<"storage", "intent", "display", "actuator", "integrity", "config", "comm",
              "app_init", "start", "register", "comm_start", "running">>
      [] mode = "COMM_ONLY" ->
            <<"storage", "intent", "config", "comm", "register", "comm_start", "running">>
      [] mode = "ACTUATOR_ONLY"  -> <<"actuator", "harness", "over">>
      [] mode = "DISPLAY_ONLY"   -> <<"display", "harness", "over">>
      [] mode = "INTEGRITY_ONLY" -> <<"integrity", "harness", "over">>
      [] mode = "STORAGE_ONLY"   -> <<"storage", "intent", "harness", "over">>

\* The step that follows; "config" and "comm" are carried out step by step below.
After(this) ==
    LET order == Order(build.mode)
        i == CHOOSE k \in DOMAIN order : order[k] = this
    IN  order[i + 1]

Proceed == at' = After(at) /\ UNCHANGED failed_at
Fail == at' = "halted" /\ failed_at' = at

-----------------------------------------------------------------------------
(***************************************************************************)
(* The peers                                                               *)
(***************************************************************************)

\* storage_hal_init and the warming of the cache, up to the first empty slot.
key_store_init ==
    /\ at = "storage"
    /\ \/ TRUE \in storage_hal_answers /\ s_keys' = Warm(nvs_keys) /\ Proceed
       \/ Fail /\ UNCHANGED s_keys
    /\ UNCHANGED <<caller, nvs, s_identity, slot, born, spoiled, build, bootVars>>

intent_log_init ==
    /\ at = "intent"
    /\ \/ TRUE \in storage_hal_answers /\ Proceed
       \/ Fail
    /\ UNCHANGED <<idRest, build, bootVars>>

init_display ==
    /\ at = "display"
    /\ IF Display_Init THEN Proceed ELSE Fail
    /\ UNCHANGED <<idRest, build, bootVars>>

init_actuator ==
    /\ at = "actuator"
    /\ IF AAI_Init THEN Proceed ELSE Fail
    /\ UNCHANGED <<idRest, build, bootVars>>

init_integrity ==
    /\ at = "integrity"
    /\ IF Integrity_Init THEN Proceed ELSE Fail
    /\ UNCHANGED <<idRest, build, bootVars>>

\* The harness of the storage: it revokes its two keys, adds both and revokes the
\* first one.  The others leave nothing behind.
storage_test_task ==
    LET others == RemoveFirst(Warm(nvs_keys), TestKey)
        n == Len(others)
    IN  nvs_keys' = [i \in Slots |->
            IF i <= n THEN others[i]
            ELSE IF i > n + 2 THEN nvs_keys[i]
            ELSE IF i = n + 1 /\ n + 2 <= KEY_MAX THEN TestKey ELSE None]

Harness ==
    /\ at = "harness"
    /\ IF build.mode = "STORAGE_ONLY"
       THEN storage_test_task /\ spoiled' = TRUE
       ELSE UNCHANGED <<nvs_keys, spoiled>>
    /\ Proceed
    /\ UNCHANGED <<caller, nvs_lock, nvs_booted, s_keys, s_identity, slot, born, build, bootVars>>

-----------------------------------------------------------------------------
(***************************************************************************)
(* The comm stack                                                          *)
(***************************************************************************)

\* AppModule_GetCommConfig and AppModule_Init both call key_store_identity_init.
CallIdentity ==
    /\ at \in {"config", "app_init"}
    /\ caller' = at
    /\ at' = "identity"
    /\ UNCHANGED <<nvs, s_keys, s_identity, slot, born, spoiled, build, bootVars, failed_at>>

IdentityStep ==
    /\ \E reads \in storage_hal_answers : key_store_identity_init(reads)
    /\ failed_at' = IF at' = "halted" THEN caller ELSE failed_at
    /\ UNCHANGED <<build, bootVars>>

\* A configuration that is copied before the identity is there.
Snapshot_Early ==
    /\ at = "snapshot"
    /\ cfg_key' = None
    /\ at' = "session"
    /\ failed_at' = IF s_identity = None THEN "config" ELSE failed_at
    /\ UNCHANGED <<idRest, build, held, step, destroyed, session, s_lock_pk, tasks>>

\* The rest of AppModule_GetCommConfig: without an identity the keys stay zero, and
\* the start goes on.
Snapshot ==
    /\ at = "snapshot"
    /\ cfg_key' = s_identity
    /\ at' = "session"
    /\ failed_at' = IF s_identity = None THEN "config" ELSE failed_at
    /\ UNCHANGED <<idRest, build, held, step, destroyed, session, s_lock_pk, tasks>>

session_init ==
    /\ at = "session"
    /\ \/ session' = <<cfg_key>> /\ at' = "i2c" /\ UNCHANGED failed_at
       \/ Fail /\ UNCHANGED session
    /\ UNCHANGED <<idRest, build, held, step, destroyed, cfg_key, s_lock_pk, tasks>>

\* The steps of pn532_i2c_create and setup_irq, and those that acquire something.
I2cSteps == <<"ctx", "mutex", "bus", "device", "reset", "sda", "probe", "irq_sem",
              "irq_gpio", "isr_service", "isr">>
Resources == {"ctx", "mutex", "bus", "device", "irq_sem", "isr"}

\* A destroy that takes the semaphore for part of the interrupt handler.
pn532_i2c_destroy_SemWithIsr ==
    IF "isr" \in held THEN held \ Resources ELSE held \ (Resources \ {"irq_sem"})
pn532_i2c_destroy == held \ Resources

\* comm_module_init after transport_init has failed: session_deinit.
EndComm == session' = None /\ at' = "halted" /\ failed_at' = at

\* A failure destroys what has been acquired, the context last.
pn532_i2c_create ==
    /\ at = "i2c"
    /\ \/ /\ held' = held \cup ({I2cSteps[step]} \cap Resources)
          /\ step' = step + 1
          /\ at' = IF step = Len(I2cSteps) THEN "pn532_init" ELSE at
          /\ UNCHANGED <<destroyed, session, failed_at>>
       \/ /\ held' = pn532_i2c_destroy
          /\ destroyed' = destroyed + (IF "ctx" \in held THEN 1 ELSE 0)
          /\ EndComm
          /\ UNCHANGED step
    /\ UNCHANGED <<idRest, build, cfg_key, s_lock_pk, tasks>>

\* lli_init, steps 1 and 2: the handle of the driver.
pn532_init ==
    /\ at = "pn532_init"
    /\ \/ held' = held \cup {"handle"} /\ at' = "wakeup" /\ UNCHANGED <<destroyed, session, failed_at>>
       \/ held' = pn532_i2c_destroy /\ destroyed' = destroyed + 1 /\ EndComm
    /\ UNCHANGED <<idRest, build, step, cfg_key, s_lock_pk, tasks>>

\* lli_init, steps 3 to 6, and its label cleanup_deinit: pn532_deinit destroys the
\* context through the vtable and frees the handle, and pn532_i2c_destroy destroys
\* the context again.  What the second one does is undefined; here it does nothing
\* more, and a crash is PowerLoss.
lli_init ==
    /\ at \in {"wakeup", "firmware", "configure"}
    /\ \/ /\ at' = CASE at = "wakeup" -> "firmware" [] at = "firmware" -> "configure"
                     [] OTHER -> After("comm")
          /\ UNCHANGED <<held, destroyed, session, failed_at>>
       \/ /\ held' = pn532_i2c_destroy \ {"handle"}
          /\ destroyed' = destroyed + 2
          /\ EndComm
    /\ UNCHANGED <<idRest, build, step, cfg_key, s_lock_pk, tasks>>

-----------------------------------------------------------------------------
(***************************************************************************)
(* The Application, and the device                                         *)
(***************************************************************************)

\* The rest of AppModule_Init; boot_recovery is module Actuation.
AppModule_Init ==
    /\ at = "lock_pk"
    /\ s_lock_pk' = s_identity
    /\ at' = "start"
    /\ UNCHANGED <<idRest, build, held, step, destroyed, cfg_key, session, tasks, failed_at>>

AppModule_Start ==
    /\ at = "start"
    /\ Proceed \/ Fail
    /\ UNCHANGED <<idRest, build, bootVars>>

\* app_task, or comm_only_task, up to the start of the comm task, whose xTaskCreate
\* may fail unnoticed.
RegisterTask ==
    /\ at = "register"
    /\ tasks' = tasks \cup {"app"}
    /\ Proceed
    /\ UNCHANGED <<idRest, build, held, step, destroyed, cfg_key, session, s_lock_pk>>

comm_module_start ==
    /\ at = "comm_start" /\ "app" \in tasks
    /\ tasks' \in {tasks, tasks \cup {"comm"}}
    /\ Proceed
    /\ UNCHANGED <<idRest, build, held, step, destroyed, cfg_key, session, s_lock_pk>>

\* key_store_add for the phone that has scanned the lock's public key; how it comes
\* to that is module Provisioning.
Provision ==
    /\ at = "running" /\ build.mode = "FULL_APPLICATION" /\ "comm" \in tasks
    /\ Len(s_keys) < KEY_MAX
    /\ s_keys' = Append(s_keys, s_lock_pk)
    /\ nvs_keys' = [nvs_keys EXCEPT ![Len(s_keys) + 1] = s_lock_pk]
    /\ UNCHANGED <<at, caller, nvs_lock, nvs_booted, s_identity, slot, born, spoiled, build,
                   bootVars, failed_at>>

Boot ==
    /\ at = "off"
    /\ at' = Head(Order(build.mode))
    /\ UNCHANGED <<idRest, build, bootVars, failed_at>>

\* Everything in RAM and every driver is as new.
BlankRam ==
    /\ held' = {} /\ step' = 1 /\ destroyed' = 0
    /\ cfg_key' = None /\ session' = None /\ s_lock_pk' = None
    /\ tasks' = {}
    /\ failed_at' = "none"

PowerLoss ==
    /\ at # "off"
    /\ at' = "off"
    /\ s_keys' = <<>> /\ s_identity' = None /\ slot' = 1
    /\ spoiled' = (spoiled \/ CutShort)
    /\ BlankRam
    /\ UNCHANGED <<caller, nvs, born, build>>

Reflash ==
    /\ at = "off"
    /\ build' \in Builds
    /\ UNCHANGED <<identityVars, bootVars, failed_at>>

Damage == LoseIdentity /\ UNCHANGED <<build, bootVars, failed_at>>

Init ==
    /\ IdentityInit
    /\ build \in Builds
    /\ held = {} /\ step = 1 /\ destroyed = 0
    /\ cfg_key = None /\ session = None /\ s_lock_pk = None
    /\ tasks = {}
    /\ failed_at = "none"

app_main ==
    \/ key_store_init \/ intent_log_init \/ init_display \/ init_actuator \/ init_integrity
    \/ Harness
    \/ CallIdentity \/ IdentityStep \/ Snapshot \/ session_init
    \/ pn532_i2c_create \/ pn532_init \/ lli_init
    \/ AppModule_Init \/ AppModule_Start \/ RegisterTask \/ comm_module_start

Next == Boot \/ app_main \/ Provision \/ PowerLoss \/ Reflash \/ Damage

Spec == Init /\ [][Next]_vars

-----------------------------------------------------------------------------
(***************************************************************************)
(* Properties                                                              *)
(***************************************************************************)

Full == at = "running" /\ build.mode = "FULL_APPLICATION"

\* Every variable stays in its range; what one boot holds is gone with the power.
TypeOK ==
    /\ IdentityTypeOK
    /\ build \in Builds
    /\ held \subseteq Resources \cup {"handle"}
    /\ step \in 1 .. Len(I2cSteps) + 1
    /\ destroyed \in 0 .. 2
    /\ cfg_key \in Ids \cup {None} /\ s_lock_pk \in Ids \cup {None}
    /\ session = None \/ session \in Seq(Ids \cup {None})
    /\ tasks \subseteq {"app", "comm"}
    /\ at = "off" => s_identity = None /\ s_keys = <<>> /\ held = {} /\ tasks = {}

\* Only damage to the partition takes an identity away; no read that fails, no
\* corrupt blob and no power loss leads to another one: "generating a new keypair
\* would orphan the old one" (key_store.c:262).
IdentityStays == nvs_lock # None /\ at # "off" => nvs_lock' = nvs_lock

IdentityIsStable == [][IdentityStays]_vars

\* The public key that a phone is shown is the persisted one, so that it is still
\* the lock's after the next boot.
LockPkIsPersisted == Full => s_lock_pk \in Ids /\ s_lock_pk = nvs_lock

\* The session signs with the identity the lock shows, unless the first of the two
\* calls of key_store_identity_init failed and the second one did not: then it
\* signs with a key of zeros.
SignsAsItself == Full => session = <<s_lock_pk>> \/ failed_at = "config"

\* The key store holds only keys that were provisioned for this identity
\* (key_store.c:309-311), unless a first boot was cut short or hit an error, the
\* identity was lost or the storage harness has run on the device.
OwnKeysOnly == Full /\ ~spoiled => \A i \in DOMAIN s_keys : s_keys[i] = s_lock_pk

\* "On failure, no resources are leaked" (pn532_i2c.h:98): when the comm stack does
\* not come up, no driver, no handle and no copy of the secret key stays.
NothingLeaks == at = "halted" /\ failed_at \in {"i2c", "pn532_init", "wakeup", "firmware", "configure"}
                    => held = {} /\ session = None

\* The I2C context is destroyed at most once, "call directly only if you never handed
\* the context to pn532_init" (pn532_i2c.h:107), but for cleanup_deinit of lli_init.
DestroyedOnce == destroyed <= 1 \/ failed_at \in {"wakeup", "firmware", "configure"}

\* No lock runs on a backend that is a skeleton: it would lose its keys, show no QR
\* code, move no bolt or notice no tampering.
RunsOnlyImplemented ==
    Full => /\ build.storage = "NVS" /\ build.display = "CONSOLE"
            /\ build.actuator = "STUB" /\ build.integrity = "STUB"

\* What a start-up leaves behind, however far it got: the types, a persisted public
\* key, no leak, no second destruction and no skeleton at work.
StartupInv ==
    TypeOK /\ LockPkIsPersisted /\ NothingLeaks /\ DestroyedOnce /\ RunsOnlyImplemented

=============================================================================
