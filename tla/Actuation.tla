----------------------------- MODULE Actuation ------------------------------
(***************************************************************************)
(* The loop of the Application task (app_module.c, app_task): integrity    *)
(* check, actuation tick, provision button, and at most one command; and   *)
(* how an acknowledged UNLOCK or LOCK moves the bolt: start_actuation, the *)
(* gate of app_dispatch.c, the intent log (storage/src/intent_log.c) and   *)
(* the default actuator backend (actuator/src/aai_backend_stub.c).  HAL    *)
(* writes may fail and power may be lost between any two steps.            *)
(*                                                                         *)
(* The firmware has two numberings of the bolt's state, AAI_STATE_* and    *)
(* APP_LOCK_STATE_*.  Both are kept as numbers, for the code compares one  *)
(* with the other.                                                         *)
(***************************************************************************)
EXTENDS ProvisionButton

CONSTANT HalFaults  \* as in module KeyStore: "set", "commit"

ASSUME ActuationAssumption == HalFaults \subseteq {"set", "commit"}

VARIABLES
    pc,                  \* place of the Application task, or "off"
    arg,                 \* target of the running start_actuation
    s_actuation_pending, \* app_module.c
    s_actuation_target,  \* app_module.c, an APP_LOCK_STATE
    s_last_error,        \* app_module.c
    s_state,             \* aai_backend_stub.c, an AAI_STATE
    s_target,            \* aai_backend_stub.c, an AAI_STATE
    due,                 \* has s_move_deadline_us passed?
    cached,              \* intent_log.c: s_target
    nvs,                 \* persisted intent
    s_sim_jam,           \* CONFIG_ACTUATOR_SIM_JAM, fixed when the firmware is
                         \* built: does every motion end in a jam?
    s_sim_tamper         \* CONFIG_INTEGRITY_SIM_TAMPER, fixed likewise

appVars    == <<s_actuation_pending, s_actuation_target, s_last_error>>
aaiVars    == <<s_state, s_target, due>>
intentVars == <<cached, nvs>>
build      == <<s_sim_jam, s_sim_tamper>>
vars       == <<pc, arg, appVars, aaiVars, intentVars, build, buttonVars>>

AAI_UNKNOWN == 0
AAI_LOCKED == 1
AAI_UNLOCKED == 2
AAI_MOVING == 3
AAI_JAMMED == 4
AAI_FAULT == 5

APP_LOCKED == 0
APP_UNLOCKED == 1
APP_MOVING == 2
APP_JAMMED == 3
APP_FAULT == 4
APP_UNKNOWN == 5

Targets == {"LOCKED", "UNLOCKED"}

\* The same target in the two numberings.
AaiTarget(t) == IF t = "UNLOCKED" THEN AAI_UNLOCKED ELSE AAI_LOCKED
AppTarget(t) == IF t = "UNLOCKED" THEN APP_UNLOCKED ELSE APP_LOCKED

aai_state_to_app_lock_state(s) ==
    CASE s = AAI_LOCKED   -> APP_LOCKED
      [] s = AAI_UNLOCKED -> APP_UNLOCKED
      [] s = AAI_MOVING   -> APP_MOVING
      [] s = AAI_JAMMED   -> APP_JAMMED
      [] s = AAI_FAULT    -> APP_FAULT
      [] OTHER            -> APP_UNKNOWN

-----------------------------------------------------------------------------
(***************************************************************************)
(* aai_backend_stub.c                                                      *)
(***************************************************************************)

Arrived == s_state = AAI_MOVING /\ due

\* What stub_get_status returns; it also settles a motion that is over.
Status == IF Arrived THEN (IF s_sim_jam THEN AAI_JAMMED ELSE s_target) ELSE s_state

stub_get_status ==
    /\ s_state' = Status
    /\ s_target' = IF Arrived THEN AAI_UNKNOWN ELSE s_target
    /\ due' = FALSE

StartResult(t) ==
    CASE s_state = AAI_MOVING                -> "BUSY"
      [] s_state \in {AAI_JAMMED, AAI_FAULT} -> "INVALID_STATE"
      [] OTHER                               -> "OK"

stub_start_motion(t) ==
    IF StartResult(t) = "OK" /\ s_state # t
    THEN /\ s_state' = AAI_MOVING
         /\ s_target' = t
         /\ due' = FALSE
    ELSE UNCHANGED aaiVars

\* CONFIG_ACTUATOR_MOVE_TIMEOUT_MS pass.
MotionDeadline ==
    /\ s_state = AAI_MOVING /\ ~due
    /\ due' = TRUE
    /\ UNCHANGED <<pc, arg, appVars, s_state, s_target, intentVars, build,
                   buttonVars>>

-----------------------------------------------------------------------------
(***************************************************************************)
(* intent_log_write: HAL first; a failed write leaves the cache alone.     *)
(***************************************************************************)

intent_log_write(t, result) ==
    \/ result = "OK" /\ nvs' = t /\ cached' = t
    \/ result = "STORAGE" /\ "set" \in HalFaults /\ UNCHANGED intentVars
    \/ result = "STORAGE" /\ "commit" \in HalFaults /\ nvs' = t /\ UNCHANGED cached

-----------------------------------------------------------------------------
(***************************************************************************)
(* One iteration of app_task: perform_integrity_checks, actuation_tick,    *)
(* provisioning_button_tick, then at most one command.                     *)
(***************************************************************************)

\* The stub either reports tamper at every check or never does.
perform_integrity_checks ==
    /\ pc = "check"
    /\ s_last_error' = IF s_sim_tamper THEN "TAMPER" ELSE s_last_error
    /\ pc' = "tick"
    /\ UNCHANGED <<arg, s_actuation_pending, s_actuation_target, aaiVars, intentVars>>

\* The AAI_STATE is compared with the APP_LOCK_STATE as it is.
TargetReached == Status = s_actuation_target

\* A tick that takes a jam for a motion that goes on.
actuation_tick_IgnoresJam ==
    /\ pc = "tick" /\ s_actuation_pending
    /\ stub_get_status
    /\ IF TargetReached THEN s_actuation_pending' = FALSE /\ pc' = "clear"
                        ELSE pc' = "button" /\ UNCHANGED s_actuation_pending
    /\ UNCHANGED <<arg, s_actuation_target, s_last_error, intentVars>>

\* With an actuation pending: complete, faulty, or to be polled again.  AAI_Stop
\* leaves a jammed backend as it is, and AAI_Close, whose result nobody looks
\* at, is refused by it.
actuation_tick ==
    /\ pc = "tick" /\ s_actuation_pending
    /\ stub_get_status
    /\ LET faulty == ~TargetReached /\ Status \in {AAI_JAMMED, AAI_FAULT}
           over   == TargetReached \/ faulty
       IN  /\ s_last_error' = IF faulty THEN "MOTOR_STALL" ELSE s_last_error
           /\ s_actuation_pending' = ~over
           /\ pc' = IF over THEN "clear" ELSE "button"
    /\ UNCHANGED <<arg, s_actuation_target, intentVars>>

TickIdle ==
    /\ pc = "tick" /\ ~s_actuation_pending
    /\ pc' = "button"
    /\ UNCHANGED <<arg, appVars, aaiVars, intentVars>>

\* intent_log_write(INTENT_TARGET_NONE) at the end of a motion, of a start that
\* failed or of boot_recovery; nobody looks at the result.
ClearIntent ==
    /\ pc \in {"clear", "abort"}
    /\ \E result \in {"OK", "STORAGE"} : intent_log_write("NONE", result)
    /\ pc' = IF pc = "clear" THEN "button" ELSE "check"
    /\ UNCHANGED <<arg, appVars, aaiVars>>

\* The notification wait ends without a command.
TakeTimeout ==
    /\ pc = "take"
    /\ pc' = "check"
    /\ UNCHANGED <<arg, appVars, aaiVars, intentVars>>

\* A gate that forgets MOVING.
lock_state_allows_actuation_Moving(s) == s \in {APP_LOCKED, APP_UNLOCKED, APP_MOVING}

lock_state_allows_actuation(s) == s \in {APP_LOCKED, APP_UNLOCKED}

\* Every command asks for the bolt's state.  One that is refused, or that is no
\* UNLOCK or LOCK, has no other effect here.
CommandOther ==
    /\ pc = "take"
    /\ stub_get_status
    /\ pc' = "check"
    /\ UNCHANGED <<arg, appVars, intentVars>>

\* UNLOCK or LOCK in an authorized session: the reply is OK, and then the
\* actuation starts.
CommandAccepted(t) ==
    /\ pc = "take"
    /\ lock_state_allows_actuation(aai_state_to_app_lock_state(Status))
    /\ stub_get_status
    /\ arg' = t
    /\ pc' = "intent"
    /\ UNCHANGED <<appVars, intentVars>>

\* A start that forgets to set s_actuation_pending.
StartIntent_NotPending ==
    /\ pc = "intent"
    /\ \E result \in {"OK", "STORAGE"} :
          /\ intent_log_write(arg, result)
          /\ IF result = "OK"
             THEN /\ s_actuation_target' = AppTarget(arg)
                  /\ pc' = "drive"
                  /\ UNCHANGED <<s_actuation_pending, s_last_error>>
             ELSE /\ s_last_error' = "INTERNAL"
                  /\ pc' = "check"
                  /\ UNCHANGED <<s_actuation_pending, s_actuation_target>>
    /\ UNCHANGED <<arg, aaiVars>>

\* start_actuation: no motion without a persisted intent ...
StartIntent ==
    /\ pc = "intent"
    /\ \E result \in {"OK", "STORAGE"} :
          /\ intent_log_write(arg, result)
          /\ IF result = "OK"
             THEN /\ s_actuation_target' = AppTarget(arg)
                  /\ s_actuation_pending' = TRUE
                  /\ pc' = "drive"
                  /\ UNCHANGED s_last_error
             ELSE /\ s_last_error' = "INTERNAL"
                  /\ pc' = "check"
                  /\ UNCHANGED <<s_actuation_pending, s_actuation_target>>
    /\ UNCHANGED <<arg, aaiVars>>

\* ... then AAI_Open or AAI_Close.
StartDrive ==
    /\ pc = "drive"
    /\ stub_start_motion(AaiTarget(arg))
    /\ IF StartResult(AaiTarget(arg)) = "OK"
       THEN pc' = "check" /\ UNCHANGED <<s_actuation_pending, s_last_error>>
       ELSE /\ s_last_error' = "MOTOR_FAULT"
            /\ s_actuation_pending' = FALSE
            /\ pc' = "abort"
    /\ UNCHANGED <<arg, s_actuation_target, intentVars>>

\* provisioning_button_tick; what a hold that is complete does is in module
\* Provisioning.
ButtonRead ==
    /\ pc = "button"
    /\ ReadLevel
    /\ pc' = "debounce"
    /\ UNCHANGED <<arg, appVars, aaiVars, intentVars>>

ButtonEvaluate ==
    /\ pc = "debounce"
    /\ \/ (StillBouncing \/ NotHeld \/ HoldComplete) /\ pc' = "take"
       \/ LevelIsStable /\ pc' = "commit"
    /\ UNCHANGED <<arg, appVars, aaiVars, intentVars>>

\* The ISR may run between the test and the clear of its time stamp.
ButtonCommit ==
    /\ pc = "commit"
    /\ CommitLevel
    /\ pc' = "take"
    /\ UNCHANGED <<arg, appVars, aaiVars, intentVars>>

LockStep ==
    \/ perform_integrity_checks
    \/ TickIdle
    \/ actuation_tick
    \/ ClearIntent
    \/ TakeTimeout
    \/ CommandOther
    \/ \E t \in Targets : CommandAccepted(t)
    \/ StartIntent
    \/ StartDrive

AppTask ==
    /\ \/ LockStep /\ UNCHANGED buttonVars
       \/ ButtonRead
       \/ ButtonEvaluate
       \/ ButtonCommit
    /\ UNCHANGED build

-----------------------------------------------------------------------------
(***************************************************************************)
(* Power and boot                                                          *)
(***************************************************************************)

PowerLoss ==
    /\ pc # "off"
    /\ pc' = "off"
    /\ s_actuation_pending' = FALSE
    /\ s_actuation_target' = APP_LOCKED
    /\ s_last_error' = "NONE"
    /\ s_state' = AAI_UNKNOWN
    /\ s_target' = AAI_UNKNOWN
    /\ due' = FALSE
    /\ cached' = "NONE"
    /\ ButtonOff
    /\ UNCHANGED <<arg, nvs, build>>

\* intent_log_init, stub_init, boot_recovery and the start of app_task.  stub_init
\* takes the bolt for locked, so boot_recovery finds nothing to resolve and clears
\* the intent.
Boot ==
    /\ pc = "off"
    /\ cached' = nvs
    /\ s_state' = AAI_LOCKED
    /\ pc' = "abort"
    /\ ProvisionButton_Init
    /\ UNCHANGED <<arg, appVars, s_target, due, nvs, build>>

Init ==
    /\ pc = "off"
    /\ arg = "LOCKED"
    /\ s_actuation_pending = FALSE
    /\ s_actuation_target = APP_LOCKED
    /\ s_last_error = "NONE"
    /\ s_state = AAI_UNKNOWN
    /\ s_target = AAI_UNKNOWN
    /\ due = FALSE
    /\ cached = "NONE"
    /\ nvs = "NONE"
    /\ s_sim_jam \in BOOLEAN
    /\ s_sim_tamper \in BOOLEAN
    /\ ButtonInit

\* The button's time and edges go on between any two steps of the task.
ButtonEnvironment ==
    /\ prov_button_isr \/ ButtonTick
    /\ UNCHANGED <<pc, arg, appVars, aaiVars, intentVars, build>>

Next == AppTask \/ ButtonEnvironment \/ MotionDeadline \/ PowerLoss \/ Boot

Spec == Init /\ [][Next]_vars

\* The Application task's loop has a bounded wait, and time passes.
FairSpec ==
    /\ Spec
    /\ WF_vars(AppTask)
    /\ WF_vars(MotionDeadline)
    /\ WF_vars(ButtonTick /\ UNCHANGED <<pc, arg, appVars, aaiVars, intentVars, build>>)

-----------------------------------------------------------------------------
(***************************************************************************)
(* Properties                                                              *)
(***************************************************************************)

AaiStates == AAI_UNKNOWN .. AAI_FAULT

\* Every variable stays in its range.
TypeOK ==
    /\ pc \in {"off", "check", "tick", "clear", "abort", "button", "debounce",
              "commit", "take", "intent", "drive"}
    /\ arg \in Targets
    /\ s_actuation_target \in {APP_LOCKED, APP_UNLOCKED}
    /\ s_last_error \in {"NONE", "MOTOR_STALL", "MOTOR_FAULT", "INTERNAL", "TAMPER"}
    /\ s_state \in AaiStates
    /\ s_target \in AaiStates
    /\ cached \in Targets \cup {"NONE"}
    /\ nvs \in Targets \cup {"NONE"}
    /\ {s_actuation_pending, due, s_sim_jam, s_sim_tamper} \subseteq BOOLEAN
    /\ ButtonTypeOK

\* Power may fail at any moment of a motion: the persisted intent is then the
\* target the bolt was moving to, whatever HAL errors, earlier motions and
\* commands came before ("write the intent BEFORE driving the motor").
MotionIsRecoverable ==
    s_state = AAI_MOVING => nvs \in Targets /\ AaiTarget(nvs) = s_target

\* That, and the types.
ActuationInv == TypeOK /\ MotionIsRecoverable

\* A command that was answered OK before it was carried out is carried out: the
\* bolt gets there, or the next status reply carries an error (or power fails).
AcknowledgedIsDone ==
    \A t \in Targets :
        (pc = "intent" /\ arg = t) ~>
            \/ s_state = AaiTarget(t)
            \/ s_last_error # "NONE"
            \/ pc = "off"

\* "the lock must report the truth on the next connection": a jam ends up in
\* s_last_error, which GET_STATUS returns.  There is one s_last_error: in a lock
\* that is tampered with, the next check writes TAMPER over it.
JamIsReported ==
    s_state = AAI_JAMMED ~>
        \/ s_last_error = IF s_sim_tamper THEN "TAMPER" ELSE "MOTOR_STALL"
        \/ pc = "off"

\* "A deliberate hold prevents accidental taps from arming it" (Kconfig): a hold
\* is complete only when the level was read as down, and when since the last
\* complete hold the button has been pressed anew, a debounce and a hold ago.
DeliberateHold == HoldComplete => level = DOWN /\ firstDown = DEBOUNCE + HOLD

ArmingIsDeliberate == [][DeliberateHold]_vars

\* Once its release has been seen, a button that is pressed and kept down
\* completes a hold: no edge that the ISR and the debouncing lose between them
\* makes the lock deaf.
HoldIsNoticed ==
    inited /\ last_level = UP /\ pin = DOWN ~> pin = UP \/ firstDown = Unset

\* "MOVING or UNKNOWN -- keep polling" (actuation_tick): once the bolt has
\* arrived, the actuation is over, unless another command starts a new one.
CompletionIsNoticed ==
    (s_actuation_pending /\ s_state \in {AAI_LOCKED, AAI_UNLOCKED}) ~>
        (~s_actuation_pending \/ pc = "intent")

=============================================================================
