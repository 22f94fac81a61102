--------------------------- MODULE ActuationProofs ---------------------------
(***************************************************************************)
(* Proofs about the Application's loop: the persisted intent names the     *)
(* target of every motion, under every failure of the HAL and at every     *)
(* moment at which power may fail, and the button arms only after a        *)
(* deliberate hold, for any debounce and hold time.                        *)
(***************************************************************************)
EXTENDS Actuation, TLAPS

USE DEF appVars, aaiVars, intentVars, build, buttonVars, Targets, AaiStates,
        AAI_UNKNOWN, AAI_LOCKED, AAI_UNLOCKED, AAI_MOVING, AAI_JAMMED, AAI_FAULT,
        APP_LOCKED, APP_UNLOCKED, APP_MOVING, APP_JAMMED, APP_FAULT, APP_UNKNOWN,
        DOWN, UP, Unset

-----------------------------------------------------------------------------
(***************************************************************************)
(* The inductive invariant                                                 *)
(***************************************************************************)

\* The bolt stands still wherever the intent is written, and the motor is started
\* for the intent that is persisted.
IntentInv ==
    /\ pc \in {"clear", "abort", "intent", "drive"} => s_state # AAI_MOVING
    /\ pc = "drive" => nvs = arg

\* Every way on which the level can be committed as pressed starts with a press
\* that the ISR has seen, no later than the edge whose age is debounced.
PressInv ==
    /\ pressed => last_level = DOWN /\ pc # "off"
    /\ pin = DOWN /\ last_level = UP => firstDown # Unset
    /\ pc = "debounce" /\ (IF level = UP THEN pin = DOWN ELSE last_level = UP) =>
         firstDown # Unset
    /\ pc = "commit" =>
         IF level = UP THEN pin = DOWN => firstDown # Unset ELSE firstDown >= DEBOUNCE
    /\ pc \notin {"debounce", "commit"} => level = UP
    /\ edge_ts_us # Unset /\ firstDown # Unset => edge_ts_us <= firstDown
    /\ pressed => firstDown >= DEBOUNCE + press_start_us

ActuationIInv == ActuationInv /\ IntentInv /\ PressInv

\* A lock without power moves nothing and sees no press.
LEMMA InitIInv == Init => ActuationIInv
<1> SUFFICES ASSUME Init PROVE ActuationIInv
  OBVIOUS
<1>1. {s_actuation_pending, due, s_sim_jam, s_sim_tamper} \subseteq BOOLEAN
  BY DEF Init
<1>2. {inited, pressed} \subseteq BOOLEAN
  BY DEF Init, ButtonInit
<1>3. {pin, last_level, level} \subseteq {DOWN, UP}
  BY DEF Init, ButtonInit
<1>4. ButtonTypeOK
  BY ButtonAssumption, <1>2, <1>3 DEF Init, ButtonInit, ButtonTypeOK
<1>5. TypeOK
  BY <1>1, <1>4 DEF Init, TypeOK
<1>6. PressInv
  BY ButtonAssumption DEF Init, ButtonInit, PressInv
<1> QED
  BY <1>5, <1>6 DEF Init, ActuationIInv, ActuationInv, MotionIsRecoverable, IntentInv

-----------------------------------------------------------------------------
(***************************************************************************)
(* The motion and its intent                                               *)
(***************************************************************************)

\* Everything but the button.
LockTypeOK ==
    /\ pc \in {"off", "check", "tick", "clear", "abort", "button", "debounce",
              "take", "commit", "intent", "drive"}
    /\ arg \in Targets
    /\ s_actuation_target \in {APP_LOCKED, APP_UNLOCKED}
    /\ s_last_error \in {"NONE", "MOTOR_STALL", "MOTOR_FAULT", "INTERNAL", "TAMPER"}
    /\ s_state \in AaiStates
    /\ s_target \in AaiStates
    /\ cached \in Targets \cup {"NONE"}
    /\ nvs \in Targets \cup {"NONE"}
    /\ {s_actuation_pending, due, s_sim_jam, s_sim_tamper} \subseteq BOOLEAN

LockInv == LockTypeOK /\ MotionIsRecoverable /\ IntentInv

\* The type invariant is that of the bolt and that of the button.
LEMMA TypeParts == TypeOK <=> LockTypeOK /\ ButtonTypeOK
BY DEF TypeOK, LockTypeOK

\* What a status request reports is what the backend is left in.
LEMMA StatusKeeps ==
    ASSUME LockTypeOK, stub_get_status
    PROVE  /\ s_state' = Status
           /\ s_state' \in AaiStates
           /\ s_target' \in AaiStates
           /\ due' = FALSE
<1>1. CASE Arrived
  <2>1. s_state' = IF s_sim_jam THEN AAI_JAMMED ELSE s_target
    BY <1>1 DEF stub_get_status, Status
  <2>2. s_target' = AAI_UNKNOWN
    BY <1>1 DEF stub_get_status
  <2> QED
    BY <2>1, <2>2 DEF stub_get_status, LockTypeOK
<1>2. CASE ~Arrived
  BY <1>2 DEF stub_get_status, Status, LockTypeOK
<1> QED
  BY <1>1, <1>2

\* A status request starts nothing, and a motion that goes on keeps its target:
\* the target is never MOVING itself, for it is the target of an intent.
LEMMA MovesToTarget ==
    ASSUME LockTypeOK, MotionIsRecoverable, stub_get_status, s_state' = AAI_MOVING
    PROVE  s_state = AAI_MOVING /\ s_target' = s_target
BY DEF LockTypeOK, MotionIsRecoverable, AaiTarget, stub_get_status, Status, Arrived

\* The status request of a command that comes between two motions or in one.
LEMMA StatusKeepsLockInv ==
    ASSUME LockInv, stub_get_status, UNCHANGED <<intentVars, build>>,
           pc' \in {"check", "button", "clear", "intent"},
           pc' \in {"clear", "intent"} => Status # AAI_MOVING,
           arg' \in Targets,
           s_actuation_target' = s_actuation_target,
           s_last_error' \in {s_last_error, "MOTOR_STALL"},
           s_actuation_pending' \in BOOLEAN
    PROVE  LockInv'
<1>1. LockTypeOK /\ MotionIsRecoverable /\ IntentInv
  BY DEF LockInv
<1>2. s_state' = Status /\ s_state' \in AaiStates /\ s_target' \in AaiStates
      /\ due' = FALSE
  BY <1>1, StatusKeeps
<1>3. LockTypeOK'
  <2>1. {s_actuation_pending, due, s_sim_jam, s_sim_tamper}' \subseteq BOOLEAN
    BY <1>1, <1>2 DEF LockTypeOK
  <2> QED
    BY <1>1, <1>2, <2>1 DEF LockTypeOK
<1>4. MotionIsRecoverable'
  BY <1>1, MovesToTarget DEF MotionIsRecoverable, AaiTarget
<1>5. IntentInv'
  BY <1>2 DEF IntentInv
<1> QED
  BY <1>3, <1>4, <1>5 DEF LockInv

\* Where the intent is written, the bolt stands still.
LEMMA WriteKeepsLockInv ==
    ASSUME LockInv, s_state # AAI_MOVING, UNCHANGED <<aaiVars, build, arg>>,
           NEW t \in Targets \cup {"NONE"}, NEW result \in {"OK", "STORAGE"},
           intent_log_write(t, result),
           pc' \in {"check", "button", "drive"},
           pc' = "drive" => result = "OK" /\ t = arg,
           s_actuation_target' \in {APP_LOCKED, APP_UNLOCKED},
           s_last_error' \in {s_last_error, "INTERNAL"},
           s_actuation_pending' \in BOOLEAN
    PROVE  LockInv'
<1>1. LockTypeOK /\ MotionIsRecoverable /\ IntentInv
  BY DEF LockInv
<1>2. cached' \in Targets \cup {"NONE"} /\ nvs' \in Targets \cup {"NONE"}
  BY <1>1 DEF intent_log_write, LockTypeOK
<1>3. LockTypeOK'
  <2>1. {s_actuation_pending, due, s_sim_jam, s_sim_tamper}' \subseteq BOOLEAN
    BY <1>1 DEF LockTypeOK
  <2> QED
    BY <1>1, <1>2, <2>1 DEF LockTypeOK
<1>4. MotionIsRecoverable'
  BY DEF MotionIsRecoverable
<1>5. IntentInv'
  BY DEF IntentInv, intent_log_write
<1> QED
  BY <1>3, <1>4, <1>5 DEF LockInv

\* The steps of the loop that concern the bolt.
LEMMA LockStepKeeps ==
    ASSUME LockInv, LockStep, UNCHANGED build
    PROVE  LockInv'
<1>0. LockTypeOK /\ MotionIsRecoverable /\ IntentInv
  BY DEF LockInv
<1>1. CASE perform_integrity_checks
  <2>1. LockTypeOK'
    BY <1>0, <1>1 DEF perform_integrity_checks, LockTypeOK
  <2> QED
    BY <1>0, <1>1, <2>1 DEF perform_integrity_checks, LockInv, MotionIsRecoverable,
       IntentInv, AaiTarget
<1>2. CASE TickIdle
  <2>1. LockTypeOK'
    BY <1>0, <1>2 DEF TickIdle, LockTypeOK
  <2> QED
    BY <1>0, <1>2, <2>1 DEF TickIdle, LockInv, MotionIsRecoverable, IntentInv, AaiTarget
<1>3. CASE actuation_tick
  <2>1. TargetReached \/ Status \in {AAI_JAMMED, AAI_FAULT} => Status # AAI_MOVING
    BY <1>0 DEF LockTypeOK, TargetReached
  <2>2. s_actuation_pending' =
          ~(TargetReached \/ (~TargetReached /\ Status \in {AAI_JAMMED, AAI_FAULT}))
    BY <1>3, Zenon DEF actuation_tick
  <2>3. s_actuation_pending' \in BOOLEAN
    BY <2>2
  <2>4. /\ pc' \in {"button", "clear"}
        /\ pc' = "clear" => Status # AAI_MOVING
        /\ s_last_error' \in {s_last_error, "MOTOR_STALL"}
        /\ stub_get_status
        /\ UNCHANGED <<arg, s_actuation_target, intentVars>>
    BY <1>3, <2>1 DEF actuation_tick
  <2> QED
    BY <1>0, <2>3, <2>4, StatusKeepsLockInv DEF LockTypeOK
<1>4. CASE ClearIntent
  <2>1. PICK result \in {"OK", "STORAGE"} : intent_log_write("NONE", result)
    BY <1>4 DEF ClearIntent
  <2>2. s_state # AAI_MOVING
    BY <1>0, <1>4 DEF ClearIntent, IntentInv
  <2> QED
    BY <1>0, <1>4, <2>1, <2>2, WriteKeepsLockInv DEF ClearIntent, LockTypeOK
<1>5. CASE TakeTimeout
  <2>1. LockTypeOK'
    BY <1>0, <1>5 DEF TakeTimeout, LockTypeOK
  <2> QED
    BY <1>0, <1>5, <2>1 DEF TakeTimeout, LockInv, MotionIsRecoverable, IntentInv, AaiTarget
<1>6. CASE CommandOther
  BY <1>0, <1>6, StatusKeepsLockInv DEF CommandOther, LockTypeOK
<1>7. ASSUME NEW t \in Targets, CommandAccepted(t)
      PROVE  LockInv'
  <2>1. Status # AAI_MOVING
    BY <1>7 DEF CommandAccepted, lock_state_allows_actuation, aai_state_to_app_lock_state
  <2> QED
    BY <1>0, <1>7, <2>1, StatusKeepsLockInv DEF CommandAccepted, LockTypeOK
<1>8. CASE StartIntent
  <2>1. PICK result \in {"OK", "STORAGE"} :
          /\ intent_log_write(arg, result)
          /\ IF result = "OK"
             THEN /\ s_actuation_target' = AppTarget(arg)
                  /\ s_actuation_pending' = TRUE
                  /\ pc' = "drive"
                  /\ UNCHANGED s_last_error
             ELSE /\ s_last_error' = "INTERNAL"
                  /\ pc' = "check"
                  /\ UNCHANGED <<s_actuation_pending, s_actuation_target>>
    BY <1>8 DEF StartIntent
  <2>2. s_state # AAI_MOVING /\ arg \in Targets \cup {"NONE"}
    BY <1>0, <1>8 DEF StartIntent, IntentInv, LockTypeOK
  <2>3. /\ s_actuation_target' \in {APP_LOCKED, APP_UNLOCKED}
        /\ s_actuation_pending' \in BOOLEAN
        /\ s_last_error' \in {s_last_error, "INTERNAL"}
        /\ pc' \in {"check", "drive"}
        /\ pc' = "drive" => result = "OK"
    BY <1>0, <2>1 DEF AppTarget, LockTypeOK
  <2>4. UNCHANGED <<aaiVars, build, arg>>
    BY <1>8 DEF StartIntent
  <2> QED
    BY <2>1, <2>2, <2>3, <2>4, WriteKeepsLockInv
<1>9. CASE StartDrive
  <2>1. AaiTarget(arg) \in {AAI_LOCKED, AAI_UNLOCKED}
    BY DEF AaiTarget
  <2>2. UNCHANGED <<arg, s_actuation_target, intentVars, build>> /\ pc = "drive"
    BY <1>9 DEF StartDrive
  <2>3. s_state # AAI_MOVING /\ nvs = arg
    BY <1>0, <2>2 DEF IntentInv
  <2>4. CASE UNCHANGED aaiVars
    <3>1. s_actuation_pending' \in {s_actuation_pending, FALSE}
      BY <1>9 DEF StartDrive
    <3>2. {s_actuation_pending, due, s_sim_jam, s_sim_tamper}' \subseteq BOOLEAN
      BY <1>0, <2>2, <2>4, <3>1 DEF LockTypeOK
    <3>3. LockTypeOK'
      BY <1>0, <1>9, <2>2, <2>4, <3>2 DEF LockTypeOK, StartDrive
    <3>4. MotionIsRecoverable' /\ IntentInv'
      BY <1>9, <2>3, <2>4 DEF MotionIsRecoverable, IntentInv, StartDrive
    <3> QED
      BY <3>3, <3>4 DEF LockInv
  <2>5. CASE ~UNCHANGED aaiVars
    <3>1. /\ StartResult(AaiTarget(arg)) = "OK"
          /\ s_state' = AAI_MOVING
          /\ s_target' = AaiTarget(arg)
          /\ due' = FALSE
      BY <1>9, <2>5 DEF StartDrive, stub_start_motion
    <3>2. pc' = "check" /\ UNCHANGED <<s_actuation_pending, s_last_error>>
      BY <1>9, <3>1 DEF StartDrive
    <3>3. {s_actuation_pending, due, s_sim_jam, s_sim_tamper}' \subseteq BOOLEAN
      BY <1>0, <2>2, <3>1, <3>2 DEF LockTypeOK
    <3>4. LockTypeOK'
      BY <1>0, <2>1, <2>2, <3>1, <3>2, <3>3 DEF LockTypeOK
    <3>5. MotionIsRecoverable' /\ IntentInv'
      BY <1>0, <2>2, <2>3, <3>1, <3>2
         DEF MotionIsRecoverable, IntentInv, LockTypeOK, AaiTarget
    <3> QED
      BY <3>4, <3>5 DEF LockInv
  <2> QED
    BY <2>4, <2>5
<1> QED
  BY <1>1, <1>2, <1>3, <1>4, <1>5, <1>6, <1>7, <1>8, <1>9 DEF LockStep

\* The end of a motion, a power loss and a boot.
LEMMA PowerKeepsLock ==
    ASSUME LockInv, MotionDeadline \/ PowerLoss \/ Boot
    PROVE  LockInv'
<1>0. LockTypeOK /\ MotionIsRecoverable /\ IntentInv
  BY DEF LockInv
<1>1. CASE MotionDeadline
  <2>1. {s_actuation_pending, due, s_sim_jam, s_sim_tamper}' \subseteq BOOLEAN
    BY <1>0, <1>1 DEF MotionDeadline, LockTypeOK
  <2>2. LockTypeOK'
    BY <1>0, <1>1, <2>1 DEF MotionDeadline, LockTypeOK
  <2> QED
    BY <1>0, <1>1, <2>2 DEF MotionDeadline, LockInv, MotionIsRecoverable, IntentInv,
       AaiTarget
<1>2. CASE PowerLoss
  <2>1. {s_actuation_pending, due, s_sim_jam, s_sim_tamper}' \subseteq BOOLEAN
    BY <1>0, <1>2 DEF PowerLoss, LockTypeOK
  <2>2. LockTypeOK'
    BY <1>0, <1>2, <2>1 DEF PowerLoss, LockTypeOK
  <2> QED
    BY <1>2, <2>2 DEF PowerLoss, LockInv, MotionIsRecoverable, IntentInv
<1>3. CASE Boot
  <2>1. {s_actuation_pending, due, s_sim_jam, s_sim_tamper}' \subseteq BOOLEAN
    BY <1>0, <1>3 DEF Boot, LockTypeOK
  <2>2. LockTypeOK'
    BY <1>0, <1>3, <2>1 DEF Boot, LockTypeOK
  <2> QED
    BY <1>3, <2>2 DEF Boot, LockInv, MotionIsRecoverable, IntentInv
<1> QED
  BY <1>1, <1>2, <1>3

-----------------------------------------------------------------------------
(***************************************************************************)
(* The button                                                              *)
(***************************************************************************)

ButtonInv == ButtonTypeOK /\ PressInv

\* The loop reads the level, tests it and commits it in three steps; the ISR may run
\* in between.
LEMMA ButtonReadKeeps ==
    ASSUME ButtonInv, ButtonRead
    PROVE  ButtonInv'
<1>1. ButtonTypeOK'
  BY DEF ButtonInv, ButtonRead, ReadLevel, ButtonTypeOK
<1>2. PressInv'
  BY ButtonAssumption DEF ButtonInv, ButtonRead, ReadLevel, ButtonTypeOK, PressInv
<1> QED
  BY <1>1, <1>2 DEF ButtonInv

\* A press that will be committed was seen by the ISR a debounce ago at least, and a
\* hold that is complete leaves no press behind.
LEMMA ButtonEvaluateKeeps ==
    ASSUME ButtonInv, ButtonEvaluate
    PROVE  ButtonInv'
<1> USE ButtonAssumption DEF ButtonInv, PressInv
<1>0. pc = "debounce"
  BY DEF ButtonEvaluate
<1>1. CASE StillBouncing /\ pc' = "take"
  <2>1. ButtonTypeOK'
    BY <1>1 DEF StillBouncing, ButtonTypeOK
  <2> QED
    BY <1>0, <1>1, <2>1 DEF StillBouncing, ButtonTypeOK
<1>2. CASE LevelIsStable /\ pc' = "commit"
  <2>1. ButtonTypeOK'
    BY <1>2 DEF LevelIsStable, ButtonTypeOK
  <2>2. level = DOWN => firstDown # Unset /\ firstDown >= DEBOUNCE
    BY <1>0, <1>2 DEF LevelIsStable, Stable, ButtonTypeOK
  <2> QED
    BY <1>0, <1>2, <2>1, <2>2 DEF LevelIsStable, ButtonTypeOK
<1>3. CASE NotHeld /\ pc' = "take"
  <2>1. ButtonTypeOK'
    BY <1>3 DEF NotHeld, ButtonTypeOK
  <2> QED
    BY <1>0, <1>3, <2>1 DEF NotHeld, ButtonTypeOK
<1>4. CASE HoldComplete /\ pc' = "take"
  <2>0. {inited, pressed}' \subseteq BOOLEAN
    BY <1>4 DEF HoldComplete, ButtonTypeOK
  <2>1. ButtonTypeOK'
    BY <1>4, <2>0 DEF HoldComplete, ButtonTypeOK
  <2>2. last_level = DOWN
    BY <1>4 DEF HoldComplete, Held
  <2> QED
    BY <1>0, <1>4, <2>1, <2>2 DEF HoldComplete
<1> QED
  BY <1>1, <1>2, <1>3, <1>4 DEF ButtonEvaluate

\* The commit forgets an edge that came after the test, but not the press.
LEMMA ButtonCommitKeeps ==
    ASSUME ButtonInv, ButtonCommit
    PROVE  ButtonInv'
<1> USE ButtonAssumption DEF ButtonInv, PressInv
<1>0. pc = "commit" /\ pc' = "take" /\ CommitLevel
  BY DEF ButtonCommit
<1>1. pressed' = (level = DOWN) /\ inited' = inited
  BY <1>0, Zenon DEF CommitLevel
<1>2. {inited, pressed}' \subseteq BOOLEAN
  BY <1>1 DEF ButtonTypeOK
<1>3. press_start_us' \in 0 .. HOLD /\ {pin, last_level, level}' \subseteq {DOWN, UP}
  BY <1>0 DEF CommitLevel, ButtonTypeOK
<1>4. ButtonTypeOK'
  BY <1>0, <1>2, <1>3 DEF CommitLevel, ButtonTypeOK
<1>5. ASSUME level = DOWN
      PROVE  last_level' = DOWN /\ firstDown' >= DEBOUNCE + press_start_us'
  <2>1. last_level' = DOWN /\ press_start_us' = 0 /\ firstDown' = firstDown
    BY <1>0, <1>5 DEF CommitLevel
  <2> QED
    BY <1>0, <1>5, <2>1 DEF ButtonTypeOK
<1>6. pin' = DOWN /\ last_level' = UP => firstDown' # Unset
  BY <1>0 DEF CommitLevel
<1>7. level' = UP /\ edge_ts_us' = Unset
  BY <1>0 DEF CommitLevel
<1> QED
  BY <1>0, <1>1, <1>4, <1>5, <1>6, <1>7

\* Edges and time, between any two steps of the loop.
LEMMA EnvironmentKeeps ==
    ASSUME ButtonInv, ButtonEnvironment
    PROVE  ButtonInv'
<1> USE ButtonAssumption DEF ButtonInv, PressInv
<1>0. pc' = pc
  BY DEF ButtonEnvironment
<1>1. CASE prov_button_isr
  <2>1. ButtonTypeOK'
    BY <1>1 DEF prov_button_isr, ButtonTypeOK
  <2> QED
    BY <1>0, <1>1, <2>1 DEF prov_button_isr, ButtonTypeOK
<1>2. CASE ButtonTick
  <2>1. ButtonTypeOK'
    BY <1>2 DEF ButtonTick, Older, ButtonTypeOK
  <2> QED
    BY <1>0, <1>2, <2>1 DEF ButtonTick, Older, ButtonTypeOK
<1> QED
  BY <1>1, <1>2 DEF ButtonEnvironment

\* No other step of the loop is between the two looks at the button.
LEMMA LockStepButton ==
    ASSUME ButtonInv, LockStep, UNCHANGED buttonVars
    PROVE  ButtonInv'
<1>1. pc \notin {"debounce", "commit"} /\ pc' \notin {"debounce", "commit", "off"}
  BY DEF LockStep, perform_integrity_checks, TickIdle, actuation_tick, ClearIntent,
     TakeTimeout, CommandOther, CommandAccepted, StartIntent, StartDrive
<1> QED
  BY <1>1 DEF ButtonInv, ButtonTypeOK, PressInv

\* A power loss clears the button's state, and a boot takes its level as it is.
LEMMA PowerKeepsButton ==
    ASSUME ButtonInv, PowerLoss \/ Boot
    PROVE  ButtonInv'
<1>1. CASE PowerLoss
  <2>1. {inited, pressed}' \subseteq BOOLEAN
    BY <1>1 DEF PowerLoss, ButtonOff
  <2> QED
    BY <1>1, <2>1, ButtonAssumption DEF PowerLoss, ButtonOff, ButtonInv, ButtonTypeOK,
       PressInv
<1>2. CASE Boot
  <2>1. {inited, pressed}' \subseteq BOOLEAN
    BY <1>2 DEF Boot, ProvisionButton_Init, ButtonInv, ButtonTypeOK
  <2> QED
    BY <1>2, <2>1 DEF Boot, ProvisionButton_Init, ButtonInv, ButtonTypeOK, PressInv
<1> QED
  BY <1>1, <1>2

-----------------------------------------------------------------------------
(***************************************************************************)
(* Theorems                                                                *)
(***************************************************************************)

\* Every step keeps the inductive invariant.
LEMMA NextIInv == ActuationIInv /\ [Next]_vars => ActuationIInv'
<1> SUFFICES ASSUME ActuationIInv, [Next]_vars PROVE ActuationIInv'
  OBVIOUS
<1>0. LockInv /\ ButtonInv
  BY TypeParts DEF ActuationIInv, ActuationInv, LockInv, ButtonInv
<1>1. LockInv' /\ ButtonInv'
  <2>1. CASE AppTask
    <3>1. CASE LockStep /\ UNCHANGED buttonVars
      BY <1>0, <2>1, <3>1, LockStepKeeps, LockStepButton DEF AppTask
    <3>2. CASE ButtonRead
      <4>1. LockInv'
        BY <1>0, <2>1, <3>2 DEF AppTask, ButtonRead, LockInv, LockTypeOK,
           MotionIsRecoverable, IntentInv, AaiTarget
      <4> QED
        BY <1>0, <3>2, <4>1, ButtonReadKeeps
    <3>3. CASE ButtonEvaluate
      <4>1. LockInv'
        BY <1>0, <2>1, <3>3 DEF AppTask, ButtonEvaluate, LockInv, LockTypeOK,
           MotionIsRecoverable, IntentInv, AaiTarget
      <4> QED
        BY <1>0, <3>3, <4>1, ButtonEvaluateKeeps
    <3>4. CASE ButtonCommit
      <4>1. LockInv'
        BY <1>0, <2>1, <3>4 DEF AppTask, ButtonCommit, LockInv, LockTypeOK,
           MotionIsRecoverable, IntentInv, AaiTarget
      <4> QED
        BY <1>0, <3>4, <4>1, ButtonCommitKeeps
    <3> QED
      BY <2>1, <3>1, <3>2, <3>3, <3>4 DEF AppTask
  <2>2. CASE ButtonEnvironment
    <3>1. LockInv'
      BY <1>0, <2>2 DEF ButtonEnvironment, LockInv, LockTypeOK, MotionIsRecoverable,
         IntentInv, AaiTarget
    <3> QED
      BY <1>0, <2>2, <3>1, EnvironmentKeeps
  <2>3. CASE MotionDeadline
    <3>1. ButtonInv'
      BY <1>0, <2>3 DEF MotionDeadline, ButtonInv, ButtonTypeOK, PressInv
    <3> QED
      BY <1>0, <2>3, <3>1, PowerKeepsLock
  <2>4. CASE PowerLoss \/ Boot
    BY <1>0, <2>4, PowerKeepsLock, PowerKeepsButton
  <2>5. CASE UNCHANGED vars
    <3>1. LockInv'
      BY <1>0, <2>5 DEF vars, LockInv, LockTypeOK, MotionIsRecoverable, IntentInv,
         AaiTarget
    <3>2. ButtonInv'
      BY <1>0, <2>5 DEF vars, ButtonInv, ButtonTypeOK, PressInv
    <3> QED
      BY <3>1, <3>2
  <2> QED
    BY <2>1, <2>2, <2>3, <2>4, <2>5 DEF Next
<1>2. TypeOK'
  BY <1>1 DEF LockInv, ButtonInv, LockTypeOK, TypeOK
<1> QED
  BY <1>1, <1>2 DEF ActuationIInv, ActuationInv, LockInv, ButtonInv

\* A hold is complete only for a press that was seen a debounce and a hold ago.
LEMMA HoldIsDeliberate == ActuationIInv /\ [Next]_vars => [DeliberateHold]_vars
<1> SUFFICES ASSUME ActuationIInv, HoldComplete PROVE DeliberateHold
  BY DEF DeliberateHold
<1>1. ButtonTypeOK /\ PressInv
  BY DEF ActuationIInv, ActuationInv, TypeOK
<1>2. level = DOWN
  BY <1>1 DEF HoldComplete, Held, PressInv
<1>3. firstDown = DEBOUNCE + HOLD
  BY <1>1, ButtonAssumption DEF HoldComplete, Held, PressInv, ButtonTypeOK
<1> QED
  BY <1>2, <1>3 DEF DeliberateHold

\* The invariant of the run, with its inductive strengthening: whenever power may
\* fail in mid-motion, the intent log holds the target of that motion, although
\* its writes may fail and a status request settles motions at any time
\* (start_actuation, actuation_tick, intent_log_write, stub_get_status).
THEOREM ActuationCorrect == Spec => []ActuationInv
<1>1. ActuationIInv => ActuationInv
  BY DEF ActuationIInv
<1> QED
  BY InitIInv, NextIInv, <1>1, PTL DEF Spec

\* The provisioning button arms only after a deliberate hold, for every debounce
\* and hold time and every order of edges, looks and ticks
\* (ProvisionButton_OnTaskNotified, prov_button_isr).
THEOREM HoldsAreDeliberate == Spec => ArmingIsDeliberate
BY InitIInv, NextIInv, HoldIsDeliberate, PTL DEF Spec, ArmingIsDeliberate

=============================================================================
