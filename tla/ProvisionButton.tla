--------------------------- MODULE ProvisionButton ---------------------------
(***************************************************************************)
(* The provisioning button (app_module/src/provision_button.c): an ISR     *)
(* that stamps every edge, and ProvisionButton_OnTaskNotified, which the   *)
(* Application task calls once per loop to debounce the level and to time  *)
(* the hold.  The ISR may run between any two of its accesses.             *)
(*                                                                         *)
(* Time passes in ticks.  A timestamp is kept as its age, which stops      *)
(* growing where the code can no longer tell the difference.               *)
(***************************************************************************)
EXTENDS Integers

CONSTANTS
    DEBOUNCE,  \* CONFIG_APP_PROVISION_BUTTON_DEBOUNCE_MS, in ticks
    HOLD       \* CONFIG_APP_PROVISION_BUTTON_HOLD_MS, in ticks

ASSUME ButtonAssumption == DEBOUNCE \in Nat \ {0} /\ HOLD \in Nat \ {0}

VARIABLES
    pin,            \* environment: level of the GPIO
    inited,         \* s_ctx.inited
    edge_ts_us,     \* s_ctx.edge_ts_us, as its age, or Unset
    pressed,        \* s_ctx.pressed
    press_start_us, \* s_ctx.press_start_us, as its age (0, the value it has
                    \* while the button is not pressed, is long ago)
    last_level,     \* s_ctx.last_level
    level,          \* local of OnTaskNotified (UP outside of it)
    firstDown       \* history: age of the first press since the last hold that
                    \* was complete, or Unset

buttonVars == <<pin, inited, edge_ts_us, pressed, press_start_us, last_level,
                level, firstDown>>

DOWN  == 0    \* PROV_BTN_PRESSED_LEVEL
UP    == 1    \* PROV_BTN_RELEASED_LEVEL
Unset == -1   \* a timestamp of 0

Older(age, limit) == IF age = Unset \/ age = limit THEN age ELSE age + 1

ButtonInit ==
    /\ pin = UP
    /\ inited = FALSE
    /\ edge_ts_us = Unset
    /\ pressed = FALSE
    /\ press_start_us = HOLD
    /\ last_level = UP
    /\ level = UP
    /\ firstDown = Unset

\* Without an interrupt handler, or without the GPIO, the button stays unused.
\* A button that is down while the lock boots is the baseline.
ProvisionButton_Init ==
    /\ pin' \in {DOWN, UP}
    /\ inited' \in BOOLEAN
    /\ last_level' = pin'
    /\ UNCHANGED <<edge_ts_us, pressed, press_start_us, level, firstDown>>

\* The power fails.
ButtonOff ==
    /\ pin' = UP
    /\ inited' = FALSE
    /\ edge_ts_us' = Unset
    /\ pressed' = FALSE
    /\ press_start_us' = HOLD
    /\ last_level' = UP
    /\ level' = UP
    /\ firstDown' = Unset

\* An edge of the pin, and prov_button_isr.  (The notification only shortens the
\* Application's bounded wait.  An unused button is not looked at.)
prov_button_isr ==
    /\ inited
    /\ pin' = DOWN + UP - pin
    /\ edge_ts_us' = 0
    /\ firstDown' = IF pin = UP /\ firstDown = Unset THEN 0 ELSE firstDown
    /\ UNCHANGED <<inited, pressed, press_start_us, last_level, level>>

ButtonTick ==
    /\ edge_ts_us' = Older(edge_ts_us, DEBOUNCE)
    /\ press_start_us' = Older(press_start_us, HOLD)
    /\ firstDown' = Older(firstDown, DEBOUNCE + HOLD)
    /\ UNCHANGED <<pin, inited, pressed, last_level, level>>

-----------------------------------------------------------------------------
(***************************************************************************)
(* ProvisionButton_OnTaskNotified: the look at the pin, the test, and the  *)
(* commit; now_us is taken for the time at which it is used.               *)
(***************************************************************************)

ReadLevel ==
    /\ level' = pin
    /\ UNCHANGED <<pin, inited, edge_ts_us, pressed, press_start_us, last_level,
                   firstDown>>

Stable == edge_ts_us = DEBOUNCE

\* A debounce that starts again at every look.
StillBouncing_Restarts ==
    /\ inited /\ level # last_level /\ ~Stable
    /\ edge_ts_us' = 0
    /\ level' = UP
    /\ UNCHANGED <<pin, inited, pressed, press_start_us, last_level, firstDown>>

\* The level differs from the confirmed one, but not for long enough.
StillBouncing ==
    /\ inited /\ level # last_level /\ ~Stable
    /\ edge_ts_us' = IF edge_ts_us = Unset THEN 0 ELSE edge_ts_us
    /\ level' = UP
    /\ UNCHANGED <<pin, inited, pressed, press_start_us, last_level, firstDown>>

\* The level differs, and has for long enough.
LevelIsStable ==
    /\ inited /\ level # last_level /\ Stable
    /\ UNCHANGED buttonVars

\* A commit that leaves the time of the last press in place.
CommitLevel_StaleStart ==
    /\ last_level' = level
    /\ edge_ts_us' = Unset
    /\ pressed' = (level = DOWN)
    /\ level' = UP
    /\ UNCHANGED <<press_start_us, pin, inited, firstDown>>

\* The change is committed; an edge that came after the test is forgotten.
CommitLevel ==
    /\ last_level' = level
    /\ edge_ts_us' = Unset
    /\ pressed' = (level = DOWN)
    /\ press_start_us' = IF level = DOWN THEN 0 ELSE HOLD
    /\ level' = UP
    /\ UNCHANGED <<pin, inited, firstDown>>

Held == pressed /\ press_start_us = HOLD

NotHeld ==
    /\ ~inited \/ (level = last_level /\ ~Held)
    /\ level' = UP
    /\ UNCHANGED <<pin, inited, edge_ts_us, pressed, press_start_us, last_level,
                   firstDown>>

\* OnTaskNotified returns true.
HoldComplete ==
    /\ inited /\ level = last_level /\ Held
    /\ pressed' = FALSE
    /\ press_start_us' = HOLD
    /\ firstDown' = Unset
    /\ level' = UP
    /\ UNCHANGED <<pin, inited, edge_ts_us, last_level>>

ButtonTypeOK ==
    /\ {pin, last_level, level} \subseteq {DOWN, UP}
    /\ {inited, pressed} \subseteq BOOLEAN
    /\ edge_ts_us \in Unset .. DEBOUNCE
    /\ press_start_us \in 0 .. HOLD
    /\ firstDown \in Unset .. DEBOUNCE + HOLD

=============================================================================
