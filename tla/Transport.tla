----------------------------- MODULE Transport ------------------------------
(***************************************************************************)
(* The comm task: comm_task_fn (comm_module.c) running the state machine   *)
(* of components/transport/src/transport.c over the link of                *)
(* components/lli/src/lli.c, with the session layer called back for every  *)
(* accepted C-APDU and for every erase.  Phones come into and leave the    *)
(* field at any time and send any C-APDU; every call into the link layer   *)
(* may fail in each way lli.c can report.                                  *)
(***************************************************************************)
EXTENDS Session

CONSTANT HandshakeTicks  \* handshake_timeout_ms, in ticks of the model

ASSUME TransportAssumption == HandshakeTicks \in Nat \ {0}

VARIABLES
    state,               \* transport_t.state
    session_just_ended,  \* transport_t.session_just_ended
    pc,                  \* place of the comm task, see Places
    left,                \* ticks until run_handshake's deadline
    fatal_retries,       \* local of comm_task_fn
    g_stop_requested,    \* comm_module.c
    phone,               \* environment: is a phone in the field?
    keyed                \* history: did an M3 succeed since lli_activate?

transportVars == <<state, session_just_ended, pc, left, fatal_retries,
                   g_stop_requested, phone, keyed>>
vars == <<sessionVars, transportVars>>

States == {"IDLE", "ACTIVATED", "HANDSHAKE", "SECURE_SESSION", "RELEASED"}

\* top: comm_task_fn's loop test;  head: the state handler's first line or loop
\* test;  recv: in lli_receive_apdu;  send: in send_rapdu, the reply computed;
\* drop: on_apdu has failed, the erase is due;  gone: the task is deleted
Places == {"top", "head", "recv", "send", "drop", "gone"}

COMM_FATAL_RETRY_LIMIT == 3

\* What lli_activate returns besides LLI_OK.
ActivateErrors == {"TIMEOUT", "INTERNAL", "BUS_FATAL"}

\* What lli_receive_apdu returns besides LLI_OK and LLI_ERR_BUS_FATAL.
LinkErrors == {"TIMEOUT", "LINK_RELEASED", "FRAME_INTEGRITY", "INTERNAL"}

\* What a received C-APDU is after parse_capdu and the tests on INS and Lc.
Commands == {"MALFORMED", "M1", "M3", "PAYLOAD", "PAYLOAD_TOO_LARGE", "ABORT",
             "OTHER"}

Expected == [ACTIVATED |-> "M1", HANDSHAKE |-> "M3", SECURE_SESSION |-> "PAYLOAD"]

Connected == {"ACTIVATED", "HANDSHAKE", "SECURE_SESSION"}

-----------------------------------------------------------------------------
(***************************************************************************)
(* comm_task_fn                                                            *)
(***************************************************************************)

\* A run that goes on in the state the last one was left in.
RunSession_Resume ==
    /\ pc = "top"
    /\ ~g_stop_requested
    /\ pc' = "head"
    /\ keyed' = FALSE
    /\ UNCHANGED <<sessionVars, state, session_just_ended, left, fatal_retries,
                   g_stop_requested, phone>>

RunSession ==
    /\ pc = "top"
    /\ ~g_stop_requested
    /\ pc' = "head"
    /\ state' = "IDLE"
    /\ keyed' = FALSE
    /\ UNCHANGED <<sessionVars, session_just_ended, left, fatal_retries,
                   g_stop_requested, phone>>

CommTaskStops ==
    /\ pc = "top"
    /\ g_stop_requested
    /\ pc' = "gone"
    /\ UNCHANGED <<sessionVars, state, session_just_ended, left, fatal_retries,
                   g_stop_requested, phone, keyed>>

\* transport_run_session returns err and comm_task_fn counts it.
Return(err) ==
    IF err = "BUS_FATAL"
    THEN /\ fatal_retries' = fatal_retries + 1
         /\ pc' = IF fatal_retries + 1 >= COMM_FATAL_RETRY_LIMIT THEN "gone"
                                                                 ELSE "top"
    ELSE /\ fatal_retries' = 0
         /\ pc' = "top"

-----------------------------------------------------------------------------
(***************************************************************************)
(* The state handlers                                                      *)
(***************************************************************************)

\* invoke_erase, then RELEASED.
Release ==
    /\ session_on_erase
    /\ state' = "RELEASED"
    /\ pc' = "head"

run_idle ==
    /\ pc = "head" /\ state = "IDLE"
    /\ session_just_ended' = FALSE
    /\ \/ \* lli_activate found a reader
          /\ phone = "near"
          /\ state' = "ACTIVATED" /\ pc' = "recv"
          /\ UNCHANGED fatal_retries
       \/ \E err \in ActivateErrors : Return(err) /\ UNCHANGED state
    /\ UNCHANGED <<sessionVars, left, g_stop_requested, phone, keyed>>

\* A deadline computed inside the loop.
LoopHead_FreshDeadline ==
    /\ pc = "head" /\ state \in {"HANDSHAKE", "SECURE_SESSION"}
    /\ \/ Release /\ UNCHANGED left
       \/ /\ state = "HANDSHAKE" => left > 0
          /\ pc' = "recv"
          /\ left' = IF state = "HANDSHAKE" THEN HandshakeTicks ELSE left
          /\ UNCHANGED <<sessionVars, state>>
    /\ UNCHANGED <<session_just_ended, fatal_retries, g_stop_requested, phone,
                   keyed>>

\* lli_get_link_status and, in HANDSHAKE, the deadline; an unknown link status
\* lets the loop go on.
LoopHead ==
    /\ pc = "head" /\ state \in {"HANDSHAKE", "SECURE_SESSION"}
    /\ \/ Release
       \/ /\ state = "HANDSHAKE" => left > 0
          /\ pc' = "recv"
          /\ UNCHANGED <<sessionVars, state>>
    /\ UNCHANGED <<session_just_ended, left, fatal_retries, g_stop_requested,
                   phone, keyed>>

\* A secure session that waits on after a receive timeout.
ReceiveError_Patient ==
    /\ pc = "recv"
    /\ \/ \E e \in LinkErrors :
             /\ IF state = "SECURE_SESSION" /\ e = "TIMEOUT"
                THEN pc' = "head" /\ UNCHANGED <<sessionVars, state>>
                ELSE Release
             /\ UNCHANGED fatal_retries
       \/ Return("BUS_FATAL") /\ UNCHANGED <<sessionVars, state>>
    /\ UNCHANGED <<session_just_ended, left, g_stop_requested, phone, keyed>>

\* A receive that fails.  A fatal bus error is passed up at once.
ReceiveError ==
    /\ pc = "recv"
    /\ \/ \E e \in LinkErrors :
             /\ IF state = "HANDSHAKE" /\ e \in {"FRAME_INTEGRITY", "INTERNAL"}
                THEN pc' = "head" /\ UNCHANGED <<sessionVars, state>>
                ELSE Release
             /\ UNCHANGED fatal_retries
       \/ Return("BUS_FATAL") /\ UNCHANGED <<sessionVars, state>>
    /\ UNCHANGED <<session_just_ended, left, g_stop_requested, phone, keyed>>

\* The loop (or the switch of transport_run_session) after a status reply, whose
\* own failure nobody looks at.
Again == IF state = "ACTIVATED" THEN "recv" ELSE "head"

\* A malformed, unexpected or oversized C-APDU is answered and changes nothing.
Reject(c) ==
    /\ c \notin {Expected[state], "ABORT"}
    /\ pc' = Again
    /\ UNCHANGED <<sessionVars, state, keyed>>

Abort(c) ==
    /\ c = "ABORT"
    /\ Release
    /\ UNCHANGED keyed

\* The C-APDU this state waits for goes to session_on_apdu.
Accept(c) ==
    /\ c = Expected[state]
    /\ \E result \in {"OK", "ERR"} :
          /\ session_on_apdu(c, result)
          /\ pc' = IF result = "OK" THEN "send" ELSE "drop"
          /\ keyed' = (keyed \/ (c = "M3" /\ result = "OK"))
    /\ UNCHANGED state

ReceiveApdu ==
    /\ pc = "recv" /\ phone = "near"
    /\ \E c \in Commands : Reject(c) \/ Abort(c) \/ Accept(c)
    /\ UNCHANGED <<session_just_ended, left, fatal_retries, g_stop_requested,
                   phone>>

\* on_apdu failed: status reply, erase, RELEASED.
Drop ==
    /\ pc = "drop"
    /\ Release
    /\ UNCHANGED <<session_just_ended, left, fatal_retries, g_stop_requested,
                   phone, keyed>>

\* send_rapdu: a failure of any kind, a fatal one too, ends the session.
\* run_handshake sets its deadline when it is entered.
SendReply ==
    /\ pc = "send"
    /\ \/ Release /\ UNCHANGED left
       \/ /\ pc' = "head"
          /\ state' = IF state = "ACTIVATED" THEN "HANDSHAKE"
                                             ELSE "SECURE_SESSION"
          /\ left' = IF state = "ACTIVATED" THEN HandshakeTicks ELSE left
          /\ UNCHANGED sessionVars
    /\ UNCHANGED <<session_just_ended, fatal_retries, g_stop_requested, phone,
                   keyed>>

run_released ==
    /\ pc = "head" /\ state = "RELEASED"
    /\ state' = "IDLE"
    /\ session_just_ended' = TRUE
    /\ Return("OK")
    /\ UNCHANGED <<sessionVars, left, g_stop_requested, phone, keyed>>

CommTask ==
    \/ RunSession
    \/ CommTaskStops
    \/ run_idle
    \/ LoopHead
    \/ ReceiveError
    \/ ReceiveApdu
    \/ Drop
    \/ SendReply
    \/ run_released

-----------------------------------------------------------------------------
(***************************************************************************)
(* The Application task, time and phones                                   *)
(***************************************************************************)

ArmWindow  == session_arm_provisioning_window /\ UNCHANGED transportVars
WindowEnds == WindowExpires /\ UNCHANGED transportVars

\* comm_module_stop and comm_module_force_abort.
comm_module_stop ==
    /\ g_stop_requested' = TRUE
    /\ UNCHANGED <<sessionVars, state, session_just_ended, pc, left,
                   fatal_retries, phone, keyed>>

Tick ==
    /\ state = "HANDSHAKE" /\ left > 0
    /\ left' = left - 1
    /\ UNCHANGED <<sessionVars, state, session_just_ended, pc, fatal_retries,
                   g_stop_requested, phone, keyed>>

PhoneMoves ==
    /\ phone' = IF phone = "near" THEN "away" ELSE "near"
    /\ UNCHANGED <<sessionVars, state, session_just_ended, pc, left,
                   fatal_retries, g_stop_requested, keyed>>

Init ==
    /\ SessionInit
    /\ state = "IDLE"
    /\ session_just_ended = FALSE
    /\ pc = "top"
    /\ left = 0
    /\ fatal_retries = 0
    /\ g_stop_requested = FALSE
    /\ phone = "away"
    /\ keyed = FALSE

Next ==
    \/ CommTask
    \/ ArmWindow
    \/ WindowEnds
    \/ comm_module_stop
    \/ Tick
    \/ PhoneMoves

Spec == Init /\ [][Next]_vars

\* Every call the comm task blocks in has a timeout, and time passes.  Nothing
\* is assumed of phones or of the Application task.
FairSpec == Spec /\ WF_vars(CommTask) /\ WF_vars(Tick)

-----------------------------------------------------------------------------
(***************************************************************************)
(* Properties                                                              *)
(***************************************************************************)

\* Every variable stays in its range.
TypeOK ==
    /\ SessionTypeOK
    /\ state \in States
    /\ session_just_ended \in BOOLEAN
    /\ pc \in Places
    /\ left \in 0 .. HandshakeTicks
    /\ fatal_retries \in 0 .. COMM_FATAL_RETRY_LIMIT
    /\ g_stop_requested \in BOOLEAN
    /\ phone \in {"near", "away"}
    /\ keyed \in BOOLEAN
    /\ pc \in {"recv", "send", "drop"} => state \in Connected

\* "The on_erase callback is always invoked before the state is set to RELEASED"
\* (docs/transport.md): nobody sees RELEASED with key material in memory.
ReleasedIsErased == state = "RELEASED" => stage = "EMPTY" /\ secrets = {}

\* The stage tests of session_handle_m3 and session_handle_secure_payload are
\* "defensive duplicates of Transport's state machine and should never fire"
\* (docs/session.md): a receive in HANDSHAKE finds the session EPHEMERAL, one in
\* SECURE_SESSION finds it ESTABLISHED, after any sequence of errors.
StageMatchesState ==
    pc = "recv" =>
        /\ state = "HANDSHAKE" => stage = "EPHEMERAL"
        /\ state = "SECURE_SESSION" => stage = "ESTABLISHED"

\* comm_module_session_active tells the Application the truth: it is true
\* exactly while the session is ESTABLISHED.
ActiveMatchesStage == g_session_active = (stage = "ESTABLISHED")

\* The table "Material present" of docs/session.md: each stage has exactly the
\* secrets it needs and none of an earlier session.
KeysMatchStage ==
    secrets = CASE stage = "EMPTY"       -> {}
                [] stage = "EPHEMERAL"   -> {"ephemeral"}
                [] stage = "ESTABLISHED" -> Secrets

\* A payload is only ever served with keys agreed in the present run: a session
\* that a fatal bus error left ESTABLISHED is not resumed by the next phone.
ServesThisPhoneOnly == state = "SECURE_SESSION" /\ pc # "top" /\ pc # "gone" => keyed

\* One arming of the provisioning window lets at most one M3 through unverified,
\* however many phones shake hands before it expires.
OneDeferralPerArming == deferrals <= 1

\* The handshake timer bounds the handshake: a phone can neither stall it nor
\* prolong it with malformed or unexpected C-APDUs.  It ends at the latest with a
\* fatal bus error.
HandshakeEnds == state = "HANDSHAKE" ~> state # "HANDSHAKE" \/ fatal_retries > 0

\* When the phone leaves for good in the middle of a run, its session is erased
\* and the lock is back in IDLE, ready for the next one, unless the bus fails.
PhoneGone ==
    phone = "away" /\ state \in Connected ~>
        \/ phone = "near"
        \/ state = "IDLE" /\ stage = "EMPTY"
        \/ fatal_retries > 0

=============================================================================
