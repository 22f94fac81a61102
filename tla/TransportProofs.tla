-------------------------- MODULE TransportProofs ---------------------------
(***************************************************************************)
(* Safety of the comm task for every handshake timeout and with fatal bus  *)
(* errors: the invariants of module Transport, proved from one inductive   *)
(* invariant that says, for every place of the comm task, which stage the  *)
(* session must be in there.                                               *)
(***************************************************************************)
EXTENDS Transport, TLAPS

\* What each place knows of the session's stage.
StageAtPlace ==
    /\ state = "RELEASED" => pc = "head" /\ stage = "EMPTY"
    /\ pc \in {"head", "recv"} /\ state = "HANDSHAKE" => stage = "EPHEMERAL"
    /\ pc \in {"head", "recv"} /\ state = "SECURE_SESSION" => stage = "ESTABLISHED"
    /\ pc = "send" /\ state = "ACTIVATED" => stage = "EPHEMERAL"
    /\ pc = "send" /\ state # "ACTIVATED" => stage = "ESTABLISHED"

\* What bounds the deferrals and fatal_retries.
Counters ==
    /\ OneDeferralPerArming
    /\ provisioning_armed => deferrals = 0
    /\ pc # "gone" => fatal_retries < COMM_FATAL_RETRY_LIMIT

\* A reply to M3, and then SECURE_SESSION, come from an M3 of this run.
KeyedAtPlace ==
    /\ pc = "send" /\ state = "HANDSHAKE" => keyed
    /\ ServesThisPhoneOnly

\* The inductive invariant.
IInv ==
    /\ TypeOK
    /\ StageAtPlace
    /\ Counters
    /\ KeyedAtPlace
    /\ ActiveMatchesStage
    /\ KeysMatchStage

USE DEF OneDeferralPerArming, States, Places, Stages, Secrets, LinkErrors,
        Commands, Expected, Connected, COMM_FATAL_RETRY_LIMIT

\* The invariant holds when comm_module_start has created the comm task.
LEMMA InitIInv == Init => IInv
<1> SUFFICES ASSUME Init PROVE IInv
  OBVIOUS
<1> USE DEF Init, SessionInit
<1>1. TypeOK
  <2>1. left \in 0 .. HandshakeTicks
    BY TransportAssumption
  <2>2. /\ {provisioning_armed, window_open, m3_cached, g_session_active,
             session_just_ended, g_stop_requested, keyed} \subseteq BOOLEAN
        /\ secrets \subseteq Secrets
    BY Zenon
  <2>3. deferrals \in Nat
    OBVIOUS
  <2>4. fatal_retries \in 0 .. COMM_FATAL_RETRY_LIMIT
    OBVIOUS
  <2>5. stage \in Stages /\ state \in States /\ pc \in Places
    OBVIOUS
  <2> QED
    BY <2>1, <2>2, <2>3, <2>4, <2>5, Zenon DEF TypeOK, SessionTypeOK
<1>2. StageAtPlace /\ Counters /\ KeyedAtPlace
  BY DEF StageAtPlace, Counters, KeyedAtPlace, ServesThisPhoneOnly
<1>3. ActiveMatchesStage
  BY DEF ActiveMatchesStage
<1>4. KeysMatchStage
  BY DEF KeysMatchStage
<1> QED
  BY <1>1, <1>2, <1>3, <1>4 DEF IInv

\* session_on_erase leaves an EMPTY session, with everything that is said of one.
LEMMA EraseEmpties ==
    ASSUME IInv, session_on_erase
    PROVE  /\ SessionTypeOK'
           /\ stage' = "EMPTY"
           /\ secrets' = {}
           /\ ActiveMatchesStage'
           /\ KeysMatchStage'
           /\ OneDeferralPerArming'
           /\ provisioning_armed' => deferrals' = 0
<1> USE DEF IInv, TypeOK, SessionTypeOK, Counters, ActiveMatchesStage,
            session_on_erase, Terminate, windowVars
<1>1. stage' = "EMPTY" /\ secrets' = {}
  OBVIOUS
<1>2. g_session_active' = FALSE
  OBVIOUS
<1> QED
  BY <1>1, <1>2 DEF KeysMatchStage

\* Every teardown leads to RELEASED with an erased session.
LEMMA ReleaseIInv ==
    ASSUME IInv, Release,
           UNCHANGED <<session_just_ended, left, fatal_retries,
                       g_stop_requested, phone, keyed>>,
           pc # "gone"
    PROVE  IInv'
<1>1. /\ SessionTypeOK' /\ stage' = "EMPTY" /\ ActiveMatchesStage'
      /\ KeysMatchStage' /\ OneDeferralPerArming'
      /\ (provisioning_armed' => deferrals' = 0)
  BY EraseEmpties DEF Release
<1>2. state' = "RELEASED" /\ pc' = "head"
  BY DEF Release
<1> QED
  BY <1>1, <1>2 DEF IInv, TypeOK, StageAtPlace, Counters, KeyedAtPlace,
                    ServesThisPhoneOnly

\* Whatever the session layer answers to the C-APDU that this state expects, the
\* session ends up in the stage that the next place expects.
LEMMA AcceptIInv ==
    ASSUME IInv, pc = "recv", NEW c, Accept(c),
           UNCHANGED <<session_just_ended, left, fatal_retries,
                       g_stop_requested, phone>>
    PROVE  IInv'
<1> USE DEF IInv, TypeOK, SessionTypeOK
<1>1. PICK result \in {"OK", "ERR"} :
         /\ session_on_apdu(c, result)
         /\ pc' = IF result = "OK" THEN "send" ELSE "drop"
         /\ keyed' = (keyed \/ (c = "M3" /\ result = "OK"))
  BY DEF Accept
<1>2. c = Expected[state] /\ state' = state /\ state \in Connected
  BY DEF Accept
<1>3. CASE state = "ACTIVATED"
  <2>1. c = "M1" /\ session_handle_m1(result)
    BY <1>1, <1>2, <1>3 DEF session_on_apdu
  <2>2. CASE result = "ERR" /\ UNCHANGED sessionVars
    BY <1>1, <1>2, <1>3, <2>1, <2>2
       DEF sessionVars, StageAtPlace, Counters, KeyedAtPlace,
           ServesThisPhoneOnly, ActiveMatchesStage, KeysMatchStage
  <2>3. CASE result = "ERR" /\ session_on_erase
    <3>1. /\ SessionTypeOK' /\ stage' = "EMPTY" /\ ActiveMatchesStage'
          /\ KeysMatchStage' /\ OneDeferralPerArming'
          /\ (provisioning_armed' => deferrals' = 0)
      BY <2>3, EraseEmpties
    <3> QED
      BY <1>1, <1>2, <1>3, <2>1, <2>3, <3>1
         DEF StageAtPlace, Counters, KeyedAtPlace, ServesThisPhoneOnly
  <2>4. CASE /\ result = "OK" /\ Terminate /\ stage' = "EPHEMERAL"
             /\ secrets' = {"ephemeral"} /\ UNCHANGED windowVars
    <3>1. g_session_active' = FALSE
      BY <2>4 DEF Terminate, ActiveMatchesStage
    <3> QED
      BY <1>1, <1>2, <1>3, <2>1, <2>4, <3>1
         DEF windowVars, StageAtPlace, Counters, KeyedAtPlace,
             ServesThisPhoneOnly, ActiveMatchesStage, KeysMatchStage
  <2> QED
    BY <2>1, <2>2, <2>3, <2>4 DEF session_handle_m1
<1>4. CASE state = "HANDSHAKE"
  <2>1. c = "M3" /\ \E known \in BOOLEAN : session_handle_m3(known, result)
    BY <1>1, <1>2, <1>4 DEF session_on_apdu
  <2>2. stage = "EPHEMERAL"
    BY <1>4 DEF StageAtPlace
  <2>3. CASE result = "ERR" /\ UNCHANGED sessionVars
    BY <1>1, <1>2, <1>4, <2>1, <2>3
       DEF sessionVars, StageAtPlace, Counters, KeyedAtPlace,
           ServesThisPhoneOnly, ActiveMatchesStage, KeysMatchStage
  <2>4. ASSUME ConsumeWindow
        PROVE  /\ deferrals' \in 0 .. 1 /\ provisioning_armed' = FALSE
               /\ m3_cached' \in BOOLEAN /\ window_open' = window_open
    BY <2>4 DEF ConsumeWindow, Counters
  <2>5. CASE /\ result = "ERR" /\ ConsumeWindow
             /\ UNCHANGED <<stage, secrets, g_session_active>>
    BY <1>1, <1>2, <1>4, <2>1, <2>4, <2>5
       DEF StageAtPlace, Counters, KeyedAtPlace, ServesThisPhoneOnly,
           ActiveMatchesStage, KeysMatchStage
  <2>6. CASE /\ result = "ERR" /\ ConsumeWindow /\ stage' = "EMPTY"
             /\ secrets' = {} /\ UNCHANGED g_session_active
    BY <1>1, <1>2, <1>4, <2>1, <2>2, <2>4, <2>6
       DEF StageAtPlace, Counters, KeyedAtPlace, ServesThisPhoneOnly,
           ActiveMatchesStage, KeysMatchStage
  <2>7. CASE /\ result = "OK" /\ ConsumeWindow /\ stage' = "ESTABLISHED"
             /\ secrets' = Secrets /\ g_session_active' = TRUE
    <3>1. ActiveMatchesStage' /\ g_session_active' \in BOOLEAN
      BY <2>7 DEF ActiveMatchesStage
    <3>2. keyed' = TRUE
      BY <1>1, <2>1, <2>7
    <3>3. KeysMatchStage' /\ secrets' \subseteq Secrets
      BY <2>7 DEF KeysMatchStage
    <3> QED
      BY <1>1, <1>2, <1>4, <2>1, <2>4, <2>7, <3>1, <3>2, <3>3
         DEF StageAtPlace, Counters, KeyedAtPlace, ServesThisPhoneOnly
  <2> QED
    BY <2>1, <2>3, <2>5, <2>6, <2>7 DEF session_handle_m3
<1>5. CASE state = "SECURE_SESSION"
  <2>1. UNCHANGED sessionVars /\ c = "PAYLOAD"
    BY <1>1, <1>2, <1>5 DEF session_on_apdu, session_handle_secure_payload
  <2> QED
    BY <1>1, <1>2, <1>5, <2>1
       DEF sessionVars, StageAtPlace, Counters, KeyedAtPlace,
           ServesThisPhoneOnly, ActiveMatchesStage, KeysMatchStage
<1> QED
  BY <1>2, <1>3, <1>4, <1>5

\* Every step of the comm task, of the Application task, of time and of phones
\* preserves the invariant.
LEMMA StepIInv == IInv /\ [Next]_vars => IInv'
<1> SUFFICES ASSUME IInv, [Next]_vars PROVE IInv'
  OBVIOUS
<1>1. ASSUME UNCHANGED sessionVars
      PROVE  /\ SessionTypeOK' /\ ActiveMatchesStage' /\ KeysMatchStage'
             /\ stage' = stage
             /\ OneDeferralPerArming'
             /\ (provisioning_armed' => deferrals' = 0)
  BY <1>1 DEF sessionVars, IInv, TypeOK, SessionTypeOK, Counters,
              ActiveMatchesStage, KeysMatchStage
<1> USE DEF StageAtPlace, Counters, KeyedAtPlace, ServesThisPhoneOnly
<1>2. CASE RunSession
  BY <1>1, <1>2 DEF RunSession, IInv, TypeOK
<1>3. CASE CommTaskStops
  BY <1>1, <1>3 DEF CommTaskStops, IInv, TypeOK
<1>4. ASSUME NEW err, pc # "gone", Return(err)
      PROVE  /\ fatal_retries' \in 0 .. COMM_FATAL_RETRY_LIMIT
             /\ pc' \in {"top", "gone"}
             /\ pc' # "gone" => fatal_retries' < COMM_FATAL_RETRY_LIMIT
  BY <1>4 DEF Return, IInv, TypeOK
<1>5. CASE run_idle
  <2>1. CASE state' = "ACTIVATED" /\ pc' = "recv" /\ UNCHANGED fatal_retries
    BY <1>1, <1>5, <2>1 DEF run_idle, IInv, TypeOK
  <2>2. CASE (\E err : Return(err)) /\ UNCHANGED state
    BY <1>1, <1>4, <1>5, <2>2 DEF run_idle, IInv, TypeOK
  <2> QED
    BY <1>5, <2>1, <2>2 DEF run_idle
<1>6. CASE LoopHead
  <2>1. CASE Release
    BY <1>6, <2>1, ReleaseIInv DEF LoopHead
  <2>2. CASE pc' = "recv" /\ UNCHANGED <<sessionVars, state>>
    BY <1>1, <1>6, <2>2 DEF LoopHead, IInv, TypeOK
  <2> QED
    BY <1>6, <2>1, <2>2 DEF LoopHead
<1>7. CASE ReceiveError
  <2>1. CASE Release /\ UNCHANGED fatal_retries
    BY <1>7, <2>1, ReleaseIInv DEF ReceiveError
  <2>2. CASE /\ state = "HANDSHAKE" /\ pc' = "head"
             /\ UNCHANGED <<sessionVars, state>> /\ UNCHANGED fatal_retries
    BY <1>1, <1>7, <2>2 DEF ReceiveError, IInv, TypeOK
  <2>3. CASE Return("BUS_FATAL") /\ UNCHANGED <<sessionVars, state>>
    BY <1>1, <1>4, <1>7, <2>3 DEF ReceiveError, IInv, TypeOK
  <2> QED
    BY <1>7, <2>1, <2>2, <2>3 DEF ReceiveError
<1>8. CASE ReceiveApdu
  <2>1. PICK c \in Commands : Reject(c) \/ Abort(c) \/ Accept(c)
    BY <1>8 DEF ReceiveApdu
  <2>2. CASE Reject(c)
    BY <1>1, <1>8, <2>2 DEF ReceiveApdu, Reject, Again, IInv, TypeOK
  <2>3. CASE Abort(c)
    BY <1>8, <2>3, ReleaseIInv DEF ReceiveApdu, Abort
  <2>4. CASE Accept(c)
    BY <1>8, <2>4, AcceptIInv DEF ReceiveApdu
  <2> QED
    BY <2>1, <2>2, <2>3, <2>4
<1>9. CASE Drop
  BY <1>9, ReleaseIInv DEF Drop
<1>10. CASE SendReply
  <2>1. CASE Release /\ UNCHANGED left
    BY <1>10, <2>1, ReleaseIInv DEF SendReply
  <2>2. CASE /\ pc' = "head"
             /\ state' = IF state = "ACTIVATED" THEN "HANDSHAKE"
                                                ELSE "SECURE_SESSION"
             /\ left' = IF state = "ACTIVATED" THEN HandshakeTicks ELSE left
             /\ UNCHANGED sessionVars
    <3>1. left' \in 0 .. HandshakeTicks
      BY <2>2, TransportAssumption DEF IInv, TypeOK
    <3> QED
      BY <1>1, <1>10, <2>2, <3>1 DEF SendReply, IInv, TypeOK
  <2> QED
    BY <1>10, <2>1, <2>2 DEF SendReply
<1>11. CASE run_released
  BY <1>1, <1>4, <1>11 DEF run_released, IInv, TypeOK
<1>12. ASSUME UNCHANGED transportVars, SessionTypeOK', ActiveMatchesStage',
              KeysMatchStage', stage' = stage, OneDeferralPerArming',
              provisioning_armed' => deferrals' = 0
       PROVE  IInv'
  BY <1>12 DEF transportVars, IInv, TypeOK
<1>13. CASE ArmWindow
  <2> USE <1>13 DEF ArmWindow, session_arm_provisioning_window, IInv
  <2>1. SessionTypeOK'
    <3>1. {provisioning_armed', window_open', m3_cached'} \subseteq BOOLEAN
      BY Zenon
    <3>2. deferrals' \in Nat
      OBVIOUS
    <3> QED
      BY <3>1, <3>2, Zenon DEF TypeOK, SessionTypeOK
  <2>2. ActiveMatchesStage' /\ KeysMatchStage'
    BY DEF ActiveMatchesStage, KeysMatchStage
  <2> QED
    BY <1>12, <2>1, <2>2
<1>14. CASE WindowEnds
  <2> USE <1>14 DEF WindowEnds, WindowExpires, IInv
  <2>1. SessionTypeOK'
    BY DEF TypeOK, SessionTypeOK
  <2>2. ActiveMatchesStage' /\ KeysMatchStage'
    BY DEF ActiveMatchesStage, KeysMatchStage
  <2> QED
    BY <1>12, <2>1, <2>2
<1>15. CASE comm_module_stop
  BY <1>1, <1>15 DEF comm_module_stop, IInv, TypeOK
<1>16. CASE Tick
  <2>1. left' \in 0 .. HandshakeTicks
    BY <1>16, TransportAssumption DEF Tick, IInv, TypeOK
  <2> QED
    BY <1>1, <1>16, <2>1 DEF Tick, IInv, TypeOK
<1>17. CASE PhoneMoves
  BY <1>1, <1>17 DEF PhoneMoves, IInv, TypeOK
<1>18. CASE UNCHANGED vars
  BY <1>1, <1>18 DEF vars, transportVars, IInv, TypeOK
<1> QED
  BY <1>2, <1>3, <1>5, <1>6, <1>7, <1>8, <1>9, <1>10, <1>11, <1>13, <1>14,
     <1>15, <1>16, <1>17, <1>18 DEF Next, CommTask

\* The inductive invariant holds in every reachable state of the comm task.
THEOREM Invariance == Spec => []IInv
BY InitIInv, StepIInv, PTL DEF Spec

\* Every variable of transport.c, session.c and comm_task_fn stays in its range.
THEOREM TypeCorrect == Spec => []TypeOK
<1>1. IInv => TypeOK
  BY DEF IInv
<1> QED
  BY <1>1, Invariance, PTL

\* Nobody sees RELEASED before session_on_erase has zeroized the secrets.
THEOREM ReleasedErased == Spec => []ReleasedIsErased
<1>1. IInv => ReleasedIsErased
  BY DEF IInv, StageAtPlace, KeysMatchStage, ReleasedIsErased
<1> QED
  BY <1>1, Invariance, PTL

\* The stage tests of session_handle_m3 and session_handle_secure_payload never
\* fire, after any sequence of C-APDUs, link errors and fatal bus errors.
THEOREM StageAgrees == Spec => []StageMatchesState
<1>1. IInv => StageMatchesState
  BY DEF IInv, StageAtPlace, StageMatchesState
<1> QED
  BY <1>1, Invariance, PTL

\* comm_module_session_active and the secrets in memory follow the stage.
THEOREM StageDetermines == Spec => [](ActiveMatchesStage /\ KeysMatchStage)
<1>1. IInv => ActiveMatchesStage /\ KeysMatchStage
  BY DEF IInv
<1> QED
  BY <1>1, Invariance, PTL

\* No payload is served with the keys of an earlier phone, although a fatal bus
\* error leaves them in place.
THEOREM ServesOnlyThisPhone == Spec => []ServesThisPhoneOnly
<1>1. IInv => ServesThisPhoneOnly
  BY DEF IInv, KeyedAtPlace
<1> QED
  BY <1>1, Invariance, PTL

\* One arming of the provisioning window lets at most one M3 through unverified.
THEOREM DeferralBound == Spec => []OneDeferralPerArming
<1>1. IInv => OneDeferralPerArming
  BY DEF IInv, Counters
<1> QED
  BY <1>1, Invariance, PTL

=============================================================================
