------------------------- MODULE ProvisioningProofs -------------------------
(***************************************************************************)
(* Proofs about provisioning for any phones and any number of handshakes   *)
(* and armings.  Nothing is assumed of the interleaving of the two tasks:  *)
(* where an M3 falls between the stores of an arming, the theorem about    *)
(* committed keys still holds, and only CacheIsWhole excepts the case.     *)
(***************************************************************************)
EXTENDS Provisioning, TLAPS

USE DEF ArmPcs, M3Pcs, mgrVars, windowVars, commVars, appVars, histVars

-----------------------------------------------------------------------------
(***************************************************************************)
(* Type correctness, pending commands, and the secret on the display       *)
(***************************************************************************)

\* No command is pending when the record says so.
LEMMA NoCommandIsNone == NoCommand \notin Command
BY DEF NoCommand, Command, Ops

\* A lock that has just been switched on is well-typed, has no session and shows
\* no secret.
LEMMA InitProvisioningInv == Init => ProvisioningInv
<1> SUFFICES ASSUME Init PROVE ProvisioningInv
  OBVIOUS
<1>1. {s_active, s_open, provisioning_armed, window_open, m3_cached,
       g_session_active, g_stop_requested, verified, raced} \subseteq BOOLEAN
  BY DEF Init
<1>2. cached_sig_P \in [by : Phones \cup {NoPhone}, transcript : 0 .. MaxSessions]
  BY ProvisioningAssumption DEF Init, NoSig
<1>3. dctx \in [ready : BOOLEAN, session_authorized : BOOLEAN,
                provisioning_active : BOOLEAN]
  BY DEF Init, NoContext
<1>4. TypeOK
  BY ProvisioningAssumption, <1>1, <1>2, <1>3 DEF Init, TypeOK
<1> QED
  BY <1>4 DEF Init, ProvisioningInv, PendingWhileWaiting, SecretShownWhileActive

\* Every step of the comm task, from M1 to the end of a session, keeps the types.
LEMMA CommTypeOK ==
    ASSUME TypeOK, CommTask
    PROVE  TypeOK'
<1> USE ProvisioningAssumption DEF TypeOK
<1>1. ASSUME NEW p \in Phones, Handshake(p)
      PROVE  TypeOK'
  BY <1>1 DEF Handshake
<1>2. CASE CommTaskStops
  BY <1>2 DEF CommTaskStops
<1>3. CASE M3Window
  BY <1>3 DEF M3Window
<1>4. CASE M3CacheSig
  BY <1>4 DEF M3CacheSig
<1>5. CASE M3CacheTranscript
  BY <1>5 DEF M3CacheTranscript
<1>6. CASE M3Cached
  BY <1>6 DEF M3Cached, Establish
<1>7. CASE M3Resolve
  BY <1>7 DEF M3Resolve, Establish
<1>8. ASSUME NEW op \in Ops, NEW k \in Phones, NEW s \in 0 .. MaxArmings,
             Payload(op, k, s)
      PROVE  TypeOK'
  <2>1. command' \in Command
    BY <1>8 DEF Payload, Command
  <2> QED
    BY <1>8, <2>1 DEF Payload
<1>9. CASE ReplyTimeout
  BY <1>9 DEF ReplyTimeout
<1>10. CASE SessionEnds
  BY <1>10 DEF SessionEnds
<1> QED
  BY <1>1, <1>2, <1>3, <1>4, <1>5, <1>6, <1>7, <1>8, <1>9, <1>10 DEF CommTask

\* So does every step of the Application task.
LEMMA AppTypeOK ==
    ASSUME TypeOK, AppTask
    PROVE  TypeOK'
<1> USE ProvisioningAssumption DEF TypeOK
<1>1. CASE NoHold
  BY <1>1 DEF NoHold
<1>2. CASE ButtonHeld
  <2>1. CASE Active
    BY <1>2, <2>1 DEF ButtonHeld
  <2>2. CASE ~Active
    <3>1. {s_active', s_open', raced'} \subseteq BOOLEAN
      <4>1. s_active' = FALSE /\ s_open' = s_open /\ raced' = (cpc \in M3Pcs)
        BY <1>2, <2>2, Zenon DEF ButtonHeld
      <4>2. s_open \in BOOLEAN /\ raced' \in BOOLEAN
        BY <4>1
      <4> QED
        BY <4>1, <4>2
    <3>2. s_secret' \in 0 .. MaxArmings
      BY <1>2, <2>2 DEF ButtonHeld
    <3>3. qr' = 0 /\ apc' = "arm_flag" /\ tries' = 0 /\ deferredBy' = NoPhone
      BY <1>2, <2>2 DEF ButtonHeld
    <3>4. UNCHANGED <<windowVars, commVars, g_stop_requested, command, cmd, dctx,
                      store, verified>>
      BY <1>2 DEF ButtonHeld
    <3> QED
      BY <3>1, <3>2, <3>3, <3>4
  <2> QED
    BY <2>1, <2>2
<1>3. CASE ArmWindow
  <2>1. cached_sig_P' \in [by : Phones \cup {NoPhone}, transcript : 0 .. MaxSessions]
    BY <1>3 DEF ArmWindow, NoSig
  <2>2. {provisioning_armed', window_open', m3_cached'} \subseteq BOOLEAN
    BY <1>3 DEF ArmWindow
  <2>3. cached_transcript' \in 0 .. MaxSessions /\ apc' \in ArmPcs
    BY <1>3 DEF ArmWindow
  <2>4. UNCHANGED <<mgrVars, commVars, g_stop_requested, command, cmd, dctx,
                    store, histVars>>
    BY <1>3 DEF ArmWindow
  <2> QED
    BY <2>1, <2>2, <2>3, <2>4
<1>4. CASE ArmShow
  BY <1>4 DEF ArmShow
<1>5. CASE TakeNothing
  BY <1>5 DEF TakeNothing
<1>6. CASE TakeCommand
  BY <1>6 DEF TakeCommand
<1>7. CASE Context
  <2>1. dctx' \in [ready : BOOLEAN, session_authorized : BOOLEAN,
                   provisioning_active : BOOLEAN]
    BY <1>7 DEF Context, Active
  <2>2. /\ {s_active', s_open'} \subseteq BOOLEAN
        /\ s_secret' = s_secret /\ qr' \in {qr, 0}
    BY <1>7 DEF Context, provision_mgr_is_active, disarm
  <2> QED
    BY <1>7, <2>1, <2>2 DEF Context
<1>8. CASE app_dispatch
  <2>1. cmd.op = "PROVISION" => cmd.key \in Phones
    BY DEF Command, NoCommand
  <2>2. store' \subseteq Phones /\ tries' \in Nat
    BY <1>8, <2>1 DEF app_dispatch, provision_mgr_handle_cmd
  <2>3. /\ {s_active', s_open', g_stop_requested'} \subseteq BOOLEAN
        /\ s_secret' = s_secret /\ qr' \in {qr, 0}
    BY <1>8 DEF app_dispatch, provision_mgr_handle_cmd, provision_mgr_abort, disarm
  <2>4. apc' \in {"revoke", "reply", "reply_act"}
    BY <1>8 DEF app_dispatch
  <2> QED
    BY <1>8, <2>2, <2>3, <2>4 DEF app_dispatch
<1>9. CASE Revoke
  BY <1>9 DEF Revoke
<1>10. CASE Reply
  BY <1>10 DEF Reply, NoContext
<1>11. CASE Act
  BY <1>11 DEF Act
<1> QED
  BY <1>1, <1>2, <1>3, <1>4, <1>5, <1>6, <1>7, <1>8, <1>9, <1>10, <1>11
     DEF AppTask

\* Every step keeps the types, the passing of time included.
LEMMA StepTypeOK == TypeOK /\ [Next]_vars => TypeOK'
<1> SUFFICES ASSUME TypeOK, [Next]_vars PROVE TypeOK'
  OBVIOUS
<1>1. CASE WindowExpires
  <2>1. {window_open', s_open'} \subseteq BOOLEAN
    BY <1>1 DEF WindowExpires, TypeOK
  <2> QED
    BY <1>1, <2>1 DEF WindowExpires, TypeOK
<1>2. CASE UNCHANGED vars
  BY <1>2 DEF vars, TypeOK
<1> QED
  BY <1>1, <1>2, CommTypeOK, AppTypeOK DEF Next

\* The comm task and the Application agree on what is pending.
LEMMA StepPending ==
    ASSUME TypeOK, PendingWhileWaiting, [Next]_vars
    PROVE  PendingWhileWaiting'
<1> USE NoCommandIsNone DEF TypeOK, PendingWhileWaiting
<1>1. ASSUME NEW p \in Phones, Handshake(p)
      PROVE  PendingWhileWaiting'
  BY <1>1 DEF Handshake
<1>2. CASE CommTaskStops \/ M3Window \/ M3CacheSig \/ M3CacheTranscript
  BY <1>2 DEF CommTaskStops, M3Window, M3CacheSig, M3CacheTranscript
<1>3. CASE M3Cached \/ M3Resolve
  BY <1>3 DEF M3Cached, M3Resolve, Establish
<1>4. ASSUME NEW op \in Ops, NEW k \in Phones, NEW s \in 0 .. MaxArmings,
             Payload(op, k, s)
      PROVE  PendingWhileWaiting'
  <2>1. command' \in Command
    BY <1>4 DEF Payload, Command
  <2> QED
    BY <1>4, <2>1 DEF Payload
<1>5. CASE ReplyTimeout \/ SessionEnds
  BY <1>5 DEF ReplyTimeout, SessionEnds
<1>6. CASE Reply
  BY <1>6 DEF Reply
<1>7. CASE \/ NoHold \/ ButtonHeld \/ ArmWindow \/ ArmShow \/ TakeNothing
           \/ TakeCommand \/ Context \/ app_dispatch \/ Revoke \/ Act
           \/ WindowExpires \/ UNCHANGED vars
  <2>1. UNCHANGED <<cpc, g_session_active, command>>
    BY <1>7 DEF NoHold, ButtonHeld, ArmWindow, ArmShow, TakeNothing, TakeCommand,
                Context, app_dispatch, Revoke, Act, WindowExpires, vars
  <2> QED
    BY <2>1
<1> QED
  BY <1>1, <1>2, <1>3, <1>4, <1>5, <1>6, <1>7 DEF Next, CommTask, AppTask

\* Only provision_mgr.c touches the display, and it keeps it with its window.
LEMMA StepSecretShown ==
    ASSUME TypeOK, SecretShownWhileActive, [Next]_vars
    PROVE  SecretShownWhileActive'
<1> USE DEF TypeOK, SecretShownWhileActive
<1>1. CASE CommTask \/ WindowExpires \/ UNCHANGED vars
  <2>1. UNCHANGED <<s_active, s_secret, qr>>
    BY <1>1 DEF CommTask, Handshake, CommTaskStops, M3Window, M3CacheSig,
                M3CacheTranscript, M3Cached, M3Resolve, Payload, ReplyTimeout,
                SessionEnds, WindowExpires, vars
  <2> QED
    BY <2>1
<1>2. CASE NoHold \/ ArmWindow \/ TakeNothing \/ TakeCommand \/ Revoke \/ Reply \/ Act
  BY <1>2 DEF NoHold, ArmWindow, TakeNothing, TakeCommand, Revoke, Reply, Act
<1>3. CASE ButtonHeld
  BY <1>3 DEF ButtonHeld
<1>4. CASE ArmShow
  BY <1>4 DEF ArmShow
<1>5. CASE Context
  BY <1>5 DEF Context, provision_mgr_is_active, disarm
<1>6. CASE app_dispatch
  BY <1>6 DEF app_dispatch, provision_mgr_handle_cmd, provision_mgr_abort, disarm
<1> QED
  BY <1>1, <1>2, <1>3, <1>4, <1>5, <1>6 DEF Next, AppTask

\* Every step keeps the three together.
LEMMA StepProvisioningInv == ProvisioningInv /\ [Next]_vars => ProvisioningInv'
BY StepTypeOK, StepPending, StepSecretShown DEF ProvisioningInv

\* The secret is on the display exactly while provision_mgr.c takes its window
\* for active, a command pends exactly while the comm task waits for the answer,
\* and the flag that the dispatcher reads is that of an open session.
THEOREM ProvisioningCorrect == Spec => []ProvisioningInv
BY InitProvisioningInv, StepProvisioningInv, PTL DEF Spec

-----------------------------------------------------------------------------
(***************************************************************************)
(* What the dispatcher knows of the window                                 *)
(***************************************************************************)

\* The context is drawn and the window closed in one step of the Application, so
\* at the dispatch the context says exactly whether the window is active; a
\* handler that acts, and an arming that is not over, have it inactive.
WindowInv ==
    /\ apc \in {"revoke", "reply_act", "act"} \cup ArmPcs => ~s_active
    /\ apc = "dispatch" => (s_active <=> dctx.provisioning_active)

\* A window that is active or being armed has had no attempt; when one is over
\* there has been at most one.
AttemptInv == tries <= 1 /\ (s_active \/ apc \in ArmPcs => tries = 0)

\* The steps of the comm task and of time touch none of this.
LEMMA CommKeepsWindow ==
    ASSUME CommTask \/ WindowExpires \/ UNCHANGED vars
    PROVE  /\ UNCHANGED <<s_active, s_secret, qr, store, tries>>
           /\ UNCHANGED <<apc, cmd, dctx>>
BY DEF CommTask, Handshake, CommTaskStops, M3Window, M3CacheSig,
       M3CacheTranscript, M3Cached, M3Resolve, Payload, ReplyTimeout,
       SessionEnds, WindowExpires, vars

\* The context stays true, because only the Application writes s_active.
LEMMA StepWindowInv ==
    ASSUME TypeOK, WindowInv, [Next]_vars
    PROVE  WindowInv'
<1> USE DEF WindowInv
<1>1. CASE CommTask \/ WindowExpires \/ UNCHANGED vars
  BY <1>1, CommKeepsWindow
<1>2. CASE NoHold \/ ArmWindow \/ TakeNothing \/ TakeCommand \/ Revoke \/ Reply \/ Act
  BY <1>2 DEF NoHold, ArmWindow, TakeNothing, TakeCommand, Revoke, Reply, Act
<1>3. CASE ButtonHeld
  BY <1>3 DEF ButtonHeld
<1>4. CASE ArmShow
  BY <1>4 DEF ArmShow
<1>5. CASE Context
  <2>1. s_active \in BOOLEAN /\ s_open \in BOOLEAN
    BY DEF TypeOK
  <2>2. apc' = "dispatch" /\ dctx'.provisioning_active = (s_active /\ s_open)
    BY <1>5 DEF Context, Active
  <2>3. s_active' <=> s_active /\ s_open
    BY <1>5, <2>1 DEF Context, provision_mgr_is_active, disarm
  <2> QED
    BY <2>2, <2>3
<1>6. CASE app_dispatch
  <2>1. apc = "dispatch" /\ apc' \in {"revoke", "reply", "reply_act"}
    BY <1>6 DEF app_dispatch
  <2>2. CASE dctx.provisioning_active
    BY <1>6, <2>1, <2>2 DEF app_dispatch, Allowed
  <2>3. CASE ~dctx.provisioning_active
    BY <1>6, <2>1, <2>3 DEF app_dispatch
  <2> QED
    BY <2>2, <2>3
<1> QED
  BY <1>1, <1>2, <1>3, <1>4, <1>5, <1>6 DEF Next, AppTask

\* An attempt closes the window, and only an arming opens it again.
LEMMA StepAttemptInv ==
    ASSUME TypeOK, AttemptInv, [Next]_vars
    PROVE  AttemptInv'
<1> USE DEF AttemptInv
<1>1. CASE CommTask \/ WindowExpires \/ UNCHANGED vars
  BY <1>1, CommKeepsWindow
<1>2. CASE NoHold \/ ArmWindow \/ TakeNothing \/ TakeCommand \/ Revoke \/ Reply \/ Act
  BY <1>2 DEF NoHold, ArmWindow, TakeNothing, TakeCommand, Revoke, Reply, Act
<1>3. CASE ButtonHeld
  BY <1>3 DEF ButtonHeld
<1>4. CASE ArmShow
  BY <1>4 DEF ArmShow
<1>5. CASE Context
  BY <1>5 DEF Context, provision_mgr_is_active, disarm
<1>6. CASE app_dispatch
  <2>1. apc' \notin ArmPcs
    BY <1>6 DEF app_dispatch
  <2>2. CASE tries' = tries
    BY <1>6, <2>1, <2>2
       DEF app_dispatch, provision_mgr_handle_cmd, provision_mgr_abort, disarm
  <2>3. CASE tries' # tries
    <3>1. Active /\ tries' = tries + 1 /\ s_active' = FALSE
      BY <1>6, <2>3
         DEF app_dispatch, provision_mgr_handle_cmd, provision_mgr_abort, disarm,
             Active
    <3> QED
      BY <2>1, <3>1 DEF Active
  <2> QED
    BY <2>2, <2>3
<1> QED
  BY <1>1, <1>2, <1>3, <1>4, <1>5, <1>6 DEF Next, AppTask

\* While Provision Mode is active, nothing is moved and nothing is revoked
\* (master doc, 11.2.1): the dispatcher's look at the window cannot be overtaken.
THEOREM NothingMovesInWindow == Spec => []NothingActsInWindow
<1>1. Init => TypeOK /\ WindowInv
  BY InitProvisioningInv DEF ProvisioningInv, Init, WindowInv
<1>2. TypeOK /\ WindowInv /\ [Next]_vars => (TypeOK /\ WindowInv)'
  BY StepTypeOK, StepWindowInv
<1>3. WindowInv => NothingActsInWindow
  BY DEF WindowInv, NothingActsInWindow
<1> QED
  BY <1>1, <1>2, <1>3, PTL DEF Spec

\* At most one secret is compared per arming, however sessions, timeouts and
\* armings follow one another (provision_mgr.h: "The window is single-use").
THEOREM WindowIsSingleUse == Spec => []OneTryPerArming
<1>1. Init => TypeOK /\ AttemptInv
  BY InitProvisioningInv DEF ProvisioningInv, Init, AttemptInv
<1>2. TypeOK /\ AttemptInv /\ [Next]_vars => (TypeOK /\ AttemptInv)'
  BY StepTypeOK, StepAttemptInv
<1>3. AttemptInv => OneTryPerArming
  BY DEF AttemptInv, OneTryPerArming
<1> QED
  BY <1>1, <1>2, <1>3, PTL DEF Spec

-----------------------------------------------------------------------------
(***************************************************************************)
(* Whose M3 is cached                                                      *)
(***************************************************************************)

\* From the store that zeroizes it on, the cached signature is the one of the
\* last M3 that used the window, or none.
SigInv ==
    apc \notin {"arm_flag", "arm_deadline", "arm_uncache", "arm_sig"} =>
        cached_sig_P.by \in {NoPhone, deferredBy}

\* Unless an M3 falls between the stores of an arming, the three stores of the M3
\* handler follow one another undisturbed.
CachedSoFar ==
    /\ cpc \in {"m3_transcript", "m3_cached"} =>
         cached_sig_P = [by |-> peer, transcript |-> session] /\ deferredBy = peer
    /\ cpc = "m3_cached" => cached_transcript = session
    /\ cpc \notin M3Pcs /\ deferredBy # NoPhone =>
         session_provision_verify_identity(deferredBy)

WholeInv ==
    ~raced => IF apc \in ArmPcs
              THEN cpc \notin M3Pcs /\ deferredBy = NoPhone
              ELSE CachedSoFar

\* These steps leave the cache and what is recorded of it alone.
LEMMA OthersKeepCache ==
    ASSUME \/ NoHold \/ ArmShow \/ TakeNothing \/ TakeCommand \/ Context
           \/ app_dispatch \/ Revoke \/ Act \/ WindowExpires \/ UNCHANGED vars
    PROVE  /\ UNCHANGED <<cached_sig_P, cached_transcript, m3_cached, deferredBy>>
           /\ UNCHANGED <<cpc, peer, session, raced>>
BY DEF NoHold, ArmShow, TakeNothing, TakeCommand, Context, app_dispatch, Revoke,
       Act, WindowExpires, vars

\* The signature changes with deferredBy, and an arming zeroizes it.
LEMMA StepSigInv ==
    ASSUME TypeOK, SigInv, [Next]_vars
    PROVE  SigInv'
<1> USE DEF SigInv
<1>1. CASE CommTask
  <2>1. apc' = apc
    BY <1>1, CommKeepsWindow
  <2>2. CASE M3CacheSig
    BY <2>2 DEF M3CacheSig
  <2>3. CASE ~M3CacheSig
    <3>1. UNCHANGED <<cached_sig_P, deferredBy>>
      BY <1>1, <2>3
         DEF CommTask, Handshake, CommTaskStops, M3Window, M3CacheTranscript,
             M3Cached, M3Resolve, Payload, ReplyTimeout, SessionEnds
    <3> QED
      BY <2>1, <3>1
  <2> QED
    BY <2>2, <2>3
<1>2. CASE ButtonHeld
  BY <1>2 DEF ButtonHeld
<1>3. CASE ArmWindow
  BY <1>3 DEF ArmWindow, NoSig
<1>4. CASE Reply
  BY <1>4 DEF Reply
<1>5. CASE \/ NoHold \/ ArmShow \/ TakeNothing \/ TakeCommand \/ Context
           \/ app_dispatch \/ Revoke \/ Act \/ WindowExpires \/ UNCHANGED vars
  <2>1. apc' # apc => apc \notin {"arm_flag", "arm_deadline", "arm_uncache", "arm_sig"}
    BY <1>5 DEF NoHold, ArmShow, TakeNothing, TakeCommand, Context, app_dispatch,
                Revoke, Act, WindowExpires, vars
  <2> QED
    BY <1>5, <2>1, OthersKeepCache
<1> QED
  BY <1>1, <1>2, <1>3, <1>4, <1>5 DEF Next, AppTask

\* Every step keeps the cache whole or is recorded as a race.
LEMMA StepWholeInv ==
    ASSUME ProvisioningInv, WholeInv, [Next]_vars
    PROVE  WholeInv'
<1> USE DEF WholeInv, CachedSoFar, session_provision_verify_identity
<1>1. ASSUME NEW p \in Phones, Handshake(p)
      PROVE  WholeInv'
  BY <1>1 DEF Handshake
<1>2. CASE M3Window
  BY <1>2 DEF M3Window
<1>3. CASE M3CacheSig
  BY <1>3 DEF M3CacheSig
<1>4. CASE M3CacheTranscript
  BY <1>4 DEF M3CacheTranscript
<1>5. CASE M3Cached
  BY <1>5 DEF M3Cached, Establish
<1>6. CASE M3Resolve
  BY <1>6 DEF M3Resolve, Establish
<1>7. ASSUME NEW op \in Ops, NEW k \in Phones, NEW s \in 0 .. MaxArmings,
             Payload(op, k, s)
      PROVE  WholeInv'
  BY <1>7 DEF Payload
<1>8. CASE CommTaskStops \/ ReplyTimeout \/ SessionEnds
  BY <1>8 DEF CommTaskStops, ReplyTimeout, SessionEnds
<1>9. CASE ButtonHeld
  BY <1>9 DEF ButtonHeld
<1>10. CASE ArmWindow
  BY <1>10 DEF ArmWindow
<1>11. CASE Reply
  <2>1. command # NoCommand => cpc = "wait"
    BY DEF ProvisioningInv, PendingWhileWaiting
  <2> QED
    BY <1>11, <2>1 DEF Reply
<1>12. CASE ArmShow
  BY <1>12 DEF ArmShow
<1>13. CASE \/ NoHold \/ TakeNothing \/ TakeCommand \/ Context
            \/ app_dispatch \/ Revoke \/ Act \/ WindowExpires \/ UNCHANGED vars
  <2>1. apc' \in ArmPcs <=> apc \in ArmPcs
    BY <1>13 DEF NoHold, TakeNothing, TakeCommand, Context, app_dispatch, Revoke,
                 Act, WindowExpires, vars
  <2> QED
    BY <1>13, <2>1, OthersKeepCache
<1> QED
  BY <1>1, <1>2, <1>3, <1>4, <1>5, <1>6, <1>7, <1>8, <1>9, <1>10, <1>11, <1>12,
     <1>13 DEF Next, CommTask, AppTask

\* The phone that used the window can be identified by provision_mgr.c, unless an
\* M3 fell between the stores of the arming.
THEOREM CachedM3IsWhole == Spec => []CacheIsWhole
<1>1. Init => ProvisioningInv /\ WholeInv
  BY InitProvisioningInv DEF Init, WholeInv, CachedSoFar
<1>2. ProvisioningInv /\ WholeInv /\ [Next]_vars => (ProvisioningInv /\ WholeInv)'
  BY StepProvisioningInv, StepWholeInv
<1>3. WholeInv => CacheIsWhole
  BY DEF WholeInv, CachedSoFar, CacheIsWhole
<1> QED
  BY <1>1, <1>2, <1>3, PTL DEF Spec

\* "Only if BOTH (1) and (2) succeed: add claimed_pubkey" (master doc, 11.2),
\* whatever falls between the stores of an arming: a key enters the store only
\* for the secret on the display, while the window is open, and for the phone
\* whose M3 was cached since the button was held.
THEOREM CommittedKeysAreSigned == Spec => CommittedKeySigned
<1>1. Init => ProvisioningInv /\ SigInv
  BY InitProvisioningInv DEF Init, SigInv, NoSig
<1>2. ProvisioningInv /\ SigInv /\ [Next]_vars => (ProvisioningInv /\ SigInv)'
  BY StepProvisioningInv, StepSigInv DEF ProvisioningInv
<1>3. ProvisioningInv /\ SigInv /\ [Next]_vars => [CommitSigned]_vars
  <2> SUFFICES ASSUME ProvisioningInv, SigInv, [Next]_vars,
                      NEW k \in store' \ store
               PROVE  k = deferredBy /\ cmd.secret = s_secret /\ qr = s_secret
                      /\ Active
    BY DEF CommitSigned
  <2>1. app_dispatch
    <3>1. ~(CommTask \/ WindowExpires \/ UNCHANGED vars)
      BY CommKeepsWindow
    <3>2. ~(\/ NoHold \/ ButtonHeld \/ ArmWindow \/ ArmShow \/ TakeNothing
            \/ TakeCommand \/ Context \/ Revoke \/ Reply \/ Act)
      BY DEF NoHold, ButtonHeld, ArmWindow, ArmShow, TakeNothing, TakeCommand,
             Context, Revoke, Reply, Act
    <3> QED
      BY <3>1, <3>2 DEF Next, AppTask
  <2>2. /\ apc = "dispatch" /\ Active /\ cmd.op = "PROVISION"
        /\ cmd.secret = s_secret
        /\ session_provision_verify_identity(cmd.key)
        /\ store' = store \cup {cmd.key}
    BY <2>1 DEF app_dispatch, provision_mgr_handle_cmd
  <2>3. k = cmd.key /\ cmd.key = cached_sig_P.by
    BY <2>2 DEF session_provision_verify_identity
  <2>4. cmd.key \in Phones
    BY <2>2 DEF ProvisioningInv, TypeOK, Command, NoCommand
  <2>5. k = deferredBy
    BY <2>2, <2>3, <2>4, ProvisioningAssumption DEF SigInv
  <2>6. qr = s_secret
    BY <2>2 DEF ProvisioningInv, SecretShownWhileActive, Active
  <2> QED
    BY <2>2, <2>5, <2>6
<1> QED
  BY <1>1, <1>2, <1>3, PTL DEF Spec, CommittedKeySigned

=============================================================================
