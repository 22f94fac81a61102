---------------------------- MODULE Provisioning -----------------------------
(***************************************************************************)
(* How a new phone gets its key into the lock, and who may command it: the *)
(* Application task (app_task, app_dispatch.c, provision_mgr.c) and the    *)
(* comm task with the window of session.c, which lets one M3 through       *)
(* unverified.  The two tasks share the window without a lock: each store  *)
(* of session_arm_provisioning_window and each store of the M3 handler's   *)
(* cache is a step.                                                        *)
(*                                                                         *)
(* A phone is its long-term key; a transcript is the number of its         *)
(* handshake, a signature the pair of both; a secret is the number of the  *)
(* arming that drew it.  The key store is the set that module KeySet       *)
(* describes.  Of the transport only that handshakes follow one another    *)
(* and that a session may end whenever no command is being answered.       *)
(***************************************************************************)
EXTENDS Integers

CONSTANTS
    Phones,       \* their long-term keys
    NoPhone,      \* nobody
    MaxSessions,  \* bound on the handshakes
    MaxArmings    \* bound on the armings

ASSUME ProvisioningAssumption ==
    /\ NoPhone \notin Phones
    /\ MaxSessions \in Nat /\ MaxArmings \in Nat

VARIABLES
    \* provision_mgr.c: s_active, whether s_deadline_us is ahead, s_secret; what
    \* the display shows (0: no QR code)
    s_active, s_open, s_secret, qr,
    \* session.c: the armed window and the cached M3
    provisioning_armed, window_open, m3_cached, cached_sig_P, cached_transcript,
    \* comm task: its place, the present handshake, the flags of comm_module.c
    cpc, session, peer, g_session_active, g_stop_requested,
    \* the mailbox: the pending command, or NoCommand when command_valid is false
    command,
    \* Application task: its place, and while it handles one the copy of the
    \* command and the dispatch context
    apc, cmd, dctx,
    store,      \* the key store
    verified,   \* history: did the resolver find the present peer's key?
    deferredBy, \* history: the last phone whose M3 was cached since the hold
    raced,      \* history: did an M3 use the window while it was being armed?
    tries       \* history: secrets compared since the last arming

mgrVars    == <<s_active, s_open, s_secret, qr>>
windowVars == <<provisioning_armed, window_open, m3_cached, cached_sig_P,
                cached_transcript>>
commVars   == <<cpc, session, peer, g_session_active>>
appVars    == <<apc, cmd, dctx>>
histVars   == <<verified, deferredBy, raced, tries>>
vars == <<mgrVars, windowVars, commVars, g_stop_requested, command,
          appVars, store, histVars>>

\* INVALID: an unknown opcode or a wrong length.  SHORT_PROVISION: CMD_PROVISION
\* of a wrong length.  CMD_LOCK is treated as CMD_UNLOCK is.
Ops == {"UNLOCK", "GET_STATUS", "REVOKE_KEY", "PROVISION", "SHORT_PROVISION",
        "INVALID"}

\* verified: history, whether the sender was verified in its handshake
Command == [op : Ops, key : Phones, secret : 0 .. MaxArmings, verified : BOOLEAN]

NoCommand == [op |-> "NONE"]
NoContext == [ready |-> FALSE, session_authorized |-> FALSE,
              provisioning_active |-> FALSE]

NoSig == [by |-> NoPhone, transcript |-> 0]   \* zeroized bytes

ArmPcs == {"arm_flag", "arm_deadline", "arm_uncache", "arm_sig",
           "arm_transcript", "arm_show"}
M3Pcs  == {"m3_sig", "m3_transcript", "m3_cached"}

-----------------------------------------------------------------------------
(***************************************************************************)
(* The comm task: handshakes and payloads                                  *)
(***************************************************************************)

\* M1 and M2; comm_task_fn looks at the stop flag before every run.
Handshake(p) ==
    /\ cpc = "idle" /\ ~g_stop_requested
    /\ session < MaxSessions
    /\ session' = session + 1
    /\ peer' = p
    /\ cpc' = "m3"
    /\ UNCHANGED <<mgrVars, windowVars, g_session_active, g_stop_requested,
                   command, appVars, store, histVars>>

CommTaskStops ==
    /\ cpc = "idle" /\ g_stop_requested
    /\ cpc' = "gone"
    /\ UNCHANGED <<mgrVars, windowVars, session, peer, g_session_active,
                   g_stop_requested, command, appVars, store, histVars>>

\* session_handle_m3: an armed window is consumed, in time or not.
M3Window ==
    /\ cpc = "m3"
    /\ provisioning_armed' = FALSE
    /\ cpc' = IF provisioning_armed /\ window_open THEN "m3_sig" ELSE "m3_resolve"
    /\ raced' = (raced \/ (provisioning_armed /\ apc \in ArmPcs))
    /\ UNCHANGED <<mgrVars, window_open, m3_cached, cached_sig_P,
                   cached_transcript, session, peer, g_session_active,
                   g_stop_requested, command, appVars, store, verified,
                   deferredBy, tries>>

M3CacheSig ==
    /\ cpc = "m3_sig"
    /\ cached_sig_P' = [by |-> peer, transcript |-> session]
    /\ deferredBy' = peer
    /\ cpc' = "m3_transcript"
    /\ UNCHANGED <<mgrVars, provisioning_armed, window_open, m3_cached,
                   cached_transcript, session, peer, g_session_active,
                   g_stop_requested, command, appVars, store, verified, raced,
                   tries>>

M3CacheTranscript ==
    /\ cpc = "m3_transcript"
    /\ cached_transcript' = session
    /\ cpc' = "m3_cached"
    /\ UNCHANGED <<mgrVars, provisioning_armed, window_open, m3_cached,
                   cached_sig_P, session, peer, g_session_active,
                   g_stop_requested, command, appVars, store, histVars>>

\* The peer counts as authenticated: the keys are derived, comm_on_established.
\* A low-order shared secret or a failed derivation still ends the session.
Establish(wasVerified) ==
    \/ /\ cpc' = "established"
       /\ g_session_active' = TRUE
       /\ verified' = wasVerified
       /\ UNCHANGED peer
    \/ /\ cpc' = "idle"
       /\ peer' = NoPhone
       /\ UNCHANGED <<g_session_active, verified>>

\* An M3 that is let through without being cached.
M3Cached_Forgotten ==
    /\ cpc = "m3_cached"
    /\ Establish(FALSE)
    /\ UNCHANGED <<mgrVars, windowVars, session, g_stop_requested, command,
                   appVars, store, deferredBy, raced, tries>>

M3Cached ==
    /\ cpc = "m3_cached"
    /\ m3_cached' = TRUE
    /\ Establish(FALSE)
    /\ UNCHANGED <<mgrVars, provisioning_armed, window_open, cached_sig_P,
                   cached_transcript, session, g_stop_requested, command,
                   appVars, store, deferredBy, raced, tries>>

\* The resolver (module KeyResolver) finds the signer's key, or it does not.
M3Resolve ==
    /\ cpc = "m3_resolve"
    /\ IF peer \in store
       THEN Establish(TRUE)
       ELSE /\ cpc' = "idle"
            /\ peer' = NoPhone
            /\ UNCHANGED <<g_session_active, verified>>
    /\ UNCHANGED <<mgrVars, windowVars, session, g_stop_requested, command,
                   appVars, store, deferredBy, raced, tries>>

\* A payload is handed to the Application.  A phone knows the secrets that were
\* shown so far.
Payload(op, k, s) ==
    /\ cpc = "established"
    /\ s <= s_secret
    /\ op # "PROVISION" => s = 0
    /\ op \notin {"PROVISION", "REVOKE_KEY"} => k = peer
    /\ command' = [op |-> op, key |-> k, secret |-> s, verified |-> verified]
    /\ cpc' = "wait"
    /\ UNCHANGED <<mgrVars, windowVars, session, peer, g_session_active,
                   g_stop_requested, appVars, store, histVars>>

\* app_response_timeout_ms pass without an answer.
ReplyTimeout ==
    /\ cpc = "wait"
    /\ command' = NoCommand
    /\ cpc' = "established"
    /\ UNCHANGED <<mgrVars, windowVars, session, peer, g_session_active,
                   g_stop_requested, appVars, store, histVars>>

\* session_on_erase, for whatever reason; the window and the cache stay.
SessionEnds ==
    /\ cpc \in {"m3", "established"}
    /\ cpc' = "idle"
    /\ peer' = NoPhone
    /\ g_session_active' = FALSE
    /\ verified' = FALSE
    /\ UNCHANGED <<mgrVars, windowVars, session, g_stop_requested, command,
                   appVars, store, deferredBy, raced, tries>>

CommTask ==
    \/ \E p \in Phones : Handshake(p)
    \/ CommTaskStops
    \/ M3Window
    \/ M3CacheSig
    \/ M3CacheTranscript
    \/ M3Cached
    \/ M3Resolve
    \/ \E op \in Ops, k \in Phones, s \in 0 .. MaxArmings : Payload(op, k, s)
    \/ ReplyTimeout
    \/ SessionEnds

-----------------------------------------------------------------------------
(***************************************************************************)
(* provision_mgr.c                                                         *)
(***************************************************************************)

\* A window that closes with the secret still on the display.
disarm_NoClear ==
    /\ s_active' = FALSE
    /\ UNCHANGED <<s_open, s_secret, qr>>

disarm ==
    /\ s_active' = FALSE
    /\ qr' = 0
    /\ UNCHANGED <<s_open, s_secret>>

Active == s_active /\ s_open

\* provision_mgr_is_active closes a window whose time is over.
provision_mgr_is_active ==
    IF s_active /\ ~s_open THEN disarm ELSE UNCHANGED mgrVars

session_provision_verify_identity(k) ==
    /\ m3_cached
    /\ cached_sig_P.by = k
    /\ cached_sig_P.transcript = cached_transcript

\* A handler that only a good attempt makes close the window.
provision_mgr_handle_cmd_Retries ==
    /\ IF Active /\ cmd.op = "PROVISION"
       THEN /\ tries' = tries + 1
            /\ store' \in {store} \cup
                  {store \cup {k} : k \in {j \in {cmd.key} :
                      cmd.secret = s_secret /\ session_provision_verify_identity(j)}}
       ELSE UNCHANGED <<store, tries>>
    /\ IF store' # store THEN disarm ELSE UNCHANGED mgrVars

\* One attempt, good or bad, closes the window: of the right length, with the
\* right secret, and for the key that signed the cached M3.  key_store_add may
\* fail.
provision_mgr_handle_cmd ==
    /\ IF Active /\ cmd.op = "PROVISION"
       THEN /\ tries' = tries + 1
            /\ \/ UNCHANGED store
               \/ /\ cmd.secret = s_secret
                  /\ session_provision_verify_identity(cmd.key)
                  /\ store' = store \cup {cmd.key}
       ELSE UNCHANGED <<store, tries>>
    /\ IF s_active THEN disarm ELSE UNCHANGED mgrVars

provision_mgr_abort ==
    /\ g_stop_requested' = TRUE
    /\ disarm

-----------------------------------------------------------------------------
(***************************************************************************)
(* app_task: the button, then at most one command                          *)
(***************************************************************************)

NoHold ==
    /\ apc = "button"
    /\ apc' = "take"
    /\ UNCHANGED <<mgrVars, windowVars, commVars, g_stop_requested, command,
                   cmd, dctx, store, histVars>>

\* provisioning_button_tick when the button has been held (module ProvisionButton):
\* provision_mgr_arm draws the secret, unless a window is active.
ButtonHeld ==
    /\ apc = "button"
    /\ s_secret < MaxArmings
    /\ IF Active
       THEN apc' = "take" /\ UNCHANGED <<mgrVars, deferredBy, raced, tries>>
       ELSE /\ apc' = "arm_flag"
            /\ s_secret' = s_secret + 1
            /\ s_active' = FALSE
            /\ qr' = 0
            /\ deferredBy' = NoPhone
            /\ raced' = (cpc \in M3Pcs)
            /\ tries' = 0
            /\ UNCHANGED s_open
    /\ UNCHANGED <<windowVars, commVars, g_stop_requested, command, cmd, dctx,
                   store, verified>>

\* An arming that keeps what an earlier window left in the cache.
ArmWindow_KeepsCache ==
    /\ \/ /\ apc = "arm_flag" /\ apc' = "arm_deadline"
          /\ provisioning_armed' = TRUE
          /\ UNCHANGED window_open
       \/ /\ apc = "arm_deadline" /\ apc' = "arm_show"
          /\ window_open' = TRUE
          /\ UNCHANGED provisioning_armed
    /\ UNCHANGED <<mgrVars, m3_cached, cached_sig_P, cached_transcript,
                   commVars, g_stop_requested, command, cmd, dctx, store,
                   histVars>>

\* session_arm_provisioning_window, store by store.
ArmWindow ==
    /\ \/ /\ apc = "arm_flag" /\ apc' = "arm_deadline"
          /\ provisioning_armed' = TRUE
          /\ UNCHANGED <<window_open, m3_cached, cached_sig_P, cached_transcript>>
       \/ /\ apc = "arm_deadline" /\ apc' = "arm_uncache"
          /\ window_open' = TRUE
          /\ UNCHANGED <<provisioning_armed, m3_cached, cached_sig_P,
                         cached_transcript>>
       \/ /\ apc = "arm_uncache" /\ apc' = "arm_sig"
          /\ m3_cached' = FALSE
          /\ UNCHANGED <<provisioning_armed, window_open, cached_sig_P,
                         cached_transcript>>
       \/ /\ apc = "arm_sig" /\ apc' = "arm_transcript"
          /\ cached_sig_P' = NoSig
          /\ UNCHANGED <<provisioning_armed, window_open, m3_cached,
                         cached_transcript>>
       \/ /\ apc = "arm_transcript" /\ apc' = "arm_show"
          /\ cached_transcript' = 0
          /\ UNCHANGED <<provisioning_armed, window_open, m3_cached,
                         cached_sig_P>>
    /\ UNCHANGED <<mgrVars, commVars, g_stop_requested, command, cmd, dctx,
                   store, histVars>>

\* The rest of provision_mgr_arm.
ArmShow ==
    /\ apc = "arm_show"
    /\ s_active' = TRUE
    /\ s_open' = TRUE
    /\ qr' = s_secret
    /\ apc' = "take"
    /\ UNCHANGED <<s_secret, windowVars, commVars, g_stop_requested, command,
                   cmd, dctx, store, histVars>>

TakeNothing ==
    /\ apc = "take" /\ command = NoCommand
    /\ apc' = "button"
    /\ UNCHANGED <<mgrVars, windowVars, commVars, g_stop_requested, command,
                   cmd, dctx, store, histVars>>

\* comm_module_get_command
TakeCommand ==
    /\ apc = "take" /\ command # NoCommand
    /\ cmd' = command
    /\ apc' = "context"
    /\ UNCHANGED <<mgrVars, windowVars, commVars, g_stop_requested, command,
                   dctx, store, histVars>>

\* The dispatch context.  The bolt (module Actuation) may be ready to move.
Context ==
    /\ apc = "context"
    /\ \E ready \in BOOLEAN :
          dctx' = [ready               |-> ready,
                   session_authorized  |-> g_session_active,
                   provisioning_active |-> Active]
    /\ provision_mgr_is_active
    /\ apc' = "dispatch"
    /\ UNCHANGED <<windowVars, commVars, g_stop_requested, command, cmd, store,
                   histVars>>

\* Does app_dispatch answer OK to a command that then changes something?
Allowed ==
    /\ ~dctx.provisioning_active
    /\ dctx.session_authorized
    /\ \/ cmd.op = "UNLOCK" /\ dctx.ready
       \/ cmd.op = "REVOKE_KEY"

\* A dispatcher that does not look at the window.
app_dispatch_NoWindow ==
    /\ apc = "dispatch"
    /\ apc' = IF dctx.session_authorized /\ dctx.ready /\ cmd.op = "UNLOCK"
              THEN "reply_act" ELSE "reply"
    /\ UNCHANGED <<mgrVars, windowVars, commVars, g_stop_requested, command, cmd,
                   dctx, store, histVars>>

app_dispatch ==
    /\ apc = "dispatch"
    /\ apc' = CASE Allowed /\ cmd.op = "REVOKE_KEY" -> "revoke"
                [] Allowed /\ cmd.op = "UNLOCK"     -> "reply_act"
                [] OTHER                            -> "reply"
    /\ \/ /\ ~dctx.provisioning_active
          /\ UNCHANGED <<mgrVars, g_stop_requested, store, tries>>
       \/ /\ dctx.provisioning_active
          /\ cmd.op \notin {"PROVISION", "SHORT_PROVISION"}
          /\ provision_mgr_abort
          /\ UNCHANGED <<store, tries>>
       \/ /\ dctx.provisioning_active
          /\ cmd.op \in {"PROVISION", "SHORT_PROVISION"}
          /\ provision_mgr_handle_cmd
          /\ UNCHANGED g_stop_requested
    /\ UNCHANGED <<windowVars, commVars, command, cmd, dctx, verified,
                   deferredBy, raced>>

\* key_store_revoke, which may fail or not find the key.
Revoke ==
    /\ apc = "revoke"
    /\ store' \in {store, store \ {cmd.key}}
    /\ apc' = "reply"
    /\ UNCHANGED <<mgrVars, windowVars, commVars, g_stop_requested, command,
                   cmd, dctx, histVars>>

\* comm_module_complete_response (module Mailbox has its races).
Reply ==
    /\ apc \in {"reply", "reply_act"}
    /\ command' = NoCommand
    /\ cpc' = IF command # NoCommand THEN "established" ELSE cpc
    /\ apc' = IF apc = "reply_act" THEN "act" ELSE "button"
    /\ cmd' = IF apc = "reply_act" THEN cmd ELSE NoCommand
    /\ dctx' = NoContext
    /\ UNCHANGED <<mgrVars, windowVars, session, peer, g_session_active,
                   g_stop_requested, store, histVars>>

\* start_actuation (module Actuation)
Act ==
    /\ apc = "act"
    /\ apc' = "button"
    /\ cmd' = NoCommand
    /\ UNCHANGED <<mgrVars, windowVars, commVars, g_stop_requested, command,
                   dctx, store, histVars>>

AppTask ==
    \/ NoHold
    \/ ButtonHeld
    \/ ArmWindow
    \/ ArmShow
    \/ TakeNothing
    \/ TakeCommand
    \/ Context
    \/ app_dispatch
    \/ Revoke
    \/ Reply
    \/ Act

-----------------------------------------------------------------------------
(***************************************************************************)
(* Time, and the specification                                             *)
(***************************************************************************)

\* provisioning_deadline_us is drawn before s_deadline_us, so it passes first.
WindowExpires ==
    /\ \/ window_open /\ window_open' = FALSE /\ UNCHANGED s_open
       \/ ~window_open /\ s_open /\ s_open' = FALSE /\ UNCHANGED window_open
    /\ UNCHANGED <<s_active, s_secret, qr, provisioning_armed, m3_cached,
                   cached_sig_P, cached_transcript, commVars, g_stop_requested,
                   command, appVars, store, histVars>>

Init ==
    /\ s_active = FALSE /\ s_open = FALSE /\ s_secret = 0 /\ qr = 0
    /\ provisioning_armed = FALSE /\ window_open = FALSE /\ m3_cached = FALSE
    /\ cached_sig_P = NoSig /\ cached_transcript = 0
    /\ cpc = "idle" /\ session = 0 /\ peer = NoPhone
    /\ g_session_active = FALSE /\ g_stop_requested = FALSE
    /\ command = NoCommand
    /\ apc = "button" /\ cmd = NoCommand /\ dctx = NoContext
    /\ store \in SUBSET Phones
    /\ verified = FALSE /\ deferredBy = NoPhone /\ raced = FALSE /\ tries = 0

Next == CommTask \/ AppTask \/ WindowExpires

Spec == Init /\ [][Next]_vars

-----------------------------------------------------------------------------
(***************************************************************************)
(* Properties                                                              *)
(***************************************************************************)

\* Every variable stays in its range.
TypeOK ==
    /\ {s_active, s_open, provisioning_armed, window_open, m3_cached,
        g_session_active, g_stop_requested, verified, raced}
          \subseteq BOOLEAN
    /\ s_secret \in 0 .. MaxArmings /\ qr \in 0 .. MaxArmings
    /\ cached_sig_P \in [by : Phones \cup {NoPhone}, transcript : 0 .. MaxSessions]
    /\ cached_transcript \in 0 .. MaxSessions
    /\ cpc \in {"idle", "m3", "m3_resolve", "established", "wait", "gone"} \cup M3Pcs
    /\ session \in 0 .. MaxSessions
    /\ {peer, deferredBy} \subseteq Phones \cup {NoPhone}
    /\ {command, cmd} \subseteq Command \cup {NoCommand}
    /\ apc \in {"button", "take", "context",
                "dispatch", "revoke", "reply", "reply_act", "act"} \cup ArmPcs
    /\ dctx \in [ready : BOOLEAN, session_authorized : BOOLEAN,
                 provisioning_active : BOOLEAN]
    /\ store \subseteq Phones /\ tries \in Nat

\* "Only if BOTH (1) and (2) succeed: add claimed_pubkey" (master doc, 11.2): a
\* key enters the store only for the secret of this arming, while the window is
\* open, and for the phone whose M3 was cached since it was armed, also when an M3
\* falls between the stores of an arming.
CommitSigned ==
    \A k \in store' \ store : /\ k = deferredBy
                              /\ cmd.secret = s_secret /\ qr = s_secret
                              /\ Active

CommittedKeySigned == [][CommitSigned]_vars

\* "The window is single-use: after ONE provision attempt (success or failure) it
\* closes" (provision_mgr.h): at most one secret is compared per arming, however
\* sessions, timeouts and armings follow one another.
OneTryPerArming == tries <= 1

\* The phone that used the window can be identified: as long as no M3 fell
\* between the stores of the arming, the cached signature is its own, whole, and
\* over the transcript that is cached with it.
CacheIsWhole ==
    deferredBy # NoPhone /\ ~raced /\ apc \notin ArmPcs /\ cpc \notin M3Pcs =>
        session_provision_verify_identity(deferredBy)

\* "While Provision Mode is active, the Application Module SHALL accept only
\* CMD_PROVISION" (master doc, 11.2.1): nothing is moved and nothing revoked
\* between an arming and the end of its window.
NothingActsInWindow == apc \in {"revoke", "reply_act", "act"} => ~s_active

\* The secret is on the display exactly while the window is active for the
\* Application.
SecretShownWhileActive == qr = IF s_active THEN s_secret ELSE 0

\* A command is pending exactly while the comm task waits for its answer, and the
\* active flag is that of an open session.
PendingWhileWaiting ==
    /\ (cpc = "wait") <=> (command # NoCommand)
    /\ g_session_active <=> (cpc \in {"established", "wait"})

ProvisioningInv == TypeOK /\ PendingWhileWaiting /\ SecretShownWhileActive

\* "A Provision Session is not a general-purpose authenticated session" (master
\* doc, 11.2.1), "0x02 session key not in key store" (app_cmd.h): a bolt is moved
\* and a key revoked only for a phone that the handshake has verified.
ActsForVerifiedPhone == apc \in {"revoke", "act"} => cmd.verified

=============================================================================
