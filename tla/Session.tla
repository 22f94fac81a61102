------------------------------ MODULE Session -------------------------------
(***************************************************************************)
(* The session layer (components/session/src/session.c): the stage of the  *)
(* mutual-authentication handshake, the key material that exists in each   *)
(* stage, the provisioning window that lets one M3 through unverified, and *)
(* the lifecycle callbacks into comm_module.c.                             *)
(*                                                                         *)
(* Every operation is an action on the session's variables; its result is  *)
(* "OK" or "ERR".  The transport layer (module Transport) calls them.      *)
(* Cryptography is abstracted to its verdicts.                             *)
(***************************************************************************)
EXTENDS Integers

VARIABLES
    stage,               \* session_t.stage
    secrets,             \* which secrets are not zeroized
    provisioning_armed,  \* session_t.provisioning_armed
    window_open,         \* provisioning_deadline_us has not passed
    m3_cached,           \* session_t.m3_cached
    g_session_active,    \* comm_module.c
    deferrals            \* history: M3s let through unverified since arming

sessionVars ==
    <<stage, secrets, provisioning_armed, window_open, m3_cached,
      g_session_active, deferrals>>

windowVars == <<provisioning_armed, window_open, m3_cached, deferrals>>

Stages  == {"EMPTY", "EPHEMERAL", "ESTABLISHED"}
Secrets == {"ephemeral", "directional"}

SessionInit ==
    /\ stage = "EMPTY"
    /\ secrets = {}
    /\ provisioning_armed = FALSE
    /\ window_open = FALSE
    /\ m3_cached = FALSE
    /\ g_session_active = FALSE
    /\ deferrals = 0

-----------------------------------------------------------------------------

\* comm_on_terminated, which session_on_erase calls (twice, to the same effect on
\* the flag; module Mailbox has what it does to the Application task).
Terminate ==
    g_session_active' = IF stage = "ESTABLISHED" THEN FALSE ELSE g_session_active

\* An erase that forgets the directional keys.
session_on_erase_KeepsKeys ==
    /\ Terminate
    /\ stage' = "EMPTY"
    /\ secrets' = secrets \ {"ephemeral"}
    /\ UNCHANGED windowVars

\* The provisioning state survives an erase on purpose.
session_on_erase ==
    /\ Terminate
    /\ stage' = "EMPTY"
    /\ secrets' = {}
    /\ UNCHANGED windowVars

\* An M1 that is answered although the signature could not be made.
session_handle_m1_Unsigned(result) ==
    \/ result = "ERR" /\ UNCHANGED sessionVars
    \/ session_on_erase
    \/ /\ result = "OK"
       /\ Terminate
       /\ stage' = "EPHEMERAL"
       /\ secrets' = {"ephemeral"}
       /\ UNCHANGED windowVars

\* A fresh M1 begins with session_on_erase.
session_handle_m1(result) ==
    \/ \* wrong length, or the all-zero point
       /\ result = "ERR"
       /\ UNCHANGED sessionVars
    \/ \* the signature could not be made
       /\ result = "ERR"
       /\ session_on_erase
    \/ /\ result = "OK"
       /\ Terminate
       /\ stage' = "EPHEMERAL"
       /\ secrets' = {"ephemeral"}
       /\ UNCHANGED windowVars

\* The armed window is consumed by the first M3, in time or not; in time, that
\* M3 is cached for session_provision_verify_identity.
ConsumeWindow ==
    /\ provisioning_armed' = FALSE
    /\ m3_cached' = (m3_cached \/ (provisioning_armed /\ window_open))
    /\ deferrals' = IF provisioning_armed /\ window_open THEN deferrals + 1
                                                         ELSE deferrals
    /\ UNCHANGED window_open

\* known: does the key resolver (module KeyResolver) find the signer?
session_handle_m3(known, result) ==
    \/ \* out of sequence, or the wrong length
       /\ result = "ERR"
       /\ UNCHANGED sessionVars
    \/ \* no candidate verified the signature, or a low-order shared secret
       /\ stage = "EPHEMERAL"
       /\ result = "ERR"
       /\ ConsumeWindow
       /\ UNCHANGED <<stage, secrets, g_session_active>>
    \/ /\ stage = "EPHEMERAL"
       /\ known \/ (provisioning_armed /\ window_open)
       /\ ConsumeWindow
       /\ \/ \* the key derivation failed: session_on_erase
             /\ result = "ERR"
             /\ stage' = "EMPTY"
             /\ secrets' = {}
             /\ UNCHANGED g_session_active
          \/ \* comm_on_established
             /\ result = "OK"
             /\ stage' = "ESTABLISHED"
             /\ secrets' = Secrets
             /\ g_session_active' = TRUE

\* The tag is verified, the Application answers (module Mailbox), the answer is
\* sealed.  Nothing of the session changes; after an error the transport erases.
session_handle_secure_payload(result) ==
    /\ result = "OK" => stage = "ESTABLISHED"
    /\ UNCHANGED sessionVars

session_on_apdu(command, result) ==
    \/ command = "M1" /\ session_handle_m1(result)
    \/ command = "M3" /\ \E known \in BOOLEAN : session_handle_m3(known, result)
    \/ command = "PAYLOAD" /\ session_handle_secure_payload(result)

-----------------------------------------------------------------------------
(***************************************************************************)
(* Called by the Application task                                          *)
(***************************************************************************)

session_arm_provisioning_window ==
    /\ provisioning_armed' = TRUE
    /\ window_open' = TRUE
    /\ m3_cached' = FALSE
    /\ deferrals' = 0
    /\ UNCHANGED <<stage, secrets, g_session_active>>

WindowExpires ==
    /\ window_open
    /\ window_open' = FALSE
    /\ UNCHANGED <<stage, secrets, provisioning_armed, m3_cached,
                   g_session_active, deferrals>>

SessionTypeOK ==
    /\ stage \in Stages
    /\ secrets \subseteq Secrets
    /\ provisioning_armed \in BOOLEAN
    /\ window_open \in BOOLEAN
    /\ m3_cached \in BOOLEAN
    /\ g_session_active \in BOOLEAN
    /\ deferrals \in Nat

=============================================================================
