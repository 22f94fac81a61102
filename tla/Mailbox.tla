------------------------------ MODULE Mailbox -------------------------------
(***************************************************************************)
(* The handoff between the comm task and the Application task              *)
(* (components/comm_module/src/comm_module.c and the app_task loop of      *)
(* components/app_module/src/app_module.c).  They share one mailbox        *)
(* without a lock and wake each other with FreeRTOS task notifications.    *)
(* Each access to the mailbox or to a notification is a step.              *)
(*                                                                         *)
(* A command is identified by its number; the response to it carries that  *)
(* number.  A notification count is a flag, for every take clears it.      *)
(***************************************************************************)
EXTENDS Integers

CONSTANT MaxCommands  \* bound on the commands that phones send

ASSUME MailboxAssumption == MaxCommands \in Nat

VARIABLES
    \* g_mailbox, g_session_active, g_stop_requested
    command, command_valid, response, pending_event,
    g_session_active, g_stop_requested,
    \* the two task notifications
    app_notified, comm_notified,
    \* comm task: program counter, number of commands sent so far
    cpc, sent,
    \* Application task: program counter, its copies of event and command
    apc, ev, cmd,
    \* history: what reached the phone, how often each command was executed,
    \* the last lifecycle event that handle_session_event was given, whether a
    \* wait of app_response_timeout_ms has ever ended without a reply, and whether
    \* the last event came between the read and the clear of the event slot
    delivered, executions, lastSeen, late, overtaken

mailVars == <<command, command_valid, response, pending_event>>
flagVars == <<g_session_active, g_stop_requested>>
noteVars == <<app_notified, comm_notified>>
commVars == <<cpc, sent>>
appVars  == <<apc, ev, cmd>>
histVars == <<delivered, executions, lastSeen, late, overtaken>>
vars == <<mailVars, flagVars, noteVars, commVars, appVars, histVars>>

Commands == 1 .. MaxCommands
None     == 0                  \* no command, no response
Torn     == MaxCommands + 1    \* bytes of two commands mixed by a copy
Empty    == MaxCommands + 2    \* the reply after a timeout: no bytes

Events == {"NONE", "STARTED", "ENDED"}

\* The comm task is inside a lifecycle callback.
CallbackPcs == {"est_event", "est_notify", "term_event", "term_notify",
                "again_flag", "again_event", "again_notify"}

-----------------------------------------------------------------------------
(***************************************************************************)
(* The comm task: "top" is the test of comm_task_fn's loop, "run" the time *)
(* transport_run_session spends without an established session.            *)
(***************************************************************************)

\* The stop flag is only looked at between two runs.
RunSession ==
    /\ cpc = "top"
    /\ ~g_stop_requested
    /\ cpc' = "run"
    /\ UNCHANGED <<mailVars, flagVars, noteVars, sent, appVars, histVars>>

\* The three writes of a lifecycle callback: g_session_active, the event, the
\* notification.
CallbackFlag(active) ==
    /\ g_session_active' = active
    /\ UNCHANGED <<pending_event, app_notified, overtaken>>

CallbackEvent(event) ==
    /\ pending_event' = event
    /\ overtaken' = (apc = "clear_event")
    /\ UNCHANGED <<g_session_active, app_notified>>

CallbackNotify ==
    /\ app_notified' = TRUE
    /\ UNCHANGED <<g_session_active, pending_event, overtaken>>

\* A callback that wakes the Application before the event is in its slot.
comm_on_established_EventLast ==
    /\ \/ cpc = "run" /\ cpc' = "est_event" /\ CallbackFlag(TRUE)
       \/ cpc = "est_event" /\ cpc' = "est_notify" /\ CallbackNotify
       \/ cpc = "est_notify" /\ cpc' = "session" /\ CallbackEvent("STARTED")
    /\ UNCHANGED <<command, command_valid, response, g_stop_requested,
                   comm_notified, sent, appVars, delivered, executions,
                   lastSeen, late>>

comm_on_established ==
    /\ \/ cpc = "run" /\ cpc' = "est_event" /\ CallbackFlag(TRUE)
       \/ cpc = "est_event" /\ cpc' = "est_notify" /\ CallbackEvent("STARTED")
       \/ cpc = "est_notify" /\ cpc' = "session" /\ CallbackNotify
    /\ UNCHANGED <<command, command_valid, response, g_stop_requested,
                   comm_notified, sent, appVars, delivered, executions,
                   lastSeen, late>>

\* transport_run_session returns without a termination event: no session was
\* established, or a fatal bus error ended it (which skips the erase).
RunReturns ==
    /\ cpc \in {"run", "session"}
    /\ cpc' = "top"
    /\ UNCHANGED <<mailVars, flagVars, noteVars, sent, appVars, histVars>>

\* session_on_erase calls this twice for an established session.
comm_on_terminated ==
    /\ \/ cpc = "session" /\ cpc' = "term_event" /\ CallbackFlag(FALSE)
       \/ cpc = "term_event" /\ cpc' = "term_notify" /\ CallbackEvent("ENDED")
       \/ cpc = "term_notify" /\ cpc' = "again_flag" /\ CallbackNotify
       \/ cpc = "again_flag" /\ cpc' = "again_event" /\ CallbackFlag(FALSE)
       \/ cpc = "again_event" /\ cpc' = "again_notify" /\ CallbackEvent("ENDED")
       \/ cpc = "again_notify" /\ cpc' = "top" /\ CallbackNotify
    /\ UNCHANGED <<command, command_valid, response, g_stop_requested,
                   comm_notified, sent, appVars, delivered, executions,
                   lastSeen, late>>

\* comm_dispatch_via_mailbox, the copy into the mailbox ...
DispatchWrite ==
    /\ cpc = "session"
    /\ sent < MaxCommands
    /\ sent' = sent + 1
    /\ command' = sent + 1
    /\ cpc' = "write"
    /\ UNCHANGED <<command_valid, response, pending_event, flagVars, noteVars,
                   appVars, histVars>>

DispatchPublish ==
    /\ cpc = "write"
    /\ command_valid' = TRUE
    /\ cpc' = "notify"
    /\ UNCHANGED <<command, response, pending_event, flagVars, noteVars, sent,
                   appVars, histVars>>

DispatchNotify ==
    /\ cpc = "notify"
    /\ app_notified' = TRUE
    /\ cpc' = "wait"
    /\ UNCHANGED <<mailVars, flagVars, comm_notified, sent, appVars, histVars>>

\* ... the bounded wait ...
DispatchTake ==
    /\ cpc = "wait"
    /\ comm_notified
    /\ comm_notified' = FALSE
    /\ cpc' = "copy"
    /\ UNCHANGED <<mailVars, flagVars, app_notified, sent, appVars, histVars>>

DispatchTimeout ==
    /\ cpc = "wait"
    /\ ~comm_notified
    /\ cpc' = "withdraw"
    /\ late' = TRUE
    /\ UNCHANGED <<mailVars, flagVars, noteVars, sent, appVars, delivered,
                   executions, lastSeen, overtaken>>

\* ... and its two ends.
DispatchWithdraw ==
    /\ cpc = "withdraw"
    /\ command_valid' = FALSE
    /\ delivered' = [delivered EXCEPT ![sent] = Empty]
    /\ cpc' = "session"
    /\ UNCHANGED <<command, response, pending_event, flagVars, noteVars, sent,
                   appVars, executions, lastSeen, late, overtaken>>

\* A copy that runs while the Application task writes the response mixes both.
DispatchCopy ==
    /\ cpc = "copy"
    /\ \E bytes \in {response} \cup (IF apc = "respond" THEN {Torn} ELSE {}) :
          delivered' = [delivered EXCEPT ![sent] = bytes]
    /\ cpc' = "session"
    /\ UNCHANGED <<mailVars, flagVars, noteVars, sent, appVars, executions,
                   lastSeen, late, overtaken>>

\* A comm task that leaves in the middle of a dispatch.
CommTaskExit_Eager ==
    /\ cpc \in {"top", "wait"}
    /\ cpc' = "gone"
    /\ UNCHANGED <<mailVars, flagVars, noteVars, sent, appVars, histVars>>

\* comm_task_fn leaves its loop, stopped or after COMM_FATAL_RETRY_LIMIT fatal
\* bus errors: g_comm_task = NULL, vTaskDelete.
CommTaskExit ==
    /\ cpc = "top"
    /\ cpc' = "gone"
    /\ UNCHANGED <<mailVars, flagVars, noteVars, sent, appVars, histVars>>

CommTask ==
    \/ RunSession
    \/ RunReturns
    \/ comm_on_established
    \/ comm_on_terminated
    \/ DispatchWrite
    \/ DispatchPublish
    \/ DispatchNotify
    \/ DispatchTake
    \/ DispatchTimeout
    \/ DispatchWithdraw
    \/ DispatchCopy
    \/ CommTaskExit

-----------------------------------------------------------------------------
(***************************************************************************)
(* The Application task: one wake of the app_task loop                     *)
(***************************************************************************)

AppTake ==
    /\ apc = "loop"
    /\ app_notified
    /\ app_notified' = FALSE
    /\ apc' = "poll"
    /\ UNCHANGED <<mailVars, flagVars, comm_notified, commVars, ev, cmd,
                   histVars>>

\* comm_module_poll_event reads the event ...
PollRead ==
    /\ apc = "poll"
    /\ ev' = pending_event
    /\ apc' = "clear_event"
    /\ UNCHANGED <<mailVars, flagVars, noteVars, commVars, cmd, histVars>>

\* An Application that takes one item per notification.
PollClear_OneItem ==
    /\ apc = "clear_event"
    /\ pending_event' = "NONE"
    /\ lastSeen' = IF ev = "NONE" THEN lastSeen ELSE ev
    /\ apc' = IF ev = "NONE" THEN "has" ELSE "loop"
    /\ ev' = "NONE"
    /\ UNCHANGED <<command, command_valid, response, flagVars, noteVars,
                   commVars, cmd, delivered, executions, late, overtaken>>

\* ... then clears it, and handle_session_event gets what was read.
PollClear ==
    /\ apc = "clear_event"
    /\ pending_event' = "NONE"
    /\ lastSeen' = IF ev = "NONE" THEN lastSeen ELSE ev
    /\ apc' = "has"
    /\ ev' = "NONE"
    /\ UNCHANGED <<command, command_valid, response, flagVars, noteVars,
                   commVars, cmd, delivered, executions, late, overtaken>>

\* comm_module_has_command, and the same test again in comm_module_get_command.
HasCommand ==
    /\ apc \in {"has", "get"}
    /\ apc' = IF ~command_valid THEN "loop"
              ELSE IF apc = "has" THEN "get" ELSE "copy"
    /\ UNCHANGED <<mailVars, flagVars, noteVars, commVars, ev, cmd, histVars>>

\* The memcpy of comm_module_get_command; it runs into the next command when
\* the comm task is writing it.
GetCommand ==
    /\ apc = "copy"
    /\ cmd' \in {command} \cup (IF cpc = "write" THEN {Torn} ELSE {})
    /\ apc' = "dispatch"
    /\ UNCHANGED <<mailVars, flagVars, noteVars, commVars, ev, histVars>>

\* app_dispatch; one of its outcomes, a foreign command while provisioning,
\* calls comm_module_force_abort.
Dispatch ==
    /\ apc = "dispatch"
    /\ executions' = IF cmd \in Commands
                     THEN [executions EXCEPT ![cmd] = @ + 1]
                     ELSE executions
    /\ g_stop_requested' \in {g_stop_requested, TRUE}
    /\ apc' = "pending"
    /\ UNCHANGED <<mailVars, g_session_active, noteVars, commVars, ev, cmd,
                   delivered, lastSeen, late, overtaken>>

\* comm_module_complete_response: is the command still pending?
CompleteCheck ==
    /\ apc = "pending"
    /\ apc' = IF command_valid THEN "clear" ELSE "loop"
    /\ UNCHANGED <<mailVars, flagVars, noteVars, commVars, ev, cmd, histVars>>

\* A completion that leaves the command pending.
CompleteClear_Kept ==
    /\ apc = "clear"
    /\ apc' = "respond"
    /\ UNCHANGED <<mailVars, flagVars, noteVars, commVars, ev, cmd, histVars>>

\* A completion that wakes the comm task before the response is in place.
CompleteClear_NotifyFirst ==
    /\ apc = "clear"
    /\ command_valid' = FALSE
    /\ comm_notified' = TRUE
    /\ apc' = "respond"
    /\ UNCHANGED <<command, response, pending_event, flagVars, app_notified,
                   commVars, ev, cmd, histVars>>

CompleteClear ==
    /\ apc = "clear"
    /\ command_valid' = FALSE
    /\ apc' = "respond"
    /\ UNCHANGED <<command, response, pending_event, flagVars, noteVars,
                   commVars, ev, cmd, histVars>>

CompleteRespond ==
    /\ apc = "respond"
    /\ response' = cmd
    /\ apc' = "give"
    /\ UNCHANGED <<command, command_valid, pending_event, flagVars, noteVars,
                   commVars, ev, cmd, histVars>>

CompleteNotify ==
    /\ apc = "give"
    /\ comm_notified' = TRUE
    /\ cmd' = None
    /\ apc' = "loop"
    /\ UNCHANGED <<mailVars, flagVars, app_notified, commVars, ev, histVars>>

AppTask ==
    \/ AppTake
    \/ PollRead
    \/ PollClear
    \/ HasCommand
    \/ GetCommand
    \/ Dispatch
    \/ CompleteCheck
    \/ CompleteClear
    \/ CompleteRespond
    \/ CompleteNotify

-----------------------------------------------------------------------------

Init ==
    /\ command = None /\ command_valid = FALSE /\ response = None
    /\ pending_event = "NONE"
    /\ g_session_active = FALSE /\ g_stop_requested = FALSE
    /\ app_notified = FALSE /\ comm_notified = FALSE
    /\ cpc = "top" /\ sent = 0
    /\ apc = "loop" /\ ev = "NONE" /\ cmd = None
    /\ delivered = [n \in Commands |-> None]
    /\ executions = [n \in Commands |-> 0]
    /\ lastSeen = "NONE"
    /\ late = FALSE
    /\ overtaken = FALSE

Next == CommTask \/ AppTask

Spec == Init /\ [][Next]_vars

\* Both tasks run at the same priority on a time-slicing scheduler; phones come
\* and go as they like, so nothing is assumed of sessions and commands.
Fairness ==
    /\ WF_vars(AppTask)
    /\ WF_vars(DispatchPublish)
    /\ WF_vars(DispatchNotify)
    /\ WF_vars(DispatchTake)
    /\ WF_vars(DispatchWithdraw)
    /\ WF_vars(DispatchCopy)

FairSpec == Spec /\ Fairness

-----------------------------------------------------------------------------
(***************************************************************************)
(* Properties                                                              *)
(***************************************************************************)

\* Every variable stays in its range.
TypeOK ==
    /\ {command_valid, g_session_active, g_stop_requested, app_notified,
        comm_notified, late, overtaken} \subseteq BOOLEAN
    /\ command \in Commands \cup {None}
    /\ response \in Commands \cup {None, Torn}
    /\ {pending_event, ev, lastSeen} \subseteq Events
    /\ cpc \in CallbackPcs \cup {"top", "run", "session", "write", "notify",
                                "wait", "withdraw", "copy", "gone"}
    /\ sent \in 0 .. MaxCommands
    /\ apc \in {"loop", "poll", "clear_event", "has", "get", "copy",
                "dispatch", "pending", "clear", "respond", "give"}
    /\ cmd \in Commands \cup {None, Torn}
    /\ delivered \in [Commands -> Commands \cup {None, Torn, Empty}]
    /\ executions \in [Commands -> Nat]

\* The reply that comm_dispatch_via_mailbox hands to the session is the
\* Application's reply to that very command, or the empty one after a timeout
\* (comm_module.c, comment in comm_module_complete_response: a late reply must
\* not be delivered as the reply to the next command).
ReplyMatchesCommand ==
    \A n \in Commands : delivered[n] \in {None, n, Empty}

\* While the Application has always answered in time, that is so.
PromptReplyMatches == ~late => ReplyMatchesCommand

\* Nor is a command then executed twice, although lifecycle events wake the
\* Application task as well: one UNLOCK drives the bolt once.
AtMostOnce == ~late => \A n \in Commands : executions[n] <= 1

\* Nor does a pending command then outlive its dispatch: when the comm task goes
\* on, and possibly ends the session, no command is left for the Application
\* task to find on a later wake.
NoOrphanCommand == ~late /\ command_valid => cpc \in {"notify", "wait"}

\* No wake-up is lost: while the comm task waits for the answer to a pending
\* command, an Application task back in ulTaskNotifyTake has been notified.
NoLostWakeup ==
    cpc = "wait" /\ command_valid /\ apc = "loop" => app_notified

\* While the Application answers in time, comm_module_complete_response never
\* notifies g_comm_task after the comm task has set it to NULL and deleted itself.
NotifiesLiveTask == ~late /\ apc = "give" => cpc # "gone"

\* What the mailbox discipline rests on: the types, and the three invariants
\* above about its bookkeeping.
MailboxInv == TypeOK /\ NoOrphanCommand /\ NoLostWakeup /\ NotifiesLiveTask

\* "two session events that land before the Application wakes are coalesced to
\* the later one" (docs/comm_module.md): when the Application task has handled
\* all its notifications, the last event it was given tells whether a session is
\* active.  Only an event written between the read and the clear of
\* comm_module_poll_event escapes it, until the next event is written.
LastEventSeen ==
    apc = "loop" /\ ~app_notified /\ cpc \notin CallbackPcs /\ ~overtaken =>
        (lastSeen = "STARTED") = g_session_active

\* Every command that is handed over is answered, unless a wait times out: the
\* command and the lifecycle events share one notification, and draining both on
\* each wake loses neither.
EveryCommandAnswered ==
    \A n \in Commands : sent = n ~> delivered[n] # None \/ late

=============================================================================
