---------------------------- MODULE MailboxProofs ----------------------------
(***************************************************************************)
(* Proofs about the handoff between the two tasks, for any number of       *)
(* commands.  What the mailbox delivers and executes is proved as long as  *)
(* no wait of the comm task has timed out; that the assumption cannot be   *)
(* dropped is what the run with a violation shows.                         *)
(***************************************************************************)
EXTENDS Mailbox, TLAPS

USE DEF mailVars, flagVars, noteVars, commVars, appVars, histVars,
        Commands, None, Torn, Empty, Events, CallbackPcs

-----------------------------------------------------------------------------
(***************************************************************************)
(* Types                                                                   *)
(***************************************************************************)

\* The two tasks start with an empty mailbox.
LEMMA InitTypeOK == Init => TypeOK
<1> SUFFICES ASSUME Init PROVE TypeOK
  OBVIOUS
<1>1. {command_valid, g_session_active, g_stop_requested, app_notified,
       comm_notified, late, overtaken} \subseteq BOOLEAN
  BY DEF Init
<1>2. {pending_event, ev, lastSeen} \subseteq Events
  BY DEF Init
<1> QED
  BY MailboxAssumption, <1>1, <1>2 DEF Init, TypeOK

\* Every step keeps every variable in its range.
LEMMA StepTypeOK == TypeOK /\ [Next]_vars => TypeOK'
<1> SUFFICES ASSUME TypeOK, [Next]_vars PROVE TypeOK'
  OBVIOUS
<1> USE MailboxAssumption DEF TypeOK
<1>1. CASE comm_on_established
  BY <1>1 DEF comm_on_established, CallbackFlag, CallbackEvent, CallbackNotify
<1>2. CASE comm_on_terminated
  BY <1>2 DEF comm_on_terminated, CallbackFlag, CallbackEvent, CallbackNotify
<1>3. CASE RunSession
  BY <1>3 DEF RunSession
<1>4. CASE RunReturns
  BY <1>4 DEF RunReturns
<1>5. CASE DispatchWrite
  BY <1>5 DEF DispatchWrite
<1>6. CASE DispatchPublish
  BY <1>6 DEF DispatchPublish
<1>7. CASE DispatchNotify
  BY <1>7 DEF DispatchNotify
<1>8. CASE DispatchTake
  BY <1>8 DEF DispatchTake
<1>9. CASE DispatchTimeout
  BY <1>9 DEF DispatchTimeout
<1>10. CASE DispatchWithdraw
  BY <1>10 DEF DispatchWithdraw
<1>11. CASE DispatchCopy
  BY <1>11 DEF DispatchCopy
<1>12. CASE CommTaskExit
  BY <1>12 DEF CommTaskExit
<1>13. CASE AppTake
  BY <1>13 DEF AppTake
<1>14. CASE PollRead
  BY <1>14 DEF PollRead
<1>15. CASE PollClear
  BY <1>15 DEF PollClear
<1>16. CASE HasCommand
  BY <1>16 DEF HasCommand
<1>17. CASE GetCommand
  BY <1>17 DEF GetCommand
<1>18. CASE Dispatch
  <2>1. executions' \in [Commands -> Nat]
    BY <1>18 DEF Dispatch
  <2>2. g_stop_requested' \in BOOLEAN
    BY <1>18 DEF Dispatch
  <2> QED
    BY <1>18, <2>1, <2>2 DEF Dispatch
<1>19. CASE CompleteCheck
  BY <1>19 DEF CompleteCheck
<1>20. CASE CompleteClear
  BY <1>20 DEF CompleteClear
<1>21. CASE CompleteRespond
  BY <1>21 DEF CompleteRespond
<1>22. CASE CompleteNotify
  BY <1>22 DEF CompleteNotify
<1>23. CASE UNCHANGED vars
  BY <1>23 DEF vars
<1> QED
  BY <1>1, <1>2, <1>3, <1>4, <1>5, <1>6, <1>7, <1>8, <1>9, <1>10, <1>11,
     <1>12, <1>13, <1>14, <1>15, <1>16, <1>17, <1>18, <1>19, <1>20, <1>21,
     <1>22, <1>23 DEF Next, CommTask, AppTask

-----------------------------------------------------------------------------
(***************************************************************************)
(* The inductive invariant                                                 *)
(***************************************************************************)

\* A notification follows a published command, and only a wake takes it.
WakeInv ==
    cpc = "wait" /\ command_valid =>
        \/ app_notified
        \/ apc \in {"poll", "clear_event", "has", "get", "copy", "dispatch",
                    "pending", "clear"}

\* The Application has a command in its hands.
Handling == apc \in {"get", "copy", "dispatch", "pending", "clear", "respond", "give"}

\* While no wait has timed out, a dispatch goes through these phases: the command
\* pends, its answer is on the way, the comm task copies the answer; outside a
\* dispatch the mailbox is empty and the Application has no command.
Pending ==
    /\ cpc \in {"notify", "wait"} /\ command_valid /\ ~comm_notified
    /\ apc \notin {"respond", "give"}
    /\ command = sent
    /\ apc \in {"dispatch", "pending", "clear"} => cmd = sent
    /\ executions[sent] = IF apc \in {"pending", "clear"} THEN 1 ELSE 0

Answering ==
    /\ cpc \in {"notify", "wait"} /\ ~command_valid
    /\ IF apc \in {"respond", "give"} THEN cmd = sent /\ ~comm_notified
                                      ELSE comm_notified /\ ~Handling
    /\ apc # "respond" => response = sent

Quiet ==
    /\ cpc \notin {"notify", "wait", "withdraw"}
    /\ ~command_valid /\ ~comm_notified /\ ~Handling
    /\ cpc = "write" => command = sent /\ executions[sent] = 0
    /\ cpc = "copy" => response = sent

PhaseInv ==
    ~late =>
        /\ Pending \/ Answering \/ Quiet
        /\ cpc \in {"write", "notify", "wait", "copy"} => sent \in Commands
        /\ \A n \in Commands : executions[n] <= 1 /\ (n > sent => executions[n] = 0)
        /\ ReplyMatchesCommand

\* An event in its slot has a wake coming; the slot holds the newest event, which
\* agrees with g_session_active but for the time between the writes of a callback;
\* and when it is empty, the Application has been given that event.
Agrees(event) == (event = "STARTED") <=> g_session_active

EventInv ==
    /\ pending_event # "NONE" =>
         \/ app_notified
         \/ apc \in {"poll", "clear_event"}
         \/ cpc \in {"est_notify", "term_notify", "again_notify"}
    /\ cpc \in {"est_event", "est_notify"} => g_session_active
    /\ cpc \in CallbackPcs \ {"est_event", "est_notify"} => ~g_session_active
    /\ apc = "clear_event" /\ ~overtaken => ev = pending_event
    /\ cpc \notin {"est_event", "term_event"} /\ ~overtaken =>
         Agrees(IF pending_event = "NONE" THEN lastSeen ELSE pending_event)

\* No wake-up is lost.
LEMMA StepWakeInv ==
    ASSUME TypeOK, WakeInv, [Next]_vars
    PROVE  WakeInv'
<1> USE DEF WakeInv, TypeOK
<1>1. CASE comm_on_established
  BY <1>1 DEF comm_on_established, CallbackFlag, CallbackEvent, CallbackNotify
<1>2. CASE comm_on_terminated
  BY <1>2 DEF comm_on_terminated, CallbackFlag, CallbackEvent, CallbackNotify
<1>3. CASE RunSession
  BY <1>3 DEF RunSession
<1>4. CASE RunReturns
  BY <1>4 DEF RunReturns
<1>5. CASE DispatchWrite
  BY <1>5 DEF DispatchWrite
<1>6. CASE DispatchPublish
  BY <1>6 DEF DispatchPublish
<1>7. CASE DispatchNotify
  BY <1>7 DEF DispatchNotify
<1>8. CASE DispatchTake
  BY <1>8 DEF DispatchTake
<1>9. CASE DispatchTimeout
  BY <1>9 DEF DispatchTimeout
<1>10. CASE DispatchWithdraw
  BY <1>10 DEF DispatchWithdraw
<1>11. CASE DispatchCopy
  BY <1>11 DEF DispatchCopy
<1>12. CASE CommTaskExit
  BY <1>12 DEF CommTaskExit
<1>13. CASE AppTake
  BY <1>13 DEF AppTake
<1>14. CASE PollRead
  BY <1>14 DEF PollRead
<1>15. CASE PollClear
  BY <1>15 DEF PollClear
<1>16. CASE HasCommand
  BY <1>16 DEF HasCommand
<1>17. CASE GetCommand
  BY <1>17 DEF GetCommand
<1>18. CASE Dispatch
  BY <1>18 DEF Dispatch
<1>19. CASE CompleteCheck
  BY <1>19 DEF CompleteCheck
<1>20. CASE CompleteClear
  BY <1>20 DEF CompleteClear
<1>21. CASE CompleteRespond
  BY <1>21 DEF CompleteRespond
<1>22. CASE CompleteNotify
  BY <1>22 DEF CompleteNotify
<1>23. CASE UNCHANGED vars
  BY <1>23 DEF vars
<1> QED
  BY <1>1, <1>2, <1>3, <1>4, <1>5, <1>6, <1>7, <1>8, <1>9, <1>10, <1>11,
     <1>12, <1>13, <1>14, <1>15, <1>16, <1>17, <1>18, <1>19, <1>20, <1>21,
     <1>22, <1>23 DEF Next, CommTask, AppTask

\* The phases of a dispatch follow one another.
LEMMA StepPhaseInv ==
    ASSUME TypeOK, PhaseInv, [Next]_vars
    PROVE  PhaseInv'
<1> USE MailboxAssumption
    DEF TypeOK, PhaseInv, Pending, Answering, Quiet, Handling, ReplyMatchesCommand
<1>1. CASE comm_on_established
  BY <1>1 DEF comm_on_established, CallbackFlag, CallbackEvent, CallbackNotify
<1>2. CASE comm_on_terminated
  BY <1>2 DEF comm_on_terminated, CallbackFlag, CallbackEvent, CallbackNotify
<1>3. CASE RunSession
  BY <1>3 DEF RunSession
<1>4. CASE RunReturns
  BY <1>4 DEF RunReturns
<1>5. CASE DispatchWrite
  BY <1>5 DEF DispatchWrite
<1>6. CASE DispatchPublish
  BY <1>6 DEF DispatchPublish
<1>7. CASE DispatchNotify
  BY <1>7 DEF DispatchNotify
<1>8. CASE DispatchTake
  BY <1>8 DEF DispatchTake
<1>9. CASE DispatchTimeout
  BY <1>9 DEF DispatchTimeout
<1>10. CASE DispatchWithdraw
  BY <1>10 DEF DispatchWithdraw
<1>11. CASE DispatchCopy
  BY <1>11 DEF DispatchCopy
<1>12. CASE CommTaskExit
  BY <1>12 DEF CommTaskExit
<1>13. CASE AppTake
  BY <1>13 DEF AppTake
<1>14. CASE PollRead
  BY <1>14 DEF PollRead
<1>15. CASE PollClear
  BY <1>15 DEF PollClear
<1>16. CASE HasCommand
  BY <1>16 DEF HasCommand
<1>17. CASE GetCommand
  BY <1>17 DEF GetCommand
<1>18. CASE Dispatch
  BY <1>18 DEF Dispatch
<1>19. CASE CompleteCheck
  BY <1>19 DEF CompleteCheck
<1>20. CASE CompleteClear
  BY <1>20 DEF CompleteClear
<1>21. CASE CompleteRespond
  BY <1>21 DEF CompleteRespond
<1>22. CASE CompleteNotify
  BY <1>22 DEF CompleteNotify
<1>23. CASE UNCHANGED vars
  BY <1>23 DEF vars
<1> QED
  BY <1>1, <1>2, <1>3, <1>4, <1>5, <1>6, <1>7, <1>8, <1>9, <1>10, <1>11,
     <1>12, <1>13, <1>14, <1>15, <1>16, <1>17, <1>18, <1>19, <1>20, <1>21,
     <1>22, <1>23 DEF Next, CommTask, AppTask

\* The newest event is on its way to the Application or has reached it.
LEMMA StepEventInv ==
    ASSUME TypeOK, EventInv, [Next]_vars
    PROVE  EventInv'
<1> USE DEF TypeOK, EventInv, Agrees
<1>1. CASE comm_on_established
  BY <1>1 DEF comm_on_established, CallbackFlag, CallbackEvent, CallbackNotify
<1>2. CASE comm_on_terminated
  <2>1. ev' = ev /\ apc' = apc /\ lastSeen' = lastSeen
    BY <1>2 DEF comm_on_terminated
  <2>2. CASE cpc \in {"session", "again_flag"}
    BY <1>2, <2>1, <2>2 DEF comm_on_terminated, CallbackFlag
  <2>3. CASE cpc \in {"term_event", "again_event"}
    BY <1>2, <2>1, <2>3 DEF comm_on_terminated, CallbackEvent
  <2>4. CASE cpc \in {"term_notify", "again_notify"}
    <3>1. app_notified' /\ UNCHANGED <<pending_event, g_session_active, overtaken>>
      BY <1>2, <2>4 DEF comm_on_terminated, CallbackNotify
    <3>2. cpc' = IF cpc = "term_notify" THEN "again_flag" ELSE "top"
      BY <1>2, <2>4 DEF comm_on_terminated, CallbackFlag, CallbackEvent, CallbackNotify
    <3> QED
      BY <2>1, <2>4, <3>1, <3>2
  <2> QED
    BY <1>2, <2>2, <2>3, <2>4 DEF comm_on_terminated
<1>3. CASE RunSession
  BY <1>3 DEF RunSession
<1>4. CASE RunReturns
  BY <1>4 DEF RunReturns
<1>5. CASE DispatchWrite
  BY <1>5 DEF DispatchWrite
<1>6. CASE DispatchPublish
  BY <1>6 DEF DispatchPublish
<1>7. CASE DispatchNotify
  BY <1>7 DEF DispatchNotify
<1>8. CASE DispatchTake
  BY <1>8 DEF DispatchTake
<1>9. CASE DispatchTimeout
  BY <1>9 DEF DispatchTimeout
<1>10. CASE DispatchWithdraw
  BY <1>10 DEF DispatchWithdraw
<1>11. CASE DispatchCopy
  BY <1>11 DEF DispatchCopy
<1>12. CASE CommTaskExit
  BY <1>12 DEF CommTaskExit
<1>13. CASE AppTake
  BY <1>13 DEF AppTake
<1>14. CASE PollRead
  BY <1>14 DEF PollRead
<1>15. CASE PollClear
  BY <1>15 DEF PollClear
<1>16. CASE HasCommand
  BY <1>16 DEF HasCommand
<1>17. CASE GetCommand
  BY <1>17 DEF GetCommand
<1>18. CASE Dispatch
  BY <1>18 DEF Dispatch
<1>19. CASE CompleteCheck
  BY <1>19 DEF CompleteCheck
<1>20. CASE CompleteClear
  BY <1>20 DEF CompleteClear
<1>21. CASE CompleteRespond
  BY <1>21 DEF CompleteRespond
<1>22. CASE CompleteNotify
  BY <1>22 DEF CompleteNotify
<1>23. CASE UNCHANGED vars
  BY <1>23 DEF vars
<1> QED
  BY <1>1, <1>2, <1>3, <1>4, <1>5, <1>6, <1>7, <1>8, <1>9, <1>10, <1>11,
     <1>12, <1>13, <1>14, <1>15, <1>16, <1>17, <1>18, <1>19, <1>20, <1>21,
     <1>22, <1>23 DEF Next, CommTask, AppTask

-----------------------------------------------------------------------------
(***************************************************************************)
(* Theorems                                                                *)
(***************************************************************************)

MailboxIInv == TypeOK /\ WakeInv /\ PhaseInv /\ EventInv

\* Both tasks start with nothing to say.
LEMMA InitIInv == Init => MailboxIInv
<1> SUFFICES ASSUME Init PROVE MailboxIInv
  OBVIOUS
<1>1. TypeOK
  BY InitTypeOK
<1>2. WakeInv /\ PhaseInv
  BY MailboxAssumption
     DEF Init, WakeInv, PhaseInv, Quiet, Handling, ReplyMatchesCommand
<1>3. EventInv
  BY DEF Init, EventInv, Agrees
<1> QED
  BY <1>1, <1>2, <1>3 DEF MailboxIInv

\* Every step keeps the four together.
LEMMA StepIInv == MailboxIInv /\ [Next]_vars => MailboxIInv'
BY StepTypeOK, StepWakeInv, StepPhaseInv, StepEventInv DEF MailboxIInv

LEMMA Invariance == Spec => []MailboxIInv
BY InitIInv, StepIInv, PTL DEF Spec

\* The mailbox discipline of comm_module.c: the comm task is never left waiting
\* for an Application that sleeps, and, while no wait has timed out, no command
\* outlives its dispatch and nobody notifies a task that has deleted itself.
THEOREM MailboxDiscipline == Spec => []MailboxInv
<1>1. MailboxIInv => NoLostWakeup
  BY DEF MailboxIInv, WakeInv, NoLostWakeup
<1>2. MailboxIInv => NoOrphanCommand /\ NotifiesLiveTask
  BY DEF MailboxIInv, PhaseInv, Pending, Answering, Quiet, Handling,
         NoOrphanCommand, NotifiesLiveTask
<1>3. MailboxIInv => MailboxInv
  BY <1>1, <1>2 DEF MailboxIInv, MailboxInv
<1> QED
  BY <1>3, Invariance, PTL

\* While the Application answers in time, the phone gets the answer to its own
\* command, however lifecycle events and notifications fall.
THEOREM PromptRepliesMatch == Spec => []PromptReplyMatches
<1>1. MailboxIInv => PromptReplyMatches
  BY DEF MailboxIInv, PhaseInv, PromptReplyMatches
<1> QED
  BY <1>1, Invariance, PTL

\* While the Application answers in time, no command is executed twice, although
\* lifecycle events wake the Application in the middle of one: one UNLOCK drives
\* the bolt once.
THEOREM ExecutedAtMostOnce == Spec => []AtMostOnce
<1>1. MailboxIInv => AtMostOnce
  BY DEF MailboxIInv, PhaseInv, AtMostOnce
<1> QED
  BY <1>1, Invariance, PTL

\* When the Application has handled all its notifications, the last lifecycle
\* event it was given tells whether a session is active, unless that event was
\* written between the read and the clear of comm_module_poll_event.
THEOREM LastEventIsSeen == Spec => []LastEventSeen
<1>1. MailboxIInv => LastEventSeen
  <2> SUFFICES ASSUME MailboxIInv, apc = "loop", ~app_notified,
                      cpc \notin CallbackPcs, ~overtaken
               PROVE  (lastSeen = "STARTED") = g_session_active
    BY DEF LastEventSeen
  <2>1. g_session_active \in BOOLEAN
    BY DEF MailboxIInv, TypeOK
  <2>2. (lastSeen = "STARTED") <=> g_session_active
    BY DEF MailboxIInv, EventInv, Agrees
  <2> QED
    BY <2>1, <2>2
<1> QED
  BY <1>1, Invariance, PTL

=============================================================================
