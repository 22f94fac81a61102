------------------------------- MODULE Pn532 --------------------------------
(***************************************************************************)
(* One command exchange with the PN532 after the other                     *)
(* (components/pn532/src/pn532.c, as pn532_cmd.c and lli.c use it): write  *)
(* the command, wait for and read the ACK, wait for and read the response; *)
(* on a checksum error look for the next frame, try once more, and ask for *)
(* a retransmission.  Which command it is, and the bytes of the frames,    *)
(* make no difference; a frame is an ACK, a response, or garbled.          *)
(***************************************************************************)
EXTENDS Pn532I2c

CONSTANT PN532_RESYNC_MAX_BYTES  \* 512 in the firmware

ASSUME ResyncAssumption == PN532_RESYNC_MAX_BYTES \in Nat \ {0}

VARIABLES
    at,        \* stage of the exchange, or "idle"
    consumed,  \* local of resync_frame
    ret        \* result of the last exchange

pnVars == <<at, consumed, ret>>
vars   == <<i2cVars, pnVars>>

Stages == {"command", "ack", "response", "resync", "again", "nack"}

\* What the exchange leaves alone of the transport when it makes a call.
Caller == <<handleVars, irqVars, err, attempt, iter, got, chip, recoveries>>

\* The next transport operation, on behalf of a stage.
Call(stage, op) ==
    /\ at' = stage
    /\ pc' = op
    /\ UNCHANGED <<frame, fresh, ret>>

Return(e) ==
    /\ at' = "idle"
    /\ pc' = "idle"
    /\ ret' = e
    /\ UNCHANGED <<frame, fresh>>

\* The NACK that asks for the response once more; nobody waits for it.
SendNack ==
    /\ at' = "nack"
    /\ pc' = "lock"
    /\ frame' = "nack"
    /\ UNCHANGED <<fresh, ret>>

\* A failed resync leaves the checksum error in place, which ends in the NACK.
GiveUp(e) == IF at = "resync" THEN SendNack ELSE Return(e)

-----------------------------------------------------------------------------

\* lli.c or pn532_cmd.c calls pn532_send_command.
SendCommand ==
    /\ at = "idle"
    /\ at' = "command"
    /\ pc' = "lock"
    /\ frame' = "command"
    /\ fresh' = FALSE
    /\ ret' = "NONE"
    /\ UNCHANGED <<Caller, consumed>>

\* A pn532_send_command that reads on after a failed write.
CommandWritten_Unchecked ==
    /\ pc = "written" /\ at = "command"
    /\ Call("ack", "wait")
    /\ UNCHANGED <<Caller, consumed>>

CommandWritten ==
    /\ pc = "written" /\ at = "command"
    /\ IF err = "OK" THEN Call("ack", "wait") ELSE Return(err)
    /\ UNCHANGED <<Caller, consumed>>

NackWritten ==
    /\ pc = "written" /\ at = "nack"
    /\ Return("INVALID_CRC")
    /\ UNCHANGED <<Caller, consumed>>

FrameWaited ==
    /\ pc = "waited"
    /\ IF err = "OK" THEN Call(at, "read") ELSE GiveUp(err)
    /\ UNCHANGED <<Caller, consumed>>

ReadFailed ==
    /\ pc = "received" /\ err # "OK"
    /\ GiveUp(err)
    /\ UNCHANGED <<Caller, consumed>>

\* pn532_read_ack goes on to pn532_receive_response only with an ACK in hand.
AckReceived ==
    /\ pc = "received" /\ err = "OK" /\ at = "ack"
    /\ IF got = "ack" THEN Call("response", "wait") ELSE Return("FAIL")
    /\ UNCHANGED <<Caller, consumed>>

\* What pn532_parse_frame may say of a buffer.  The LEN and LCS of an ACK do not
\* add up; an error frame is a response.
pn532_parse_frame(buffer) ==
    CASE buffer = "rsp" -> {"OK", "FAIL", "INVALID_SIZE"}
      [] buffer = "ack" -> {"INVALID_CRC"}
      [] OTHER          -> {"INVALID_CRC", "INVALID_RESPONSE", "FAIL"}

\* The test of response code and status that follows in pn532_cmd.c and lli.c.
Evaluate(parsed) ==
    \/ Return(parsed)
    \/ parsed = "OK" /\ Return("FAIL")

\* Only a checksum error leads to resync_frame, and only the first one.
ResponseReceived ==
    /\ pc = "received" /\ err = "OK" /\ at \in {"response", "again"}
    /\ \E parsed \in pn532_parse_frame(got) :
          \/ parsed # "INVALID_CRC" /\ Evaluate(parsed) /\ UNCHANGED consumed
          \/ /\ parsed = "INVALID_CRC" /\ at = "response"
             /\ Call("resync", "wait")
             /\ consumed' = 0
          \/ /\ parsed = "INVALID_CRC" /\ at = "again"
             /\ SendNack
             /\ UNCHANGED consumed
    /\ UNCHANGED Caller

\* A resync that forgets to count.
Resynced_Uncounted ==
    /\ pc = "received" /\ err = "OK" /\ at = "resync"
    /\ Call("again", "wait") \/ Call("resync", "wait")
    /\ UNCHANGED <<Caller, consumed>>

\* One byte of resync_frame: the preamble is complete, or not yet, or never.
Resynced ==
    /\ pc = "received" /\ err = "OK" /\ at = "resync"
    /\ consumed' = consumed + 1
    /\ \/ Call("again", "wait")
       \/ IF consumed + 1 < PN532_RESYNC_MAX_BYTES THEN Call("resync", "wait")
                                                   ELSE SendNack
    /\ UNCHANGED Caller

Driver ==
    \/ pn532_i2c_write /\ UNCHANGED pnVars
    \/ pn532_i2c_wait_ready /\ UNCHANGED pnVars
    \/ pn532_i2c_read_frame /\ UNCHANGED pnVars
    \/ CommandWritten
    \/ NackWritten
    \/ FrameWaited
    \/ ReadFailed
    \/ AckReceived
    \/ ResponseReceived
    \/ Resynced

Init ==
    /\ I2cInit
    /\ at = "idle"
    /\ consumed = 0
    /\ ret = "NONE"

Next ==
    \/ SendCommand
    \/ Driver
    \/ pn532_irq_isr /\ UNCHANGED pnVars
    \/ ChipAnswers /\ UNCHANGED pnVars

Spec == Init /\ [][Next]_vars

\* Every wait of the driver has a timeout.  Nothing is assumed of the chip, of
\* the bus or of the callers.
FairSpec == Spec /\ WF_vars(Driver)

-----------------------------------------------------------------------------
(***************************************************************************)
(* Properties                                                              *)
(***************************************************************************)

\* Every variable stays in its range, and a transport operation runs exactly
\* while an exchange does.
TypeOK ==
    /\ I2cTypeOK
    /\ at \in Stages \cup {"idle"}
    /\ consumed \in 0 .. PN532_RESYNC_MAX_BYTES
    /\ ret \in {"NONE", "OK", "FAIL", "INVALID_CRC", "INVALID_ARG", "INVALID_SIZE",
                "INVALID_RESPONSE"} \cup BusErrors
    /\ at = "idle" <=> pc = "idle"

\* Whatever rung a write failed on, the bus mutex is free again when it returns:
\* the next transaction is not locked out.
LockIsFree == pc \notin WritePcs \ {"lock"} => ~mutex

\* A device handle never outlives its bus, although the calls of the two rebuilds
\* can fail one by one, write after write: no transmit uses a dangling handle.
DeviceOnLiveBus == dev = "live" => bus = "live"

\* Between two successful writes the bus is recovered at most
\* PN532_RECOVERY_FAIL_LIMIT times: a dead bus is not hammered for ever.
RecoveryBounded == recoveries <= PN532_RECOVERY_FAIL_LIMIT

\* What every operation of the transport can rely on when it is called: the types
\* and the three invariants above.
DriverInv == TypeOK /\ LockIsFree /\ DeviceOnLiveBus /\ RecoveryBounded

\* ESP_ERR_INVALID_STATE from a write, which ends the comm task after a few times,
\* means that recovery has failed PN532_RECOVERY_FAIL_LIMIT times in a row: an
\* INVALID_STATE of the I2C controller alone is not passed on.
FatalEarned ==
    pc # "written" /\ pc' = "written" /\ err' = "INVALID_STATE" =>
        recovery_failures' >= PN532_RECOVERY_FAIL_LIMIT

FatalIsEarned == [][FatalEarned]_vars

\* A response that an exchange returns was given to the command of that exchange,
\* not to an earlier one that timed out or that failed in between.
ResponseIsFresh == at \in {"response", "resync", "again"} \/ ret = "OK" => fresh

\* No interrupt is missed: while the driver blocks on the semaphore with a frame
\* ready, the semaphore is given or the ISR is about to give it.
NoLostIrq == pc = "sem" /\ Ready => irq_sem \/ isr_pending

\* Every exchange returns to its caller, whatever the chip and the bus do.
ExchangeEnds == at # "idle" ~> at = "idle"

=============================================================================
