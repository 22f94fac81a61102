---------------------------- MODULE Pn532Proofs -----------------------------
(***************************************************************************)
(* Proofs about the PN532 driver, for any number of polls and of bytes in  *)
(* a resync: the recovery ladder never uses a dangling handle and never    *)
(* hammers a dead bus, a fatal error is earned, a response belongs to the  *)
(* command it is returned for, and no interrupt is missed.  Nothing is     *)
(* assumed of the chip and the bus.                                        *)
(***************************************************************************)
EXTENDS Pn532, TLAPS

USE ResyncAssumption, PollAssumption
USE DEF handleVars, irqVars, chipVars, localVars, i2cVars, pnVars, Caller, Stages,
        BusErrors, WritePcs, WaitPcs, DonePcs, PN532_WRITE_MAX_RETRIES,
        PN532_RECOVERY_FAIL_LIMIT

-----------------------------------------------------------------------------
(***************************************************************************)
(* The inductive invariant                                                 *)
(***************************************************************************)

\* Who runs in the transport: a write for a command or a NACK, a wait or a read for
\* one of the other stages.
StageInv ==
    /\ pc \in WritePcs \cup {"written"} => at \in {"command", "nack"} /\ frame = at
    /\ pc \in WaitPcs \cup {"waited", "read", "received"} =>
         at \in {"ack", "response", "resync", "again"}

\* The places of the recovery ladder, past the reset of the controller.
Ladder == {"resend", "dev_rm", "dev_add", "dev_resend", "bus_rm", "bus_del",
           "bus_new", "bus_add", "bus_resend"}

\* The device is rebuilt on a bus that exists, and the bus is rebuilt without one.
HandleInv ==
    /\ DeviceOnLiveBus
    /\ pc \in {"resend", "dev_rm", "dev_add", "dev_resend", "bus_add", "bus_resend"}
         => bus = "live"
    /\ pc \in {"bus_del", "bus_new", "bus_add"} => dev = "null"

\* Every recovery is one of a write that is counted as a failure, or that ends the
\* count; the write on the ladder is not counted yet.
CountInv ==
    /\ RecoveryBounded
    /\ pc \in Ladder \cup {"unlock"} => recoveries <= recovery_failures + 1
    /\ pc \notin Ladder \cup {"unlock"} => recoveries <= recovery_failures
    /\ pc \in Ladder \cup {"recover"} => recovery_failures < PN532_RECOVERY_FAIL_LIMIT
    /\ pc = "unlock" /\ err # "OK" => recovery_failures < PN532_RECOVERY_FAIL_LIMIT

\* The attempts, polls and bytes that are left.
BoundInv ==
    /\ pc = "try" => attempt < PN532_WRITE_MAX_RETRIES
    /\ pc = "poll" => iter < PollMax
    /\ at = "resync" => consumed < PN532_RESYNC_MAX_BYTES

\* A write that returns OK has sent its command; on the ladder nothing has been sent.
FreshInv ==
    /\ ResponseIsFresh
    /\ at = "ack" => fresh
    /\ pc \in {"unlock", "written"} /\ at = "command" /\ err = "OK" => fresh
    /\ pc \in Ladder \cup {"limit", "recover"} => err # "OK"

\* Only a lock with an IRQ line waits on the semaphore.
IrqInv == NoLostIrq /\ (pc \in {"sem", "level"} => irq_mode)

DriverIInv ==
    DriverInv /\ StageInv /\ HandleInv /\ CountInv /\ BoundInv /\ FreshInv /\ IrqInv

\* A driver that was never used has its handles and waits for nothing.
LEMMA InitIInv == Init => DriverIInv
<1> SUFFICES ASSUME Init PROVE DriverIInv
  OBVIOUS
<1>1. {mutex, irq_mode, irq_sem, isr_pending, fresh} \subseteq BOOLEAN
  BY DEF Init, I2cInit
<1>2. TypeOK
  BY <1>1 DEF Init, I2cInit, TypeOK, I2cTypeOK
<1>3. DriverInv
  BY <1>2 DEF Init, I2cInit, DriverInv, LockIsFree, DeviceOnLiveBus, RecoveryBounded
<1>4. StageInv /\ HandleInv /\ CountInv
  BY <1>3 DEF Init, I2cInit, StageInv, HandleInv, CountInv, Ladder, DriverInv
<1>5. BoundInv /\ FreshInv /\ IrqInv
  BY DEF Init, I2cInit, BoundInv, FreshInv, ResponseIsFresh, IrqInv, NoLostIrq, Ladder
<1> QED
  BY <1>3, <1>4, <1>5 DEF DriverIInv

-----------------------------------------------------------------------------
(***************************************************************************)
(* The transport                                                           *)
(***************************************************************************)

\* What a transmit leaves behind, whatever its result.
LEMMA TransmitFacts ==
    ASSUME I2cTypeOK, NEW e \in {"OK", "INVALID_ARG"} \cup BusErrors, Transmit(e)
    PROVE  /\ err' = e
           /\ chip' \in {"idle", "busy_ack", "ack", "busy_rsp", "rsp"}
           /\ fresh' \in BOOLEAN
           /\ fresh => fresh'
           /\ e = "OK" /\ frame = "command" => fresh'
<1>1. fresh' = (fresh \/ (e = "OK" /\ frame = "command"))
  BY Zenon DEF Transmit
<1>2. err' = e
  BY DEF Transmit
<1>3. AfterWrite \in {"busy_ack", "busy_rsp"}
  BY DEF AfterWrite
<1>4. chip' \in {AfterWrite, chip}
  BY DEF Transmit
<1> QED
  BY <1>1, <1>2, <1>3, <1>4 DEF I2cTypeOK

\* The transmit after a rung: it climbs on only with an error.
LEMMA ResendKeeps ==
    ASSUME DriverIInv, UNCHANGED pnVars,
           NEW here \in {"resend", "dev_resend", "bus_resend"},
           NEW rung \in {"dev_rm", "bus_rm", "unlock"},
           here = "bus_resend" => rung = "unlock",
           rung = "dev_rm" => here = "resend",
           Resend(here, rung)
    PROVE  DriverIInv'
<1> USE DEF DriverIInv, DriverInv, TypeOK, I2cTypeOK, LockIsFree, DeviceOnLiveBus,
    RecoveryBounded, StageInv, HandleInv, CountInv, BoundInv, FreshInv, ResponseIsFresh,
    IrqInv, NoLostIrq, Ladder
<1>1. PICK e \in {"OK", "INVALID_ARG"} \cup BusErrors :
        Transmit(e) /\ pc' = IF e = "INVALID_STATE" THEN rung ELSE "unlock"
  BY DEF Resend
<1>2. /\ err' = e
      /\ chip' \in {"idle", "busy_ack", "ack", "busy_rsp", "rsp"}
      /\ fresh' \in BOOLEAN
      /\ fresh => fresh'
      /\ e = "OK" /\ frame = "command" => fresh'
  BY <1>1, TransmitFacts
<1>3. pc = here /\ UNCHANGED <<handleVars, irqVars, localVars, recoveries, pnVars>>
  BY DEF Resend
<1>4. pc' \in {"dev_rm", "bus_rm", "unlock"} /\ (pc' # "unlock" => e = "INVALID_STATE")
      /\ (pc' = "dev_rm" => pc = "resend")
  BY <1>1, <1>3
<1>5. TypeOK'
  <2>1. {mutex, irq_mode, irq_sem, isr_pending, fresh}' \subseteq BOOLEAN
    BY <1>2, <1>3
  <2> QED
    BY <1>2, <1>3, <1>4, <2>1
<1>6. StageInv' /\ HandleInv'
  BY <1>3, <1>4
<1>7. LockIsFree' /\ CountInv' /\ BoundInv'
  BY <1>2, <1>3, <1>4
<1>8. FreshInv'
  BY <1>2, <1>3, <1>4
<1>9. IrqInv'
  BY <1>3, <1>4
<1> QED
  BY <1>5, <1>6, <1>7, <1>8, <1>9

\* A call of a rung: the handles, the places and the rest of the invariant.
LEMMA RungKeeps ==
    ASSUME DriverIInv, UNCHANGED pnVars,
           NEW here \in Ladder, NEW handles, NEW onOk \in Ladder,
           NEW onFail \in Ladder \cup {"unlock"},
           Rung(here, handles, onOk, onFail),
           {bus', dev'} \subseteq {"live", "null"},
           HandleInv'
    PROVE  DriverIInv'
<1> USE DEF DriverIInv, DriverInv, TypeOK, I2cTypeOK, LockIsFree, DeviceOnLiveBus,
    RecoveryBounded, StageInv, HandleInv, CountInv, BoundInv, FreshInv, ResponseIsFresh,
    IrqInv, NoLostIrq, Ladder
<1>1. pc = here /\ pc' \in {onOk, onFail}
  BY DEF Rung
<1>2. UNCHANGED <<mutex, recovery_failures, irq_mode, irqVars, err, localVars, chipVars,
                  recoveries, pnVars>>
  BY DEF Rung
<1>3. TypeOK'
  <2>1. {mutex, irq_mode, irq_sem, isr_pending, fresh}' \subseteq BOOLEAN
    BY <1>2
  <2> QED
    BY <1>1, <1>2, <2>1
<1>4. LockIsFree' /\ StageInv' /\ CountInv' /\ BoundInv' /\ FreshInv' /\ IrqInv'
  BY <1>1, <1>2
<1> QED
  BY <1>3, <1>4

\* The two rebuilds: the device goes before its bus and comes back after it.
LEMMA RebuildKeeps ==
    ASSUME DriverIInv, rebuild_i2c_device \/ rebuild_i2c_bus, UNCHANGED pnVars
    PROVE  DriverIInv'
<1>0. HandleInv /\ DeviceOnLiveBus /\ {bus, dev} \subseteq {"live", "null"}
  BY DEF DriverIInv, DriverInv, HandleInv, TypeOK, I2cTypeOK
<1>1. CASE Rung("dev_rm", <<bus, "null">>, "dev_add", "bus_rm")
  <2>1. {bus', dev'} \subseteq {"live", "null"}
    BY <1>0, <1>1 DEF Rung
  <2>2. HandleInv'
    BY <1>0, <1>1 DEF Rung, HandleInv, DeviceOnLiveBus
  <2> QED
    BY <1>1, <2>1, <2>2, RungKeeps DEF Ladder
<1>2. CASE Rung("dev_add", <<bus, "live">>, "dev_resend", "bus_rm")
  <2>1. {bus', dev'} \subseteq {"live", "null"}
    BY <1>0, <1>2 DEF Rung
  <2>2. HandleInv'
    BY <1>0, <1>2 DEF Rung, HandleInv, DeviceOnLiveBus
  <2> QED
    BY <1>2, <2>1, <2>2, RungKeeps DEF Ladder
<1>3. CASE Rung("bus_rm", <<bus, "null">>, "bus_del",
                    IF dev = "null" THEN "bus_del" ELSE "unlock")
  <2>1. {bus', dev'} \subseteq {"live", "null"}
    BY <1>0, <1>3 DEF Rung
  <2>2. HandleInv'
    BY <1>0, <1>3 DEF Rung, HandleInv, DeviceOnLiveBus
  <2> QED
    BY <1>3, <2>1, <2>2, RungKeeps DEF Ladder
<1>4. CASE Rung("bus_del", <<"null", dev>>, "bus_new", "unlock")
  <2>1. {bus', dev'} \subseteq {"live", "null"}
    BY <1>0, <1>4 DEF Rung
  <2>2. HandleInv'
    BY <1>0, <1>4 DEF Rung, HandleInv, DeviceOnLiveBus
  <2> QED
    BY <1>4, <2>1, <2>2, RungKeeps DEF Ladder
<1>5. CASE Rung("bus_new", <<"live", dev>>, "bus_add", "unlock")
  <2>1. {bus', dev'} \subseteq {"live", "null"}
    BY <1>0, <1>5 DEF Rung
  <2>2. HandleInv'
    BY <1>0, <1>5 DEF Rung, HandleInv, DeviceOnLiveBus
  <2> QED
    BY <1>5, <2>1, <2>2, RungKeeps DEF Ladder
<1>6. CASE Rung("bus_add", <<bus, "live">>, "bus_resend", "unlock")
  <2>1. {bus', dev'} \subseteq {"live", "null"}
    BY <1>0, <1>6 DEF Rung
  <2>2. HandleInv'
    BY <1>0, <1>6 DEF Rung, HandleInv, DeviceOnLiveBus
  <2> QED
    BY <1>6, <2>1, <2>2, RungKeeps DEF Ladder
<1> QED
  BY <1>1, <1>2, <1>3, <1>4, <1>5, <1>6 DEF rebuild_i2c_device, rebuild_i2c_bus

\* Every step of a write.
LEMMA WriteKeeps ==
    ASSUME DriverIInv, pn532_i2c_write, UNCHANGED pnVars
    PROVE  DriverIInv'
<1> USE DEF DriverIInv, DriverInv, TypeOK, I2cTypeOK, LockIsFree, DeviceOnLiveBus,
    RecoveryBounded, StageInv, HandleInv, CountInv, BoundInv, FreshInv, ResponseIsFresh,
    IrqInv, NoLostIrq, Ladder
<1>1. CASE WriteLock
  <2>1. TypeOK'
    BY <1>1 DEF WriteLock
  <2> QED
    BY <1>1, <2>1 DEF WriteLock
<1>2. CASE WriteTry
  <2>1. PICK e \in {"OK", "INVALID_ARG"} \cup BusErrors :
          /\ Transmit(e)
          /\ pc' = IF e = "OK" THEN "unlock"
                   ELSE IF attempt + 1 < PN532_WRITE_MAX_RETRIES THEN "try" ELSE "limit"
    BY <1>2 DEF WriteTry
  <2>2. /\ err' = e
        /\ chip' \in {"idle", "busy_ack", "ack", "busy_rsp", "rsp"}
        /\ fresh' \in BOOLEAN
        /\ fresh => fresh'
        /\ e = "OK" /\ frame = "command" => fresh'
    BY <2>1, TransmitFacts
  <2>3. /\ pc = "try" /\ attempt' = attempt + 1
        /\ UNCHANGED <<handleVars, irqVars, iter, frame, got, recoveries, pnVars>>
    BY <1>2 DEF WriteTry
  <2>4. /\ pc' \in {"unlock", "try", "limit"}
        /\ pc' = "unlock" <=> e = "OK"
        /\ pc' = "try" => attempt' < PN532_WRITE_MAX_RETRIES
    BY <2>1, <2>3
  <2>5. TypeOK'
    <3>1. {mutex, irq_mode, irq_sem, isr_pending, fresh}' \subseteq BOOLEAN
      BY <2>2, <2>3
    <3> QED
      BY <2>2, <2>3, <2>4, <3>1
  <2>6. LockIsFree' /\ StageInv' /\ HandleInv' /\ CountInv' /\ BoundInv'
    BY <2>2, <2>3, <2>4
  <2>7. FreshInv' /\ IrqInv'
    BY <2>2, <2>3, <2>4
  <2> QED
    BY <2>5, <2>6, <2>7
<1>3. CASE WriteLimit
  <2>1. mutex' \in BOOLEAN /\ pc' \in {"written", "recover"}
        /\ err' \in {err, "INVALID_STATE"} /\ pc = "limit"
    BY <1>3 DEF WriteLimit
  <2>2. UNCHANGED <<bus, dev, recovery_failures, irq_mode, irqVars, localVars, chipVars,
                    recoveries, pnVars>>
    BY <1>3 DEF WriteLimit
  <2>3. {mutex, irq_mode, irq_sem, isr_pending, fresh}' \subseteq BOOLEAN
    BY <2>1, <2>2
  <2>4. TypeOK'
    BY <2>1, <2>2, <2>3
  <2> QED
    BY <1>3, <2>1, <2>4 DEF WriteLimit
<1>4. CASE Recover
  <2>1. TypeOK'
    BY <1>4 DEF Recover
  <2> QED
    BY <1>4, <2>1 DEF Recover
<1>5. CASE WriteUnlock
  <2>1. /\ pc = "unlock" /\ pc' = "written" /\ mutex' = FALSE
        /\ UNCHANGED <<bus, dev, irq_mode, irqVars, localVars, chipVars, pnVars>>
    BY <1>5 DEF WriteUnlock
  <2>2. CASE err = "OK"
    <3>1. err' = "OK" /\ recovery_failures' = 0 /\ recoveries' = 0
      BY <1>5, <2>2 DEF WriteUnlock
    <3>2. {mutex, irq_mode, irq_sem, isr_pending, fresh}' \subseteq BOOLEAN
      BY <2>1
    <3>3. TypeOK'
      BY <2>1, <3>1, <3>2
    <3> QED
      BY <2>1, <2>2, <3>1, <3>3
  <2>3. CASE err # "OK"
    <3>1. /\ err' \in {"INVALID_STATE", "TIMEOUT"}
          /\ recovery_failures' = recovery_failures + 1
          /\ recoveries' = recoveries
      BY <1>5, <2>3 DEF WriteUnlock
    <3>2. {mutex, irq_mode, irq_sem, isr_pending, fresh}' \subseteq BOOLEAN
      BY <2>1
    <3>3. TypeOK'
      BY <2>1, <2>3, <3>1, <3>2
    <3> QED
      BY <2>1, <2>3, <3>1, <3>3
  <2> QED
    BY <2>2, <2>3
<1>6. CASE rebuild_i2c_device \/ rebuild_i2c_bus
  BY <1>6, RebuildKeeps
<1>7. CASE Resend("resend", "dev_rm") \/ Resend("dev_resend", "bus_rm")
             \/ Resend("bus_resend", "unlock")
  BY <1>7, ResendKeeps
<1> QED
  BY <1>1, <1>2, <1>3, <1>4, <1>5, <1>6, <1>7 DEF pn532_i2c_write

\* Every step of a wait, by IRQ or by polling.
LEMMA WaitKeeps ==
    ASSUME DriverIInv, pn532_i2c_wait_ready, UNCHANGED pnVars
    PROVE  DriverIInv'
<1> USE DEF DriverIInv, DriverInv, TypeOK, I2cTypeOK, LockIsFree, DeviceOnLiveBus,
    RecoveryBounded, StageInv, HandleInv, CountInv, BoundInv, FreshInv, ResponseIsFresh,
    IrqInv, NoLostIrq, Ladder
<1>1. CASE WaitStart
  <2>1. TypeOK'
    BY <1>1 DEF WaitStart, Waited, Ready
  <2> QED
    BY <1>1, <2>1 DEF WaitStart, Waited, Ready
<1>2. CASE WaitTake
  <2>1. TypeOK'
    <3>1. irq_sem' \in BOOLEAN
      BY <1>2 DEF WaitTake
    <3>2. {mutex, irq_mode, irq_sem, isr_pending, fresh}' \subseteq BOOLEAN
      BY <1>2, <3>1 DEF WaitTake
    <3> QED
      BY <1>2, <3>2 DEF WaitTake, Waited
  <2> QED
    BY <1>2, <2>1 DEF WaitTake, Waited
<1>3. CASE WaitLevel
  <2>1. TypeOK'
    BY <1>3 DEF WaitLevel, Waited
  <2> QED
    BY <1>3, <2>1 DEF WaitLevel, Waited
<1>4. CASE WaitPoll
  <2>1. TypeOK'
    BY <1>4 DEF WaitPoll, Waited
  <2> QED
    BY <1>4, <2>1 DEF WaitPoll, Waited
<1> QED
  BY <1>1, <1>2, <1>3, <1>4 DEF pn532_i2c_wait_ready

\* A read of a frame, the interrupt handler and the chip, at any moment.
LEMMA ReadKeeps ==
    ASSUME DriverIInv, UNCHANGED pnVars,
           pn532_i2c_read_frame \/ pn532_irq_isr \/ ChipAnswers
    PROVE  DriverIInv'
<1> USE DEF DriverIInv, DriverInv, TypeOK, I2cTypeOK, LockIsFree, DeviceOnLiveBus,
    RecoveryBounded, StageInv, HandleInv, CountInv, BoundInv, FreshInv, ResponseIsFresh,
    IrqInv, NoLostIrq, Ladder
<1>1. CASE pn532_i2c_read_frame
  <2>1. /\ pc = "read" /\ pc' = "received"
        /\ got' \in {"ack", "rsp", "garbled"}
        /\ chip' \in {"idle", "busy_ack", "ack", "busy_rsp", "rsp"}
        /\ err' \in {"OK", "INVALID_ARG", "INVALID_RESPONSE"} \cup BusErrors
    BY <1>1 DEF pn532_i2c_read_frame, Ready, AfterRead
  <2>2. UNCHANGED <<handleVars, irqVars, attempt, iter, frame, fresh, recoveries, pnVars>>
    BY <1>1 DEF pn532_i2c_read_frame
  <2>3. TypeOK'
    <3>1. {mutex, irq_mode, irq_sem, isr_pending, fresh}' \subseteq BOOLEAN
      BY <2>2
    <3> QED
      BY <2>1, <2>2, <3>1
  <2> QED
    BY <2>1, <2>2, <2>3
<1>2. CASE pn532_irq_isr
  <2>1. {mutex, irq_mode, irq_sem, isr_pending, fresh}' \subseteq BOOLEAN
    BY <1>2 DEF pn532_irq_isr
  <2>2. TypeOK'
    BY <1>2, <2>1 DEF pn532_irq_isr
  <2> QED
    BY <1>2, <2>2 DEF pn532_irq_isr, Ready
<1>3. CASE ChipAnswers
  <2>1. {mutex, irq_mode, irq_sem, isr_pending, fresh}' \subseteq BOOLEAN
    BY <1>3 DEF ChipAnswers
  <2>2. TypeOK'
    BY <1>3, <2>1 DEF ChipAnswers
  <2>3. IrqInv'
    BY <1>3 DEF ChipAnswers
  <2> QED
    BY <1>3, <2>2, <2>3 DEF ChipAnswers
<1> QED
  BY <1>1, <1>2, <1>3

-----------------------------------------------------------------------------
(***************************************************************************)
(* The exchange                                                            *)
(***************************************************************************)

\* The end of an exchange: what a call leaves to the caller.
LEMMA ReturnKeeps ==
    ASSUME DriverIInv, UNCHANGED Caller, consumed' \in 0 .. PN532_RESYNC_MAX_BYTES,
           pc \in DonePcs,
           NEW e \in {"OK", "FAIL", "INVALID_CRC", "INVALID_ARG", "INVALID_SIZE",
                      "INVALID_RESPONSE"} \cup BusErrors,
           e = "OK" => fresh,
           Return(e)
    PROVE  DriverIInv'
BY DEF Return, DriverIInv, DriverInv, TypeOK, I2cTypeOK, LockIsFree, DeviceOnLiveBus,
   RecoveryBounded, StageInv, HandleInv, CountInv, BoundInv, FreshInv, ResponseIsFresh,
   IrqInv, NoLostIrq, Ladder

\* The next call of an exchange that goes on: a wait or the read that follows it.
LEMMA CallKeeps ==
    ASSUME DriverIInv, UNCHANGED Caller, consumed' \in 0 .. PN532_RESYNC_MAX_BYTES,
           pc \in DonePcs,
           NEW stage \in {"ack", "response", "resync", "again"},
           NEW op \in {"wait", "read"},
           stage = "resync" => consumed' < PN532_RESYNC_MAX_BYTES,
           fresh,
           Call(stage, op)
    PROVE  DriverIInv'
BY DEF Call, DriverIInv, DriverInv, TypeOK, I2cTypeOK, LockIsFree, DeviceOnLiveBus,
   RecoveryBounded, StageInv, HandleInv, CountInv, BoundInv, FreshInv, ResponseIsFresh,
   IrqInv, NoLostIrq, Ladder

\* The NACK goes through a write of its own.
LEMMA NackKeeps ==
    ASSUME DriverIInv, UNCHANGED Caller, consumed' \in 0 .. PN532_RESYNC_MAX_BYTES,
           pc \in DonePcs \ {"written"},
           SendNack
    PROVE  DriverIInv'
BY DEF SendNack, DriverIInv, DriverInv, TypeOK, I2cTypeOK, LockIsFree, DeviceOnLiveBus,
   RecoveryBounded, StageInv, HandleInv, CountInv, BoundInv, FreshInv, ResponseIsFresh,
   IrqInv, NoLostIrq, Ladder

\* Every step of pn532.c between two operations of the transport.
LEMMA ExchangeKeeps ==
    ASSUME DriverIInv,
           \/ SendCommand \/ CommandWritten \/ NackWritten \/ FrameWaited
           \/ ReadFailed \/ AckReceived \/ ResponseReceived \/ Resynced
    PROVE  DriverIInv'
<1>0. /\ consumed \in 0 .. PN532_RESYNC_MAX_BYTES
      /\ err \in {"OK", "INVALID_ARG", "INVALID_RESPONSE"} \cup BusErrors
      /\ at = "resync" => consumed < PN532_RESYNC_MAX_BYTES
      /\ at \in {"ack", "response", "resync", "again"} => fresh
      /\ pc \in {"waited", "received"} => at \in {"ack", "response", "resync", "again"}
      /\ pc = "written" /\ at = "command" /\ err = "OK" => fresh
  BY DEF DriverIInv, DriverInv, TypeOK, I2cTypeOK, LockIsFree, DeviceOnLiveBus,
     RecoveryBounded, StageInv, HandleInv, CountInv, BoundInv, FreshInv,
     ResponseIsFresh, IrqInv, NoLostIrq, Ladder
<1>1. CASE SendCommand
  <2>1. {mutex, irq_mode, irq_sem, isr_pending, fresh}' \subseteq BOOLEAN
    BY <1>1 DEF SendCommand, DriverIInv, DriverInv, TypeOK, I2cTypeOK, LockIsFree,
       DeviceOnLiveBus, RecoveryBounded, StageInv, HandleInv, CountInv, BoundInv,
       FreshInv, ResponseIsFresh, IrqInv, NoLostIrq, Ladder
  <2>2. TypeOK'
    BY <1>1, <2>1 DEF SendCommand, DriverIInv, DriverInv, TypeOK, I2cTypeOK, LockIsFree,
       DeviceOnLiveBus, RecoveryBounded, StageInv, HandleInv, CountInv, BoundInv,
       FreshInv, ResponseIsFresh, IrqInv, NoLostIrq, Ladder
  <2> QED
    BY <1>1, <2>2 DEF SendCommand, DriverIInv, DriverInv, TypeOK, I2cTypeOK, LockIsFree,
       DeviceOnLiveBus, RecoveryBounded, StageInv, HandleInv, CountInv, BoundInv,
       FreshInv, ResponseIsFresh, IrqInv, NoLostIrq, Ladder
<1>2. CASE CommandWritten
  BY <1>0, <1>2, ReturnKeeps, CallKeeps DEF CommandWritten
<1>3. CASE NackWritten
  BY <1>0, <1>3, ReturnKeeps DEF NackWritten
<1>4. CASE FrameWaited
  BY <1>0, <1>4, CallKeeps, NackKeeps, ReturnKeeps DEF FrameWaited, GiveUp
<1>5. CASE ReadFailed
  BY <1>0, <1>5, NackKeeps, ReturnKeeps DEF ReadFailed, GiveUp
<1>6. CASE AckReceived
  BY <1>0, <1>6, ReturnKeeps, CallKeeps DEF AckReceived
<1>7. CASE ResponseReceived
  <2>1. pc = "received" /\ at \in {"response", "again"} /\ UNCHANGED Caller
    BY <1>7 DEF ResponseReceived
  <2>2. PICK parsed \in pn532_parse_frame(got) :
          \/ parsed # "INVALID_CRC" /\ Evaluate(parsed) /\ UNCHANGED consumed
          \/ /\ parsed = "INVALID_CRC" /\ at = "response"
             /\ Call("resync", "wait")
             /\ consumed' = 0
          \/ /\ parsed = "INVALID_CRC" /\ at = "again"
             /\ SendNack
             /\ UNCHANGED consumed
    BY <1>7 DEF ResponseReceived
  <2>3. parsed \in {"OK", "FAIL", "INVALID_SIZE", "INVALID_CRC", "INVALID_RESPONSE"}
    BY DEF pn532_parse_frame
  <2>4. CASE Evaluate(parsed) /\ UNCHANGED consumed
    BY <1>0, <2>1, <2>3, <2>4, ReturnKeeps DEF Evaluate
  <2>5. CASE Call("resync", "wait") /\ consumed' = 0
    BY <1>0, <2>1, <2>5, CallKeeps
  <2>6. CASE SendNack /\ UNCHANGED consumed
    BY <1>0, <2>1, <2>6, NackKeeps
  <2> QED
    BY <2>2, <2>4, <2>5, <2>6
<1>8. CASE Resynced
  <2>1. pc = "received" /\ at = "resync" /\ UNCHANGED Caller /\ consumed' = consumed + 1
    BY <1>8 DEF Resynced
  <2>2. consumed' \in 0 .. PN532_RESYNC_MAX_BYTES
    BY <1>0, <2>1
  <2>3. \/ Call("again", "wait")
        \/ consumed' < PN532_RESYNC_MAX_BYTES /\ Call("resync", "wait")
        \/ SendNack
    BY <1>8, <2>1 DEF Resynced
  <2> QED
    BY <1>0, <2>1, <2>2, <2>3, CallKeeps, NackKeeps
<1> QED
  BY <1>1, <1>2, <1>3, <1>4, <1>5, <1>6, <1>7, <1>8

-----------------------------------------------------------------------------
(***************************************************************************)
(* Theorems                                                                *)
(***************************************************************************)

\* Every step keeps the inductive invariant.
LEMMA NextIInv == DriverIInv /\ [Next]_vars => DriverIInv'
<1> SUFFICES ASSUME DriverIInv, [Next]_vars PROVE DriverIInv'
  OBVIOUS
<1>1. CASE Driver
  BY <1>1, WriteKeeps, WaitKeeps, ReadKeeps, ExchangeKeeps DEF Driver
<1>2. CASE SendCommand
  BY <1>2, ExchangeKeeps
<1>3. CASE (pn532_irq_isr \/ ChipAnswers) /\ UNCHANGED pnVars
  BY <1>3, ReadKeeps
<1>4. CASE UNCHANGED vars
  BY <1>4 DEF vars, Ready, DriverIInv, DriverInv, TypeOK, I2cTypeOK, LockIsFree,
     DeviceOnLiveBus, RecoveryBounded, StageInv, HandleInv, CountInv, BoundInv,
     FreshInv, ResponseIsFresh, IrqInv, NoLostIrq, Ladder
<1> QED
  BY <1>1, <1>2, <1>3, <1>4 DEF Next

\* Only the end of a write reports INVALID_STATE, and it has counted to the limit.
LEMMA FatalStep == DriverIInv /\ [Next]_vars => [FatalEarned]_vars
<1> SUFFICES ASSUME DriverIInv, Next, pc # "written", pc' = "written",
                    err' = "INVALID_STATE"
             PROVE  recovery_failures' >= PN532_RECOVERY_FAIL_LIMIT
  BY DEF FatalEarned
<1>1. WriteLimit \/ WriteUnlock
  BY DEF Next, Driver, SendCommand, CommandWritten, NackWritten, FrameWaited, ReadFailed,
     AckReceived, ResponseReceived, Resynced, Evaluate, Return, Call, GiveUp, SendNack,
     pn532_i2c_write, WriteLock, WriteTry, Recover, Resend, rebuild_i2c_device,
     rebuild_i2c_bus, Rung, pn532_i2c_wait_ready, WaitStart, WaitTake, WaitLevel,
     WaitPoll, Waited, pn532_i2c_read_frame, pn532_irq_isr, ChipAnswers
<1>2. CASE WriteLimit
  BY <1>2 DEF WriteLimit
<1>3. CASE WriteUnlock
  BY <1>3 DEF WriteUnlock
<1> QED
  BY <1>1, <1>2, <1>3

\* What every operation of the transport relies on: the bus mutex is free when no
\* write runs, a device handle never outlives its bus, and a dead bus is recovered
\* at most PN532_RECOVERY_FAIL_LIMIT times, on whichever rung each write fails
\* (pn532_i2c_write, recover_i2c_bus, rebuild_i2c_device, rebuild_i2c_bus).
THEOREM DriverCorrect == Spec => []DriverInv
<1>1. DriverIInv => DriverInv
  BY DEF DriverIInv
<1> QED
  BY InitIInv, NextIInv, <1>1, PTL DEF Spec

\* A response is returned only to the command it answers, whatever timed out or
\* failed before (pn532_receive_response, resync_frame).
THEOREM ResponsesAreFresh == Spec => []ResponseIsFresh
<1>1. DriverIInv => ResponseIsFresh
  BY DEF DriverIInv, FreshInv
<1> QED
  BY InitIInv, NextIInv, <1>1, PTL DEF Spec

\* No interrupt is missed between the look at the line and the wait
\* (wait_ready_irq, pn532_irq_isr).
THEOREM NoIrqIsLost == Spec => []NoLostIrq
<1>1. DriverIInv => NoLostIrq
  BY DEF DriverIInv, IrqInv
<1> QED
  BY InitIInv, NextIInv, <1>1, PTL DEF Spec

\* A write reports INVALID_STATE only after PN532_RECOVERY_FAIL_LIMIT failures in a
\* row (pn532_i2c_write).
THEOREM FatalErrorsAreEarned == Spec => FatalIsEarned
BY InitIInv, NextIInv, FatalStep, PTL DEF Spec, FatalIsEarned

=============================================================================
