------------------------------ MODULE Pn532I2c ------------------------------
(***************************************************************************)
(* The I2C transport of the PN532 driver (components/pn532/src/pn532_i2c.c)*)
(* as the firmware wires it: with a reset line, and with or without an IRQ *)
(* line.  An operation (write, wait_ready, read_frame) is called by setting*)
(* pc to its first place and returns at its last one with a result in err; *)
(* module Pn532 is the caller.                                             *)
(*                                                                         *)
(* The ESP-IDF I2C driver and the chip are external: a call on a handle    *)
(* that exists may fail in any way, one on a NULL handle is refused.       *)
(***************************************************************************)
EXTENDS Integers

CONSTANT PollMax  \* poll_max_retries (1000 in the firmware)

ASSUME PollAssumption == PollMax \in Nat \ {0}

VARIABLES
    bus, dev,           \* the handles: "live" or "null"
    mutex,              \* is the bus mutex held?
    recovery_failures,  \* pn532_i2c_ctx_t.recovery_failures
    irq_mode,           \* pn532_i2c_ctx_t.irq_mode, fixed by the wiring
    irq_sem,            \* the binary semaphore
    isr_pending,        \* the IRQ line fell and pn532_irq_isr has not run yet
    pc,                 \* place of the comm task in the transport
    attempt,            \* local of pn532_i2c_write
    iter,               \* local of wait_ready_poll
    err,                \* result of the last bus call, or of the operation
    frame,              \* what is being written: "command" or "nack"
    got,                \* what read_frame put into the buffer
    chip,               \* environment: what the PN532 is doing
    fresh,              \* history: chip works on the command of this exchange
    recoveries          \* history: recover_i2c_bus calls since a write succeeded

handleVars == <<bus, dev, mutex, recovery_failures, irq_mode>>
irqVars    == <<irq_sem, isr_pending>>
chipVars   == <<chip, fresh>>
localVars  == <<attempt, iter, frame, got>>
i2cVars    == <<handleVars, irqVars, pc, err, localVars, chipVars, recoveries>>

PN532_WRITE_MAX_RETRIES   == 5
PN532_RECOVERY_FAIL_LIMIT == 3

\* What the ESP-IDF reports for a handle that exists.
BusErrors == {"TIMEOUT", "INVALID_STATE"}

WritePcs == {"lock", "try", "limit", "recover", "resend", "dev_rm", "dev_add",
             "dev_resend", "bus_rm", "bus_del", "bus_new", "bus_add",
             "bus_resend", "unlock"}
WaitPcs  == {"wait", "sem", "level", "poll"}
DonePcs  == {"written", "waited", "received"}

\* The chip holds a frame for the host, and pulls the IRQ line low.
Ready == chip \in {"ack", "rsp"}

\* The chip when its frame has been read.
AfterRead == IF chip = "ack" THEN "busy_rsp" ELSE "idle"

-----------------------------------------------------------------------------
(***************************************************************************)
(* pn532_i2c_write: five attempts, then the recovery ladder                *)
(***************************************************************************)

WriteLock ==
    /\ pc = "lock" /\ ~mutex
    /\ mutex' = TRUE
    /\ attempt' = 0
    /\ pc' = "try"
    /\ UNCHANGED <<bus, dev, recovery_failures, irq_mode, irqVars, err, iter,
                   frame, got, chipVars, recoveries>>

\* The chip gives up whatever it was doing for a new command; after a NACK it
\* sends its last response again.
AfterWrite == IF frame = "command" THEN "busy_ack" ELSE "busy_rsp"

\* i2c_master_transmit with result e.  An error may come after the chip has the
\* whole frame.
Transmit(e) ==
    /\ e \in IF dev = "null" THEN {"INVALID_ARG"} ELSE {"OK"} \cup BusErrors
    /\ err' = e
    /\ chip' \in CASE e = "OK"          -> {AfterWrite}
                   [] e \in BusErrors   -> {AfterWrite, chip}
                   [] OTHER             -> {chip}
    /\ fresh' = (fresh \/ (e = "OK" /\ frame = "command"))

WriteTry ==
    /\ pc = "try"
    /\ \E e \in {"OK", "INVALID_ARG"} \cup BusErrors :
          /\ Transmit(e)
          /\ pc' = IF e = "OK" THEN "unlock"
                   ELSE IF attempt + 1 < PN532_WRITE_MAX_RETRIES THEN "try" ELSE "limit"
    /\ attempt' = attempt + 1
    /\ UNCHANGED <<handleVars, irqVars, iter, frame, got, recoveries>>

WriteLimit ==
    /\ pc = "limit"
    /\ IF recovery_failures >= PN532_RECOVERY_FAIL_LIMIT
       THEN pc' = "written" /\ err' = "INVALID_STATE" /\ mutex' = FALSE
       ELSE pc' = "recover" /\ UNCHANGED <<err, mutex>>
    /\ UNCHANGED <<bus, dev, recovery_failures, irq_mode, irqVars, localVars,
                   chipVars, recoveries>>

\* recover_i2c_bus: SDA may be high, be released or stay low; the controller is
\* reset, then the chip.  When it fails, err is still that of the last attempt.
Recover ==
    /\ pc = "recover"
    /\ recoveries' = recoveries + 1
    /\ \/ bus = "live" /\ pc' = "resend" /\ chip' = "idle"
       \/ pc' = "unlock" /\ UNCHANGED chip
    /\ UNCHANGED <<handleVars, irqVars, err, localVars, fresh>>

\* The transmit after a rung of the ladder; only INVALID_STATE climbs on.
Resend(here, rung) ==
    /\ pc = here
    /\ \E e \in {"OK", "INVALID_ARG"} \cup BusErrors :
          /\ Transmit(e)
          /\ pc' = IF e = "INVALID_STATE" THEN rung ELSE "unlock"
    /\ UNCHANGED <<handleVars, irqVars, localVars, recoveries>>

\* A bus or device call of a rung: it succeeds with the given effect on the
\* handles, or fails and leaves the rung.
Rung(here, handles, onOk, onFail) ==
    /\ pc = here
    /\ \/ bus' = handles[1] /\ dev' = handles[2] /\ pc' = onOk
       \/ pc' = onFail /\ UNCHANGED <<bus, dev>>
    /\ UNCHANGED <<mutex, recovery_failures, irq_mode, irqVars, err, localVars,
                   chipVars, recoveries>>

\* rebuild_i2c_device
rebuild_i2c_device ==
    \/ Rung("dev_rm", <<bus, "null">>, "dev_add", "bus_rm")
    \/ Rung("dev_add", <<bus, "live">>, "dev_resend", "bus_rm")

\* A rebuild that leaves the device to the bus.
rebuild_i2c_bus_KeepsDevice ==
    \/ Rung("bus_rm", <<bus, dev>>, "bus_del", "unlock")
    \/ Rung("bus_del", <<"null", dev>>, "bus_new", "unlock")
    \/ Rung("bus_new", <<"live", dev>>, "bus_add", "unlock")
    \/ Rung("bus_add", <<bus, "live">>, "bus_resend", "unlock")

\* rebuild_i2c_bus; a device that is already gone is not removed again.
rebuild_i2c_bus ==
    \/ Rung("bus_rm", <<bus, "null">>, "bus_del",
            IF dev = "null" THEN "bus_del" ELSE "unlock")
    \/ Rung("bus_del", <<"null", dev>>, "bus_new", "unlock")
    \/ Rung("bus_new", <<"live", dev>>, "bus_add", "unlock")
    \/ Rung("bus_add", <<bus, "live">>, "bus_resend", "unlock")

\* A write that hands the error of the last transmit to its caller.
WriteUnlock_RawError ==
    /\ pc = "unlock"
    /\ mutex' = FALSE
    /\ recovery_failures' = IF err = "OK" THEN 0 ELSE recovery_failures + 1
    /\ recoveries' = IF err = "OK" THEN 0 ELSE recoveries
    /\ pc' = "written"
    /\ UNCHANGED <<bus, dev, irq_mode, irqVars, err, localVars, chipVars>>

\* Success clears the count; a failure is a TIMEOUT until the limit is reached.
WriteUnlock ==
    /\ pc = "unlock"
    /\ mutex' = FALSE
    /\ recovery_failures' = IF err = "OK" THEN 0 ELSE recovery_failures + 1
    /\ recoveries' = IF err = "OK" THEN 0 ELSE recoveries
    /\ err' = IF err = "OK" THEN "OK"
              ELSE IF recovery_failures + 1 >= PN532_RECOVERY_FAIL_LIMIT
                   THEN "INVALID_STATE" ELSE "TIMEOUT"
    /\ pc' = "written"
    /\ UNCHANGED <<bus, dev, irq_mode, irqVars, localVars, chipVars>>

pn532_i2c_write ==
    \/ WriteLock
    \/ WriteTry
    \/ WriteLimit
    \/ Recover
    \/ Resend("resend", "dev_rm")
    \/ rebuild_i2c_device
    \/ Resend("dev_resend", "bus_rm")
    \/ rebuild_i2c_bus
    \/ Resend("bus_resend", "unlock")
    \/ WriteUnlock

-----------------------------------------------------------------------------
(***************************************************************************)
(* pn532_i2c_wait_ready, by IRQ or by polling                              *)
(***************************************************************************)

Waited(e) == pc' = "waited" /\ err' = e

\* A wait that goes to the semaphore at once.
WaitStart_NoLevel ==
    /\ pc = "wait"
    /\ pc' = (IF irq_mode THEN "sem" ELSE "poll")
    /\ iter' = 0
    /\ UNCHANGED <<handleVars, irqVars, err, attempt, frame, got, chipVars,
                   recoveries>>

\* wait_ready_irq looks at the line first ...
WaitStart ==
    /\ pc = "wait"
    /\ \/ irq_mode /\ Ready /\ Waited("OK")
       \/ irq_mode /\ ~Ready /\ pc' = "sem" /\ UNCHANGED err
       \/ ~irq_mode /\ pc' = "poll" /\ UNCHANGED err
    /\ iter' = 0
    /\ UNCHANGED <<handleVars, irqVars, attempt, frame, got, chipVars,
                   recoveries>>

\* ... then takes the semaphore ...
WaitTake ==
    /\ pc = "sem"
    /\ \/ irq_sem /\ irq_sem' = FALSE /\ Waited("OK")
       \/ ~irq_sem /\ pc' = "level" /\ UNCHANGED <<irq_sem, err>>
    /\ UNCHANGED <<handleVars, isr_pending, localVars, chipVars, recoveries>>

\* ... and looks again after a timeout.
WaitLevel ==
    /\ pc = "level"
    /\ Waited(IF Ready THEN "OK" ELSE "TIMEOUT")
    /\ UNCHANGED <<handleVars, irqVars, localVars, chipVars, recoveries>>

\* One pn532_i2c_read_status of wait_ready_poll; a failed one counts as not
\* ready.
WaitPoll ==
    /\ pc = "poll" /\ ~mutex
    /\ iter' = iter + 1
    /\ \/ dev = "live" /\ Ready /\ Waited("OK")
       \/ iter + 1 < PollMax /\ UNCHANGED <<pc, err>>
       \/ Waited("TIMEOUT")
    /\ UNCHANGED <<handleVars, irqVars, attempt, frame, got, chipVars,
                   recoveries>>

pn532_i2c_wait_ready == WaitStart \/ WaitTake \/ WaitLevel \/ WaitPoll

pn532_irq_isr ==
    /\ isr_pending
    /\ isr_pending' = FALSE
    /\ irq_sem' = TRUE
    /\ UNCHANGED <<handleVars, pc, err, localVars, chipVars, recoveries>>

-----------------------------------------------------------------------------

\* Status byte and frame in one transaction.  A read that fails or arrives garbled
\* may leave the chip with the frame, or have taken it.
pn532_i2c_read_frame ==
    /\ pc = "read" /\ ~mutex
    /\ pc' = "received"
    /\ \/ dev = "null" /\ err' = "INVALID_ARG" /\ UNCHANGED <<got, chip>>
       \/ dev = "live" /\ err' \in BusErrors /\ UNCHANGED got
              /\ chip' \in IF Ready THEN {chip, AfterRead} ELSE {chip}
       \/ dev = "live" /\ ~Ready /\ err' = "INVALID_RESPONSE"
              /\ UNCHANGED <<got, chip>>
       \/ dev = "live" /\ Ready /\ err' = "OK"
              /\ \/ got' = chip /\ chip' = AfterRead
                 \/ got' = "garbled" /\ chip' \in {chip, AfterRead}
    /\ UNCHANGED <<handleVars, irqVars, attempt, iter, frame, fresh, recoveries>>

-----------------------------------------------------------------------------

\* The chip finishes an ACK or a response: a falling edge on the IRQ line.
ChipAnswers ==
    /\ chip \in {"busy_ack", "busy_rsp"}
    /\ chip' = IF chip = "busy_ack" THEN "ack" ELSE "rsp"
    /\ isr_pending' = irq_mode
    /\ UNCHANGED <<handleVars, irq_sem, pc, err, localVars, fresh, recoveries>>

I2cInit ==
    /\ bus = "live" /\ dev = "live"
    /\ mutex = FALSE
    /\ recovery_failures = 0
    /\ irq_mode \in BOOLEAN
    /\ irq_sem = FALSE /\ isr_pending = FALSE
    /\ pc = "idle"
    /\ attempt = 0 /\ iter = 0
    /\ err = "OK"
    /\ frame = "command"
    /\ got = "garbled"
    /\ chip = "idle"
    /\ fresh = FALSE
    /\ recoveries = 0

I2cTypeOK ==
    /\ bus \in {"live", "null"}
    /\ dev \in {"live", "null"}
    /\ {mutex, irq_mode, irq_sem, isr_pending, fresh} \subseteq BOOLEAN
    /\ recovery_failures \in 0 .. PN532_RECOVERY_FAIL_LIMIT
    /\ pc \in {"idle", "read"} \cup WritePcs \cup WaitPcs \cup DonePcs
    /\ attempt \in 0 .. PN532_WRITE_MAX_RETRIES
    /\ iter \in 0 .. PollMax
    /\ err \in {"OK", "INVALID_ARG", "INVALID_RESPONSE"} \cup BusErrors
    /\ frame \in {"command", "nack"}
    /\ got \in {"ack", "rsp", "garbled"}
    /\ chip \in {"idle", "busy_ack", "ack", "busy_rsp", "rsp"}
    /\ recoveries \in Nat

=============================================================================
