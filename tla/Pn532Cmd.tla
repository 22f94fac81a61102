------------------------------ MODULE Pn532Cmd ------------------------------
(***************************************************************************)
(* The PN532 commands (pn532/src/pn532_cmd.c) and what lli.c makes of      *)
(* their results.  A call is a script of commands; every command is one    *)
(* exchange, the command frame out and the response frame in.  What        *)
(* the transport does in an exchange (the waits, the resync, the mutex,    *)
(* the recovery of the bus) is module Pn532: here it succeeds or returns   *)
(* an error.  What the frames hold is module Pn532Frame: here every        *)
(* response is built, over-read, damaged in one byte or none, and parsed.  *)
(*                                                                         *)
(* InListPassiveTarget, an initiator's command, is left out; the commands  *)
(* that only the driver's own API offers are called as they are.           *)
(***************************************************************************)
EXTENDS Pn532Frame

CONSTANTS
    Payloads,      \* the data that goes through the chip, either way
    History,       \* the general and historical bytes of the card identity
    BufLen,        \* the caller's buffer
    MaxFragments,  \* bound: the fragments of a chained response
    Pads,          \* what is read beyond the end of a frame
    Damages        \* what is added to the damaged byte

PN532_TG_MAX_GTK_LEN == 47
Bytes == 0 .. 255
ASSUME PayloadsAssumption == /\ Payloads \subseteq Seq(Bytes)
                             /\ History \subseteq Seq(Bytes)
                             /\ \A bytes \in History : Len(bytes) <= PN532_TG_MAX_GTK_LEN
ASSUME BufLenAssumption == BufLen \in Nat
ASSUME DamagesAssumption == Pads \subseteq Bytes /\ Damages \subseteq 1 .. 255

PN532_TG_MAX_DATA_LEN == 262
PN532_TG_STATUS_NAD_BIT == 128
PN532_TG_STATUS_MI_BIT == 64
PN532_TG_STATUS_ERR_MASK == 63
PN532_PARAM_RFU == {8, 128}

\* The command codes; the code of a response is one higher.  The raw TgGetData is
\* the one lli_receive_apdu sends by itself.
Code == [GetFirmwareVersion |-> 2, SAMConfiguration |-> 20, SetParameters |-> 18,
         TgInitAsTarget |-> 140, TgGetTargetStatus |-> 138, TgGetData |-> 134,
         RawTgGetData |-> 134, TgSetData |-> 142, TgGetInitiatorCommand |-> 136,
         TgResponseToInitiator |-> 144, TgSetMetaData |-> 148]
Commands == DOMAIN Code

\* The buffer each command gives to pn532_receive_response.
RspSize == [GetFirmwareVersion |-> 5, SAMConfiguration |-> 1, SetParameters |-> 1,
            TgInitAsTarget |-> 2 + PN532_TG_MAX_DATA_LEN, TgGetTargetStatus |-> 8,
            TgGetData |-> 1 + PN532_TG_MAX_DATA_LEN + 1,
            RawTgGetData |-> PN532_MAX_PAYLOAD_LEN, TgSetData |-> 2,
            TgGetInitiatorCommand |-> 2 + PN532_TG_MAX_DATA_LEN,
            TgResponseToInitiator |-> 2, TgSetMetaData |-> 2]

Writers == {"TgSetData", "TgResponseToInitiator", "TgSetMetaData"}
Readers == {"TgGetData", "RawTgGetData", "TgGetInitiatorCommand"}
DriverErrors == {"TIMEOUT", "INVALID_STATE", "FAIL"}

VARIABLES
    call,    \* the function called last, or "none"
    arg,     \* the data it was called with
    todo,    \* the commands it has yet to complete; <<>> once it has returned
    wire,    \* the command frame on the wire; <<>> while there is none
    out,     \* the data it has gathered
    ret,     \* what the last call returned
    chip,    \* the configuration commands in force in the chip
    reset,   \* history: the chip was reset during this call
    answer,  \* history: the data the chip gave in answer to this call
    done,    \* history: the commands of this call the chip answered for well
    fault    \* history: the transport's error that ended this call, or "NONE"
vars == <<call, arg, todo, wire, out, ret, chip, reset, answer, done, fault>>
callVars == <<call, arg, todo, out, ret>>
history == <<reset, answer, done, fault>>

-----------------------------------------------------------------------------
(***************************************************************************)
(* Calls                                                                   *)
(***************************************************************************)

configure_pn532 == <<"SAMConfiguration", "SetParameters">>

\* An lli_activate that trusts the configuration of lli_init.
lli_activate_TrustsInit == <<"TgInitAsTarget">>
lli_activate == configure_pn532 \o <<"TgInitAsTarget">>
lli_init == <<"GetFirmwareVersion">> \o configure_pn532

Script == [lli_init |-> lli_init, lli_activate |-> lli_activate,
           lli_receive_apdu |-> <<"RawTgGetData">>, lli_send_apdu |-> <<"TgSetData">>,
           lli_get_link_status |-> <<"TgGetTargetStatus">>,
           pn532_tg_get_data |-> <<"TgGetData">>,
           pn532_tg_get_initiator_command |-> <<"TgGetInitiatorCommand">>,
           pn532_tg_response_to_initiator |-> <<"TgResponseToInitiator">>,
           pn532_tg_set_meta_data |-> <<"TgSetMetaData">>]
Calls == DOMAIN Script

Zeros(n) == [i \in 1 .. n |-> 0]

\* PICC only and passive only, the identity of the card, and the general and the
\* historical bytes, each after its length.
tg_init_params(bytes) ==
    <<5>> \o Zeros(34) \o <<Len(bytes)>> \o bytes \o <<Len(bytes)>> \o bytes

Params(command, data) ==
    CASE command = "SAMConfiguration" -> <<1, 0, 1>>
      [] command = "SetParameters"    -> <<36>>
      [] command = "TgInitAsTarget"   -> tg_init_params(data)
      [] command \in Writers          -> data
      [] OTHER                        -> <<>>

\* What a command refuses before it sends anything.
Refused(command, params) ==
    CASE command \in Writers /\ Len(params) > PN532_TG_MAX_DATA_LEN -> "INVALID_SIZE"
      [] command = "SetParameters"
         /\ \E bit \in PN532_PARAM_RFU : (params[1] \div bit) % 2 = 1 -> "INVALID_ARG"
      [] OTHER -> "OK"

-----------------------------------------------------------------------------
(***************************************************************************)
(* Responses; rsp[1] is the response code.                                 *)
(***************************************************************************)

Answers(rsp, command, min) == Len(rsp) >= min /\ rsp[1] = Code[command] + 1
OkIf(condition) == IF condition THEN "OK" ELSE "FAIL"

pn532_get_firmware_version(rsp) ==
    OkIf(Answers(rsp, "GetFirmwareVersion", 5) /\ rsp[2] = 50)
pn532_sam_configuration(rsp) == OkIf(Answers(rsp, "SAMConfiguration", 1))
pn532_set_parameters(rsp) == OkIf(Answers(rsp, "SetParameters", 1))
pn532_tg_get_target_status(rsp) == OkIf(Answers(rsp, "TgGetTargetStatus", 3))

pn532_tg_init_as_target(rsp) == OkIf(Answers(rsp, "TgInitAsTarget", 2))

pn532_tg_get_data(rsp) ==
    OkIf(Answers(rsp, "TgGetData", 2) /\ rsp[2] % (PN532_TG_STATUS_ERR_MASK + 1) = 0)
pn532_tg_get_initiator_command(rsp) ==
    OkIf(Answers(rsp, "TgGetInitiatorCommand", 2) /\ rsp[2] = 0)

\* A TgSetData that is content with any status.
pn532_tg_set_data_AnyStatus(rsp) == OkIf(Answers(rsp, "TgSetData", 2))
pn532_tg_set_data(rsp) == OkIf(Answers(rsp, "TgSetData", 2) /\ rsp[2] = 0)
pn532_tg_response_to_initiator(rsp) ==
    OkIf(Answers(rsp, "TgResponseToInitiator", 2) /\ rsp[2] = 0)
pn532_tg_set_meta_data(rsp) == OkIf(Answers(rsp, "TgSetMetaData", 2) /\ rsp[2] = 0)

\* lli_receive_apdu looks at the status itself: 1 is a timeout, 0x29 and 0x0B are
\* a phone that has gone.
lli_receive_status(rsp) ==
    IF ~Answers(rsp, "RawTgGetData", 2) THEN "FRAME_INTEGRITY"
    ELSE CASE rsp[2] = 0          -> "OK"
           [] rsp[2] = 1          -> "TIMEOUT"
           [] rsp[2] \in {41, 11} -> "LINK_RELEASED"
           [] OTHER               -> "FRAME_INTEGRITY"

Evaluate(command, rsp) ==
    CASE command = "GetFirmwareVersion"    -> pn532_get_firmware_version(rsp)
      [] command = "SAMConfiguration"      -> pn532_sam_configuration(rsp)
      [] command = "SetParameters"         -> pn532_set_parameters(rsp)
      [] command = "TgInitAsTarget"        -> pn532_tg_init_as_target(rsp)
      [] command = "TgGetTargetStatus"     -> pn532_tg_get_target_status(rsp)
      [] command = "TgGetData"             -> pn532_tg_get_data(rsp)
      [] command = "RawTgGetData"          -> lli_receive_status(rsp)
      [] command = "TgSetData"             -> pn532_tg_set_data(rsp)
      [] command = "TgGetInitiatorCommand" -> pn532_tg_get_initiator_command(rsp)
      [] command = "TgResponseToInitiator" -> pn532_tg_response_to_initiator(rsp)
      [] command = "TgSetMetaData"         -> pn532_tg_set_meta_data(rsp)

\* Only TgGetData knows of chaining and of the NAD byte.
MoreInformation(command, rsp) ==
    command = "TgGetData" /\ (rsp[2] \div PN532_TG_STATUS_MI_BIT) % 2 = 1
HasNad(command, rsp) ==
    command = "TgGetData" /\ (rsp[2] \div PN532_TG_STATUS_NAD_BIT) % 2 = 1
DataIn(command, rsp) ==
    IF command \notin Readers THEN <<>>
    ELSE SubSeq(rsp, IF HasNad(command, rsp) THEN 4 ELSE 3, Len(rsp))

\* A mapping that takes a timeout for the end of the bus as well.
lli_err_from_esp_Timeout(err, fallback) ==
    IF err \in {"INVALID_STATE", "TIMEOUT"} THEN "BUS_FATAL" ELSE fallback

\* The wedged controller is told from every other failure.
lli_err_from_esp(err, fallback) == IF err = "INVALID_STATE" THEN "BUS_FATAL" ELSE fallback

\* What the call returns when a command failed with err: while it was being sent,
\* or when its response was received.
ResultOf(err, receiving) ==
    CASE call = "lli_init" -> lli_err_from_esp(err, "INTERNAL")
      [] call = "lli_activate" ->
            IF Head(todo) = "TgInitAsTarget" /\ err = "TIMEOUT" THEN "TIMEOUT"
            ELSE lli_err_from_esp(err, "INTERNAL")
      [] call = "lli_receive_apdu" ->
            IF err \in {"TIMEOUT", "LINK_RELEASED"} THEN err
            ELSE lli_err_from_esp(err, IF receiving THEN "FRAME_INTEGRITY" ELSE "INTERNAL")
      [] call = "lli_send_apdu" -> lli_err_from_esp(err, "SEND_FAILED")
      [] call = "lli_get_link_status" -> "ERROR"
      [] OTHER -> err

LinkStatus(state) ==
    CASE state \in {129, 130} -> "ACTIVE"
      [] state \in {128, 0}   -> "RELEASED"
      [] OTHER                -> "ERROR"

-----------------------------------------------------------------------------
(***************************************************************************)
(* The chip                                                                *)
(***************************************************************************)

\* What the chip reads out of a frame, by the layout of the PN532's manual: its
\* TFI and data.
ChipReads(frame) ==
    IF SubSeq(frame, 4, 5) = <<255, 255>>
    THEN SubSeq(frame, 9, 8 + 256 * frame[6] + frame[7])
    ELSE SubSeq(frame, 6, 5 + frame[4])

Statuses == {0, 1, 11, 41, 2}

\* The responses the chip may give to a command.
Replies(command) ==
    LET rsp == Code[command] + 1
    IN  CASE command = "GetFirmwareVersion" -> {<<rsp, ic, 1, 6, 7>> : ic \in {50, 7}}
          [] command \in {"SAMConfiguration", "SetParameters"} -> {<<rsp>>}
          [] command = "TgInitAsTarget" -> {<<rsp, 8>> \o first : first \in Payloads}
          [] command = "TgGetTargetStatus" ->
                {<<rsp, state, 0>> : state \in {0, 1, 128, 129, 130}}
          [] command \in Writers -> {<<rsp, status>> : status \in Statuses}
          [] OTHER ->
                {<<rsp, 0>> \o data : data \in Payloads}
                \cup {<<rsp, status>> : status \in Statuses}
                \cup (IF command # "TgGetData" THEN {}
                      ELSE {<<rsp, PN532_TG_STATUS_MI_BIT>> \o data : data \in Payloads}
                           \cup {<<rsp, PN532_TG_STATUS_NAD_BIT, 0>> \o data :
                                    data \in Payloads})

\* What a response stands for: the data of a reader, whether the command was done.
Positive(command, rsp) ==
    CASE command = "GetFirmwareVersion" -> rsp[2] = 50
      [] command = "TgGetData"          -> rsp[2] \in {0, 64, 128}
      [] command \in (Readers \ {"TgGetData"}) \cup Writers -> rsp[2] = 0
      [] OTHER                          -> TRUE

ErrorFrame == <<0, 0, 255, 1, 255, 127, 129, 0>>
StaleReply(command) ==
    <<1 + IF command = "TgSetData" THEN Code["TgGetData"] ELSE Code["TgSetData"], 0>>

\* A damaged byte is one of the first or of the last.
Damageable(frame) == (1 .. 14 \cup (Len(frame) - 4) .. Len(frame)) \cap DOMAIN frame
Damaged(frame) ==
    {frame} \cup {[frame EXCEPT ![i] = (@ + d) % 256] : i \in Damageable(frame), d \in Damages}

\* What tp_read_frame puts into the buffer.
OverRead(frame, pad) ==
    <<1>> \o frame \o [i \in 1 .. PN532_RX_BUF_SIZE - 1 - Len(frame) |-> pad]

Parses(frames, command) ==
    {pn532_parse_frame(OverRead(f, pad), RspSize[command]) : f \in frames, pad \in Pads}
ReplyFrame(rsp) == Frame(<<PN532_TFI_PN532_TO_HOST>> \o rsp)

\* For every command and response, what pn532_receive_response may make of it.
Received == [c \in Commands |-> [rsp \in {r \in Replies(c) : Len(r) < PN532_MAX_PAYLOAD_LEN} |->
                Parses(Damaged(ReplyFrame(rsp)), c)]]

\* resync_frame has taken the preamble and the start code, 00 00 FF, so that the
\* read after it begins with the length; from a frame sent anew it is whole.
Headless(frame) == SubSeq(frame, 4, Len(frame))
Retried == [c \in Commands |-> [rsp \in {r \in Replies(c) : Len(r) < PN532_MAX_PAYLOAD_LEN} |->
                Parses({ReplyFrame(rsp), Headless(ReplyFrame(rsp))}, c)]]

\* A limit of what a frame protects: no reply holds, or is followed by, bytes that
\* pass for another reply once its start code is damaged ...
DamagedReply(rsp, k, d) == [ReplyFrame(rsp) EXCEPT ![k] = (@ + d) % 256]
StartDamageIsNoticed ==
    \A c \in Commands, pad \in Pads, k \in {2, 3}, d \in Damages :
        \A rsp \in {r \in Replies(c) : Len(r) < PN532_MAX_PAYLOAD_LEN} :
            LET parsed == pn532_parse_frame(OverRead(DamagedReply(rsp, k, d), pad), RspSize[c])
            IN  parsed.err = "OK" => parsed.data = rsp

\* ... or gone.
HeadlessIsNoticed ==
    \A c \in Commands, pad \in Pads :
        \A rsp \in {r \in Replies(c) : Len(r) < PN532_MAX_PAYLOAD_LEN} :
            LET parsed == pn532_parse_frame(OverRead(Headless(ReplyFrame(rsp)), pad), RspSize[c])
            IN  parsed.err = "OK" => parsed.data = rsp

DataIsNoFrame == StartDamageIsNoticed /\ HeadlessIsNoticed

Unrelated == [c \in Commands |-> Parses({ErrorFrame, ReplyFrame(StaleReply(c))}, c)]

-----------------------------------------------------------------------------
(***************************************************************************)
(* Actions                                                                 *)
(***************************************************************************)

Return(result) ==
    /\ todo' = <<>>
    /\ wire' = <<>>
    /\ ret' = result
    /\ UNCHANGED <<call, arg>>

Call ==
    /\ todo = <<>>
    /\ call' \in Calls
    /\ arg' \in CASE call' \in {"lli_send_apdu", "pn532_tg_response_to_initiator",
                                "pn532_tg_set_meta_data"} -> Payloads
                  [] call' = "lli_activate" -> History
                  [] OTHER -> {<<>>}
    /\ todo' = Script[call']
    /\ out' = <<>>
    /\ ret' = "NONE"
    /\ reset' = FALSE
    /\ answer' = <<>>
    /\ done' = <<>>
    /\ fault' = "NONE"
    /\ UNCHANGED <<wire, chip>>

\* The chip takes a configuration command for done.
Configure(command) ==
    chip' = IF command \in {"SAMConfiguration", "SetParameters"} THEN chip \cup {command}
                                                                  ELSE chip

\* pn532_send_command: the frame is written, and the ACK is there, whole or
\* damaged, or the transport fails on the way.
Send ==
    /\ todo # <<>> /\ wire = <<>>
    /\ LET command == Head(todo)
           params == Params(command, arg)
           refused == Refused(command, params)
       IN  IF refused # "OK"
           THEN Return(ResultOf(refused, FALSE)) /\ UNCHANGED <<chip, fault>>
           ELSE \/ /\ \E ack \in Damaged(PN532_ACK_FRAME) :
                         IF pn532_match_fixed(ack, PN532_ACK_FRAME)
                         THEN /\ wire' = pn532_build_frame(Code[command], params)
                              /\ UNCHANGED <<call, arg, todo, ret, fault>>
                         ELSE Return(ResultOf("FAIL", FALSE)) /\ fault' = "FAIL"
                   /\ Configure(command)
                \/ \E e \in DriverErrors :
                      /\ Return(ResultOf(e, FALSE))
                      /\ fault' = e
                      /\ chip' = chip \/ Configure(command)
    /\ UNCHANGED <<out, reset, answer, done>>

Accumulates(data) ==
    Head(todo) = "TgGetData" => Len(out) + Len(data) <= PN532_MAX_PAYLOAD_LEN

\* A response the command is content with: the next fragment, the next command or
\* the return.
Accept(command, rsp) ==
    LET data == DataIn(command, rsp)
    IN  IF ~Accumulates(data) THEN Return(ResultOf("INVALID_SIZE", TRUE)) /\ UNCHANGED out
        ELSE IF MoreInformation(command, rsp)
        THEN /\ out' = out \o data
             /\ wire' = <<>>
             /\ UNCHANGED <<call, arg, todo, ret>>
        ELSE IF Len(todo) > 1
        THEN todo' = Tail(todo) /\ wire' = <<>> /\ UNCHANGED <<call, arg, out, ret>>
        ELSE IF Len(out \o data) > BufLen /\ command \in Readers
        THEN Return(ResultOf("INVALID_SIZE", TRUE)) /\ UNCHANGED out
        ELSE /\ out' = out \o data
             /\ Return(IF command = "TgGetTargetStatus" THEN LinkStatus(rsp[2]) ELSE "OK")

\* What the parser returned, and what the command makes of it.
Take(parsed) ==
    LET command == Head(todo)
        err == IF parsed.err = "OK" THEN Evaluate(command, parsed.data) ELSE parsed.err
    IN  IF err = "OK" THEN Accept(command, parsed.data)
        ELSE Return(ResultOf(err, TRUE)) /\ UNCHANGED out

\* pn532_receive_response: a response is there, whole or damaged; after a
\* checksum error and a resync the frame, or its rest, is read once more.
Receive ==
    /\ wire # <<>>
    /\ LET command == Head(todo)
       IN  \E rsp \in DOMAIN Received[command] :
              /\ MoreInformation(command, rsp) => Len(done) + 1 < MaxFragments
              /\ \E first \in Received[command][rsp] :
                    \/ Take(first)
                    \/ first.err = "INVALID_CRC" /\ \E again \in Retried[command][rsp] : Take(again)
              /\ done' = IF Positive(command, rsp) THEN Append(done, ChipReads(wire)) ELSE done
              /\ answer' = answer \o (IF Positive(command, rsp) THEN DataIn(command, rsp) ELSE <<>>)
    /\ UNCHANGED <<chip, reset, fault>>

\* The chip did not take the command, or what comes is the answer to another one.
ReceiveUnrelated ==
    /\ wire # <<>>
    /\ \E parsed \in Unrelated[Head(todo)] : Take(parsed)
    /\ UNCHANGED <<chip, history>>

\* The wait or the read fails; the chip may have done the command.
ReceiveFails ==
    /\ wire # <<>>
    /\ \E e \in DriverErrors : Return(ResultOf(e, TRUE)) /\ fault' = e
    /\ UNCHANGED <<out, chip, reset, answer, done>>

\* A silent reset of the chip, which the firmware is not told of.
ChipResets ==
    /\ chip' = {}
    /\ reset' = (todo # <<>>)
    /\ UNCHANGED <<callVars, wire, answer, done, fault>>

Init ==
    /\ call = "none"
    /\ arg = <<>> /\ todo = <<>> /\ wire = <<>> /\ out = <<>>
    /\ ret = "NONE"
    /\ chip = {}
    /\ reset = FALSE
    /\ answer = <<>> /\ done = <<>>
    /\ fault = "NONE"

Next ==
    \/ Call
    \/ Send
    \/ Receive
    \/ ReceiveUnrelated
    \/ ReceiveFails
    \/ ChipResets

Spec == Init /\ [][Next]_vars

-----------------------------------------------------------------------------
(***************************************************************************)
(* Properties                                                              *)
(***************************************************************************)

\* Every frame fits pn532_send_command's buffer, the gathered data fits the
\* accumulator of pn532_tg_get_data, and every result is a known one.
TypeOK ==
    /\ call \in Calls \cup {"none"}
    /\ \A i \in DOMAIN todo : todo[i] \in Commands
    /\ Len(wire) <= PN532_TX_BUF_SIZE
    /\ Len(out) <= PN532_MAX_PAYLOAD_LEN
    /\ ret \in {"NONE", "OK", "FAIL", "TIMEOUT", "INTERNAL", "BUS_FATAL", "FRAME_INTEGRITY",
                "LINK_RELEASED", "SEND_FAILED", "ACTIVE", "RELEASED", "ERROR", "INVALID_CRC",
                "INVALID_SIZE", "INVALID_STATE", "INVALID_ARG", "INVALID_RESPONSE"}
    /\ chip \subseteq {"SAMConfiguration", "SetParameters"}
    /\ fault \in DriverErrors \cup {"NONE"}

\* What a call hands to its caller is, to the byte and to the end of the last
\* fragment, what the chip answered to this call, although a byte of every response
\* may be damaged anywhere in it and more is read than the chip sent
\* (pn532_parse_frame).
DeliveredIsSent == ret = "OK" => out = answer

\* A command reaches the chip as it was meant, at every length a caller may give,
\* over the border between normal and extended frames (pn532_build_frame).
CommandArrives ==
    wire # <<>> => ChipReads(wire) = <<PN532_TFI_HOST_TO_PN532, Code[Head(todo)]>>
                                        \o Params(Head(todo), arg)

\* A call that reports success has had every command of its script taken and
\* answered for by the chip, with all its parameters: a phone is not believed to
\* have an answer the chip has refused to send.
OkMeansDone ==
    ret = "OK" =>
        LET script == Script[call]
        IN  /\ Len(script) <= Len(done)
            /\ \A i \in DOMAIN script :
                  done[i] = <<PN532_TFI_HOST_TO_PN532, Code[script[i]]>> \o Params(script[i], arg)

\* "Re-apply PN532 configuration in case it was silently reset" (lli.c:231): the
\* chip waits for a phone only as the card lli configured, unless the reset comes
\* in the middle of lli_activate itself.
TargetIsConfigured ==
    wire # <<>> /\ Head(todo) = "TgInitAsTarget" /\ ~reset
        => chip = {"SAMConfiguration", "SetParameters"}

\* The transport gives up for good on LLI_ERR_BUS_FATAL: it is returned for a
\* wedged I2C controller and for nothing else, from every step of every call.
FatalIsBus ==
    /\ ret = "BUS_FATAL" => fault = "INVALID_STATE"
    /\ fault = "INVALID_STATE" => ret \in {"BUS_FATAL", "INVALID_STATE", "ERROR"}

\* That, and the buffer bounds of TypeOK.
CommandInv == TypeOK /\ FatalIsBus

=============================================================================
