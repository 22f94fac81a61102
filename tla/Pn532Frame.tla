----------------------------- MODULE Pn532Frame -----------------------------
(***************************************************************************)
(* The frames between host and PN532 (pn532/src/pn532.c): building one,    *)
(* finding its start, and parsing it out of a buffer that was over-read    *)
(* and whose bytes may be damaged.  Bytes are kept as numbers: lengths and *)
(* checksums are what this module is about.                                *)
(***************************************************************************)
EXTENDS Integers, Sequences, FiniteSetsExt

PN532_PREAMBLE == 0
PN532_STARTCODE1 == 0
PN532_STARTCODE2 == 255
PN532_POSTAMBLE == 0
PN532_TFI_HOST_TO_PN532 == 212
PN532_TFI_PN532_TO_HOST == 213
PN532_EXTENDED_MARKER == 255
PN532_NORMAL_LEN_MAX == 254
PN532_MAX_PAYLOAD_LEN == 265
PN532_TX_BUF_SIZE == 11 + (PN532_MAX_PAYLOAD_LEN - 1)
PN532_RX_BUF_SIZE == 12 + (PN532_MAX_PAYLOAD_LEN - 1)

\* A uint8_t that the bytes are added to; by halves, so that the evaluation of a
\* long frame stays shallow.
SumOf(bytes) ==
    LET n == Len(bytes)
        sum[part \in (1 .. n) \X (1 .. n)] ==
            LET i == part[1]
                j == part[2]
                middle == (i + j) \div 2
            IN  IF i = j THEN bytes[i]
                ELSE (sum[<<i, middle>>] + sum[<<middle + 1, j>>]) % 256
    IN  IF n = 0 THEN 0 ELSE sum[<<1, n>>]

\* (uint8_t)(~sum + 1)
Complement(bytes) == (256 - SumOf(bytes)) % 256

\* LEN and LCS, with an extended length that loses its high byte.
LengthField_LowByte(n) ==
    IF n > PN532_NORMAL_LEN_MAX
    THEN <<PN532_EXTENDED_MARKER, PN532_EXTENDED_MARKER, 0, n % 256, Complement(<<n % 256>>)>>
    ELSE <<n, Complement(<<n>>)>>

\* LEN and LCS, of a normal or an extended frame.
LengthField(n) ==
    IF n > PN532_NORMAL_LEN_MAX
    THEN LET big == <<n \div 256, n % 256>>
         IN  <<PN532_EXTENDED_MARKER, PN532_EXTENDED_MARKER>> \o big \o <<Complement(big)>>
    ELSE <<n, Complement(<<n>>)>>

\* An information frame; info is TFI and DATA.
Frame(info) ==
    <<PN532_PREAMBLE, PN532_STARTCODE1, PN532_STARTCODE2>> \o LengthField(Len(info))
        \o info \o <<Complement(info), PN532_POSTAMBLE>>

\* pn532_build_frame: the frame, or no bytes for ESP_ERR_INVALID_ARG.
pn532_build_frame(cmd_code, params) ==
    LET info == <<PN532_TFI_HOST_TO_PN532, cmd_code>> \o params
    IN  IF Len(info) > PN532_MAX_PAYLOAD_LEN THEN <<>> ELSE Frame(info)

-----------------------------------------------------------------------------
(***************************************************************************)
(* Parsing; an index counts from 1.                                        *)
(***************************************************************************)

Starts(buf) == {i \in 1 .. Len(buf) - 1 :
                   buf[i] = PN532_STARTCODE1 /\ buf[i + 1] = PN532_STARTCODE2}

\* The first byte after the first start code; there must be one.
pn532_find_start(buf) == Min(Starts(buf)) + 2

Holds(buf, off, pattern) ==
    off + Len(pattern) - 1 <= Len(buf) /\ SubSeq(buf, off, off + Len(pattern) - 1) = pattern

PN532_ACK_FRAME == <<0, 0, 255, 0, 255, 0>>

\* What follows the start code is what follows it in the pattern.
pn532_match_fixed(buf, pattern) ==
    Starts(buf) # {} /\ Holds(buf, pn532_find_start(buf), SubSeq(pattern, 4, 6))

pn532_is_error_frame(buf) ==
    Starts(buf) # {} /\ Holds(buf, pn532_find_start(buf), <<1, 255, 127>>)

\* The length field at off: how many bytes it takes, what it says, whether the
\* LCS agrees (meaningful only if that many bytes are there).
Extended(buf, off) == Holds(buf, off, <<PN532_EXTENDED_MARKER, PN532_EXTENDED_MARKER>>)
FieldSize(buf, off) == IF Extended(buf, off) THEN 5 ELSE 2
InfoLen(buf, off) ==
    IF Extended(buf, off) THEN 256 * buf[off + 2] + buf[off + 3] ELSE buf[off]

\* An LCS that nobody adds up.
LcsOk_Always(buf, off) == TRUE

LcsOk(buf, off) ==
    LET first == IF Extended(buf, off) THEN off + 2 ELSE off
    IN  SumOf(SubSeq(buf, first, off + FieldSize(buf, off) - 1)) = 0

\* TFI, DATA and DCS, at body.
ParseBody(buf, body, info_len, out_size) ==
    IF info_len < 1 \/ body + info_len > Len(buf) THEN "INVALID_RESPONSE"
    ELSE IF buf[body] # PN532_TFI_PN532_TO_HOST THEN "INVALID_RESPONSE"
    ELSE IF SumOf(SubSeq(buf, body, body + info_len)) # 0 THEN "INVALID_CRC"
    ELSE IF info_len - 1 > out_size THEN "INVALID_SIZE"
    ELSE "OK"

\* pn532_parse_frame of what was read, whose first byte is the status byte: an
\* esp_err_t, and the DATA if that is ESP_OK.
pn532_parse_frame(raw, out_size) ==
    LET buf == Tail(raw)
        off == pn532_find_start(buf)
        body == off + FieldSize(buf, off)
        err == IF Starts(buf) = {} THEN "INVALID_RESPONSE"
               ELSE IF pn532_is_error_frame(buf) THEN "FAIL"
               ELSE IF body - 1 > Len(buf) THEN "INVALID_RESPONSE"
               ELSE IF ~LcsOk(buf, off) THEN "INVALID_CRC"
               ELSE ParseBody(buf, body, InfoLen(buf, off), out_size)
    IN  [err |-> err,
         data |-> IF err = "OK" THEN SubSeq(buf, body + 1, body + InfoLen(buf, off) - 1)
                                ELSE <<>>]

=============================================================================
