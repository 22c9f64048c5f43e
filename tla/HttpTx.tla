------------------------------- MODULE HttpTx -------------------------------
(***************************************************************************)
(* The text of an upload: src/http_tx.c.                                   *)
(*                                                                         *)
(* The header announces the length of the body before any record is read,  *)
(* so every record has to take up the same room.  Text is modelled by its  *)
(* length, except for the gain, whose conversion is modelled by what it    *)
(* prints.  A measured value is given by its number of digits.             *)
(***************************************************************************)
EXTENDS Integers, Sequences

CONSTANTS
    RecordTypes,  \* record types (the top six bits of the flags)
    PgaGains,     \* 0 .. 255
    ValueDigits,  \* decimal digits of a 32-bit measurement: 1 .. 10
    TimeDigits,   \* hexadecimal digits of the upper word of the time: 1 .. 8
    MaxRequest    \* bound: records in a request

JSON_OVERHEAD_CHARS == 11
JSON_RECORD_CHARS   == 180

\* A measurement: what the flags say of one channel, and its value.
Channels == [target_freq : RecordTypes, pga_gain : PgaGains, value : ValueDigits]

VARIABLES
    sent,       \* records_count, the records sent and the characters after the header
    gain        \* the PGA gain of the left channel printed last

varsTx == <<sent, gain>>

-----------------------------------------------------------------------------
(* The length of what sprintf writes *)

Decimal(n) == IF n < 0 THEN 1 + (IF n > -10 THEN 1 ELSE 2)
              ELSE IF n < 10 THEN 1 ELSE IF n < 100 THEN 2 ELSE 3

\* 33, 28, 18 or 13
MicGain == 2

GainInt(pga) == pga \div 2 - 97
HasHalf(pga) == pga % 2 = 0

GainChars(pga) ==
    IF pga = 0 THEN Len("null")
    ELSE Decimal(GainInt(pga)) + (IF HasHalf(pga) THEN Len(".5") ELSE 0)

sprintf_em_channel(c) ==
    Len("{\"target_freq\":") + Decimal(c.target_freq) + Len(",\"mic_gain\":") + MicGain
        + Len(",\"pga_gain\":") + GainChars(c.pga_gain) + Len(",\"value\":") + c.value + Len("}")

sprintf_em(left, right) ==
    Len("\"left\":") + sprintf_em_channel(left) + Len(",\"right\":") + sprintf_em_channel(right)

sprintf_battery(value) == Len("\"battery\":{\"value\":") + value + Len("}")
sprintf_rssi(value)    == Len("\"rssi\":{\"value\":") + value + Len("}")

sprintf_envelope(left, right) ==
    Len("\"left_envelope\":{\"value\":") + left + Len("}")
        + Len(",\"right_envelope\":{\"value\":") + right + Len("}")

Contents(left, right) ==
    CASE left.target_freq = 60 -> sprintf_battery(left.value)
      [] left.target_freq = 61 -> sprintf_rssi(left.value)
      [] left.target_freq = 63 -> sprintf_envelope(left.value, right.value)
      [] OTHER                 -> sprintf_em(left, right)

\* Mutant: the closing brace is forgotten when the padding is counted.
PaddedFull(n) == (IF n < JSON_RECORD_CHARS THEN JSON_RECORD_CHARS ELSE n) + Len("}")
\* "Pad the object out to it's full length", and close it.
Padded(n) == (IF n < JSON_RECORD_CHARS - 1 THEN JSON_RECORD_CHARS - 1 ELSE n) + Len("}")

\* json_element; NULL: get_sample returned no record.
json_element(isNull, time, left, right, comma) ==
    Padded(Len("{") + (IF isNull THEN 0
                       ELSE Len("\"time\":\"") + time + 8 + Len("\",") + Contents(left, right)))
        + (IF comma THEN Len(",") ELSE 0)

json_header == Len("{\"docs\":[")
json_footer == Len("]}")

ContentLength(records_count) ==
    JSON_OVERHEAD_CHARS + records_count * JSON_RECORD_CHARS + (records_count - 1)

-----------------------------------------------------------------------------
InitTx ==
    /\ sent = [count |-> 0, records |-> 0, chars |-> 0]
    /\ gain = 0

\* server_tcp_out in OP_HTTP_HEADER and OP_JSON_HEADER
Header ==
    /\ sent.records = sent.count
    /\ \E count \in 1 .. MaxRequest : sent' = [count |-> count, records |-> 0, chars |-> json_header]
    /\ UNCHANGED gain

\* server_tcp_out in OP_JSON_DATA, with the footer after the last record
Element ==
    /\ sent.records < sent.count
    /\ \E left, right \in Channels, time \in TimeDigits, isNull \in BOOLEAN :
         LET n     == sent.records + 1
             chars == json_element(isNull, time, left, right, n < sent.count)
         IN  /\ sent' = [sent EXCEPT !.records = n,
                                     !.chars = @ + chars + (IF n = sent.count THEN json_footer ELSE 0)]
             /\ gain' = left.pga_gain

NextTx == Header \/ Element
SpecTx == InitTx /\ [][NextTx]_varsTx

-----------------------------------------------------------------------------
\* The Content-Length http_header announces is the number of characters that
\* follow, whatever the records hold and whether or not they could be read.
LengthAnnounced ==
    sent.count > 0 /\ sent.records = sent.count => sent.chars = ContentLength(sent.count)

\* Ten times the number that "%d" followed by ".5" or nothing stands for.
GainPrinted(pga) ==
    LET int == 10 * GainInt(pga)
    IN  IF ~HasHalf(pga) THEN int ELSE IF GainInt(pga) < 0 THEN int - 5 ELSE int + 5

\* "1-255 = (Gain = -97.5+(PGA/2)dB)": up to 193 this is the gain printed for
\* a channel, and for odd values beyond; even ones are printed a decibel too high.
GainIsSent ==
    gain # 0 /\ (gain < 194 \/ ~HasHalf(gain)) => GainPrinted(gain) = 5 * gain - 975
=============================================================================
