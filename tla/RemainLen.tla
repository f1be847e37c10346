----------------------------- MODULE RemainLen ------------------------------
(***************************************************************************)
(* The remaining length in an MQTT fixed header: seven bits to a byte, low *)
(* ones first, the top bit set when another byte follows.  Encoded by the  *)
(* client (mqtt_packet.c), decoded by the client and by the broker         *)
(* (tiny_broker.c), whose multiplier is a uint8_t.                         *)
(***************************************************************************)
EXTENDS Integers, Sequences

\* MQTT_PACKET_MAX_LEN_BYTES bytes hold a length below this.
Limit == 268435456

\* The multiplier at each byte.
Weight == <<1, 128, 16384, 2097152>>

\* How many bytes the encoder's loop gives, before remain_len is 0.
LengthBytes(n) ==
  IF n < 128 THEN 1 ELSE IF n < 16384 THEN 2 ELSE IF n < 2097152 THEN 3 ELSE 4

MqttEncode_RemainLen(n) ==
  [i \in 1 .. LengthBytes(n) |->
     ((n \div Weight[i]) % 128) + (IF i < LengthBytes(n) THEN 128 ELSE 0)]

\* The bytes a decoder takes: up to the first without the top bit, four at most.
BytesTaken(b) ==
  IF b[1] < 128 THEN 1 ELSE IF b[2] < 128 THEN 2 ELSE IF b[3] < 128 THEN 3 ELSE 4

\* The sum of the digits, each times its multiplier.
Decoded(b, multiplier) ==
  LET digit(i) == IF i <= BytesTaken(b) THEN (b[i] % 128) * multiplier[i] ELSE 0
  IN  digit(1) + digit(2) + digit(3) + digit(4)

MqttDecode_RemainLen(b) == Decoded(b, Weight)

\* uint8_t multiplier: 1, 128, and 0 from then on.
decode_pck_len(b) == Decoded(b, [i \in 1..4 |-> Weight[i] % 256])
=============================================================================
