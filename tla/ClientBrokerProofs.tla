------------------------- MODULE ClientBrokerProofs -------------------------
(***************************************************************************)
(* What client and broker make of each other's bytes, for every length     *)
(* four bytes can hold and every PUBLISH that fits the broker's buffer,    *)
(* and what a call's success says, for any set of requests.                *)
(***************************************************************************)
EXTENDS ClientBroker, SequenceTheorems, WellFoundedInduction, TLAPS

-------------------------------------------------------------------------------
(* The remaining length *)

\* The lowest seven bits and the rest make up a number.
LEMMA LowDigit ==
  ASSUME NEW n \in Nat
  PROVE  /\ n \div 128 \in Nat /\ n % 128 \in 0..127
         /\ n = 128 * (n \div 128) + (n % 128)
  OBVIOUS

\* The multipliers divide as so many divisions by 128.
LEMMA Divisions ==
  ASSUME NEW n \in Nat
  PROVE  /\ n \div 1 = n
         /\ n \div 16384 = (n \div 128) \div 128
         /\ n \div 2097152 = ((n \div 128) \div 128) \div 128
  OBVIOUS

\* The digits of n to base 128, of which four do.
Digit(n, i) == (n \div Weight[i]) % 128

LEMMA Digits ==
  ASSUME NEW n \in Nat, n < Limit
  PROVE  /\ \A i \in 1..4 : Digit(n, i) \in 0..127
         /\ n < 128 => n = Digit(n, 1)
         /\ n < 16384 => n = Digit(n, 1) + 128 * Digit(n, 2)
         /\ n < 2097152 => n = Digit(n, 1) + 128 * Digit(n, 2) + 16384 * Digit(n, 3)
         /\ n = Digit(n, 1) + 128 * Digit(n, 2) + 16384 * Digit(n, 3) + 2097152 * Digit(n, 4)
<1>1. n \in Nat /\ n < 268435456
  BY SMT DEF Limit
<1> DEFINE a == n \div 128
           b == a \div 128
           c == b \div 128
<1>2. a \in Nat /\ n % 128 \in 0..127 /\ n = 128 * a + (n % 128)
  BY SMT, <1>1, LowDigit
<1>3. b \in Nat /\ a % 128 \in 0..127 /\ a = 128 * b + (a % 128)
  BY SMT, <1>2, LowDigit DEF b
<1>4. c \in Nat /\ b % 128 \in 0..127 /\ b = 128 * c + (b % 128)
  BY SMT, <1>3, LowDigit DEF c
<1>5. n \div 1 = n /\ n \div 16384 = b /\ n \div 2097152 = c
  BY SMT, <1>1, Divisions DEF a, b, c
<1> HIDE DEF a, b, c
<1>6. /\ a \in Nat /\ b \in Nat /\ c \in Nat
      /\ n % 128 \in 0..127 /\ a % 128 \in 0..127 /\ b % 128 \in 0..127
      /\ n = 128 * a + (n % 128) /\ a = 128 * b + (a % 128) /\ b = 128 * c + (b % 128)
  BY SMT, <1>2, <1>3, <1>4
<1>7. Digit(n, 1) = n % 128 /\ Digit(n, 2) = a % 128 /\ Digit(n, 3) = b % 128 /\ Digit(n, 4) = c % 128
  BY SMT, <1>5 DEF Digit, Weight, a
<1>8. c < 128
  BY SMT, <1>1, <1>6
<1>9. c % 128 = c
  BY SMT, <1>6, <1>8
<1>10. \A i \in 1..4 : Digit(n, i) \in 0..127
  <2>1. c % 128 \in 0..127
    BY SMT, <1>6, <1>8, <1>9
  <2> QED
    BY SMT, <1>6, <1>7, <2>1
<1>11. /\ n < 128 => a = 0
       /\ n < 16384 => b = 0
       /\ n < 2097152 => c = 0
  BY SMT, <1>6
<1>12. n < 128 => n = Digit(n, 1)
  BY SMT, <1>6, <1>7, <1>11
<1>13. n < 16384 => n = Digit(n, 1) + 128 * Digit(n, 2)
  BY SMT, <1>6, <1>7, <1>11
<1>14. n = Digit(n, 1) + 128 * Digit(n, 2) + 16384 * Digit(n, 3) + 2097152 * Digit(n, 4)
  BY SMT, <1>6, <1>7, <1>9
<1>15. n < 2097152 => n = Digit(n, 1) + 128 * Digit(n, 2) + 16384 * Digit(n, 3)
  BY SMT, <1>6, <1>7, <1>11, <1>9, <1>14
<1> QED
  BY SMT, <1>10, <1>12, <1>13, <1>14, <1>15

LEMMA Remainder ==
  ASSUME NEW q \in Nat, NEW r \in Nat, r < 16384
  PROVE  (16384 * q + r) % 16384 = r
BY SMT

LEMMA LowDigits ==
  ASSUME NEW n \in Nat, n < Limit
  PROVE  n % 16384 = Digit(n, 1) + 128 * Digit(n, 2)
<1>1. PICK d1 \in 0..127, d2 \in 0..127, d3 \in 0..127, d4 \in 0..127 :
        d1 = Digit(n, 1) /\ d2 = Digit(n, 2) /\ d3 = Digit(n, 3) /\ d4 = Digit(n, 4)
  <2>1. /\ Digit(n, 1) \in 0..127 /\ Digit(n, 2) \in 0..127
        /\ Digit(n, 3) \in 0..127 /\ Digit(n, 4) \in 0..127
    BY SMT, Digits
  <2> QED
    BY Zenon, <2>1
<1>2. n = d1 + 128 * d2 + 16384 * d3 + 2097152 * d4
  BY SMT, <1>1, Digits
<1>3. PICK q \in Nat, r \in Nat : q = d3 + 128 * d4 /\ r = d1 + 128 * d2
  BY SMT
<1>4. r < 16384 /\ n = 16384 * q + r
  BY SMT, <1>2, <1>3
<1>5. (16384 * q + r) % 16384 = r
  BY SMT, <1>4, Remainder
<1> QED
  BY SMT, <1>1, <1>3, <1>4, <1>5

\* What the encoder gives: a byte for each digit, marked when another one follows.
LEMMA Encoded ==
  ASSUME NEW n \in Nat, n < Limit
  PROVE  LET b == MqttEncode_RemainLen(n)
             L == LengthBytes(n)
         IN  /\ L \in 1..4
             /\ \A i \in 1..4 : i < L => b[i] = Digit(n, i) + 128
             /\ b[L] = Digit(n, L)
             /\ L = 1 => n < 128
             /\ L = 2 => n >= 128 /\ n < 16384
             /\ L = 3 => n >= 16384 /\ n < 2097152
<1> DEFINE L == LengthBytes(n)
<1>1. L \in 1..4
  BY SMT DEF LengthBytes
<1>2. \A i \in 1..4 : Digit(n, i) \in 0..127
  BY SMT, Digits
<1>3. \A i \in 1..L : MqttEncode_RemainLen(n)[i] = Digit(n, i) + (IF i < L THEN 128 ELSE 0)
  BY SMT DEF MqttEncode_RemainLen, Digit
<1>4. /\ L = 1 => n < 128
      /\ L = 2 => n >= 128 /\ n < 16384
      /\ L = 3 => n >= 16384 /\ n < 2097152
  BY SMT DEF LengthBytes
<1> HIDE DEF L
<1>5. \A i \in 1..4 : i < L => MqttEncode_RemainLen(n)[i] = Digit(n, i) + 128
  BY SMT, <1>1, <1>3
<1>6. MqttEncode_RemainLen(n)[L] = Digit(n, L)
  BY SMT, <1>1, <1>2, <1>3
<1> QED
  BY SMT, <1>1, <1>4, <1>5, <1>6 DEF L

\* A decoder with any multiplier takes each byte of an encoded length, its mark left out.
LEMMA DecodedDigits ==
  ASSUME NEW n \in Nat, n < Limit,
         NEW multiplier, \A i \in 1..4 : multiplier[i] \in Nat
  PROVE  LET L == LengthBytes(n)
             term(i) == IF i <= L THEN Digit(n, i) * multiplier[i] ELSE 0
         IN  Decoded(MqttEncode_RemainLen(n), multiplier) = term(1) + term(2) + term(3) + term(4)
<1> DEFINE b == MqttEncode_RemainLen(n)
           L == LengthBytes(n)
<1>1. /\ L \in 1..4
      /\ \A i \in 1..4 : i < L => b[i] = Digit(n, i) + 128
      /\ b[L] = Digit(n, L)
  BY SMT, Encoded
<1>2. \A i \in 1..4 : Digit(n, i) \in 0..127
  BY SMT, Digits
<1> HIDE DEF b, L
<1>3. \A i \in 1..4 : i <= L => b[i] % 128 = Digit(n, i)
  BY SMT, <1>1, <1>2
<1>4. BytesTaken(b) = L
  BY SMT, <1>1, <1>2 DEF BytesTaken
<1> QED
  BY SMT, <1>1, <1>3, <1>4 DEF Decoded, b, L

\* The client reads every length that can be encoded as it was written.
THEOREM ClientReadsLengths ==
  ASSUME NEW n \in Nat, n < Limit
  PROVE  MqttDecode_RemainLen(MqttEncode_RemainLen(n)) = n
<1>1. /\ Weight[1] = 1 /\ Weight[2] = 128 /\ Weight[3] = 16384 /\ Weight[4] = 2097152
      /\ \A i \in 1..4 : Weight[i] \in Nat
  BY SMT DEF Weight
<1>2. \A i \in 1..4 : Digit(n, i) \in 0..127
  BY SMT, Digits
<1> DEFINE L == LengthBytes(n)
<1>3. MqttDecode_RemainLen(MqttEncode_RemainLen(n)) =
        (IF 1 <= L THEN Digit(n, 1) * Weight[1] ELSE 0) + (IF 2 <= L THEN Digit(n, 2) * Weight[2] ELSE 0)
          + (IF 3 <= L THEN Digit(n, 3) * Weight[3] ELSE 0) + (IF 4 <= L THEN Digit(n, 4) * Weight[4] ELSE 0)
  BY SMT, <1>1, DecodedDigits DEF MqttDecode_RemainLen
<1>4. /\ L \in 1..4
      /\ L = 1 => n < 128
      /\ L = 2 => n < 16384
      /\ L = 3 => n < 2097152
  BY SMT, Encoded
<1> HIDE DEF L
<1>5. CASE L = 1
  BY SMTT(30), <1>1, <1>2, <1>3, <1>4, <1>5, Digits
<1>6. CASE L = 2
  BY SMTT(30), <1>1, <1>2, <1>3, <1>4, <1>6, Digits
<1>7. CASE L = 3
  BY SMTT(30), <1>1, <1>2, <1>3, <1>4, <1>7, Digits
<1>8. CASE L = 4
  BY SMTT(30), <1>1, <1>2, <1>3, <1>4, <1>8, Digits
<1> QED
  BY SMT, <1>4, <1>5, <1>6, <1>7, <1>8

\* The broker reads a length as its remainder by 16384: its multiplier is 0 from the third
\* byte on.  Two bytes it reads right; from 16384 on every length is taken for a shorter one.
THEOREM BrokerReadsLengths ==
  ASSUME NEW n \in Nat, n < Limit
  PROVE  decode_pck_len(MqttEncode_RemainLen(n)) = n % 16384
<1> DEFINE w == [i \in 1..4 |-> Weight[i] % 256]
<1>1. /\ w[1] = 1 /\ w[2] = 128 /\ w[3] = 0 /\ w[4] = 0
      /\ \A i \in 1..4 : w[i] \in Nat
  BY SMT DEF Weight
<1>2. decode_pck_len(MqttEncode_RemainLen(n)) = Decoded(MqttEncode_RemainLen(n), w)
  BY SMT DEF decode_pck_len
<1> HIDE DEF w
<1>3. \A i \in 1..4 : Digit(n, i) \in 0..127
  BY SMT, Digits
<1> DEFINE L == LengthBytes(n)
<1>4. decode_pck_len(MqttEncode_RemainLen(n)) =
        (IF 1 <= L THEN Digit(n, 1) * w[1] ELSE 0) + (IF 2 <= L THEN Digit(n, 2) * w[2] ELSE 0)
          + (IF 3 <= L THEN Digit(n, 3) * w[3] ELSE 0) + (IF 4 <= L THEN Digit(n, 4) * w[4] ELSE 0)
  BY SMT, <1>1, <1>2, DecodedDigits
<1>5. /\ Digit(n, 1) \in Nat /\ Digit(n, 2) \in Nat
      /\ Digit(n, 1) * w[1] = Digit(n, 1) /\ Digit(n, 2) * w[2] = 128 * Digit(n, 2)
      /\ Digit(n, 3) * w[3] = 0 /\ Digit(n, 4) * w[4] = 0
  <2>1. Digit(n, 1) \in Nat /\ Digit(n, 2) \in Nat /\ Digit(n, 3) \in Nat /\ Digit(n, 4) \in Nat
    BY SMT, <1>3
  <2> QED
    BY SMT, <1>1, <2>1
<1>6. L \in 1..4 /\ (L = 1 => n < 128)
  BY SMT, Encoded
<1> HIDE DEF L
<1>7. CASE L = 1
  <2>1. n = Digit(n, 1) /\ n < 128
    BY SMT, <1>6, <1>7, Digits
  <2>2. n % 16384 = n
    BY SMT, <2>1
  <2>3. decode_pck_len(MqttEncode_RemainLen(n)) = Digit(n, 1) + 0 + 0 + 0
    BY SMT, <1>5, <1>4, <1>7
  <2> QED
    BY SMT, <1>5, <2>1, <2>2, <2>3
<1>8. CASE L # 1
  <2>1. 1 <= L /\ 2 <= L
    BY SMT, <1>6, <1>8
  <2>2. decode_pck_len(MqttEncode_RemainLen(n)) = Digit(n, 1) + 128 * Digit(n, 2)
    BY SMT, <1>5, <1>4, <2>1
  <2>3. n % 16384 = Digit(n, 1) + 128 * Digit(n, 2)
    BY SMT, LowDigits
  <2> QED
    BY SMT, <2>2, <2>3
<1> QED
  BY SMT, <1>7, <1>8

-------------------------------------------------------------------------------
(* Frames *)

LEMMA TypeNumbers ==
  /\ TypeNr("CONNECT") = 1 /\ TypeNr("CONNACK") = 2 /\ TypeNr("PUBLISH") = 3 /\ TypeNr("PUBACK") = 4
  /\ TypeNr("SUBSCRIBE") = 8 /\ TypeNr("UNSUBSCRIBE") = 10
  /\ Types[1] = "CONNECT" /\ Types[2] = "CONNACK" /\ Types[3] = "PUBLISH" /\ Types[4] = "PUBACK"
  /\ Types[8] = "SUBSCRIBE" /\ Types[10] = "UNSUBSCRIBE"
<1>1. DOMAIN Types = 1..14
  BY DEF Types
<1>2. /\ \A t \in DOMAIN Types : Types[t] = "CONNECT" <=> t = 1
      /\ \A t \in DOMAIN Types : Types[t] = "CONNACK" <=> t = 2
      /\ \A t \in DOMAIN Types : Types[t] = "PUBLISH" <=> t = 3
      /\ \A t \in DOMAIN Types : Types[t] = "PUBACK" <=> t = 4
      /\ \A t \in DOMAIN Types : Types[t] = "SUBSCRIBE" <=> t = 8
      /\ \A t \in DOMAIN Types : Types[t] = "UNSUBSCRIBE" <=> t = 10
  BY <1>1 DEF Types
<1> QED
  BY <1>1, <1>2 DEF TypeNr

\* `part` stands in frame behind the first k bytes.
PartAt(frame, k, part) == \A i \in 1..Len(part) : frame[k + i] = part[i]

\* A part of a sequence is read from where it was put.
LEMMA PartIsRead ==
  ASSUME NEW S, NEW s \in Seq(S), NEW t \in Seq(S), NEW k \in Nat, NEW e \in Nat,
         k + Len(t) = e, e <= Len(s), PartAt(s, k, t)
  PROVE  SubSeq(s, k + 1, e) = t
<1> DEFINE u == SubSeq(s, k + 1, k + Len(t))
<1>1. k + 1 \in Int /\ k + Len(t) \in Int /\ \A i \in k + 1 .. k + Len(t) : s[i] \in S
  OBVIOUS
<1>2. /\ u \in Seq(S)
      /\ Len(u) = IF k + 1 <= k + Len(t) THEN (k + Len(t)) - (k + 1) + 1 ELSE 0
      /\ \A i \in 1 .. (k + Len(t)) - (k + 1) + 1 : u[i] = s[(k + 1) + i - 1]
  BY <1>1, SubSeqProperties
<1>3. Len(u) = Len(t)
  BY <1>2
<1>4. \A i \in 1..Len(t) : u[i] = s[k + i]
  <2> TAKE i \in 1..Len(t)
  <2>1. i \in 1 .. (k + Len(t)) - (k + 1) + 1 /\ (k + 1) + i - 1 = k + i
    OBVIOUS
  <2> QED
    BY <1>2, <2>1
<1> HIDE DEF u
<1>5. \A i \in 1..Len(t) : u[i] = t[i]
  BY <1>4 DEF PartAt
<1> QED
  BY <1>2, <1>3, <1>5, SeqEqual DEF u

\* Where the elements of two sequences are when one stands behind the other.
LEMMA Joined ==
  ASSUME NEW s \in Seq(Nat), NEW t \in Seq(Nat)
  PROVE  /\ s \o t \in Seq(Nat) /\ Len(s \o t) = Len(s) + Len(t)
         /\ \A i \in 1..Len(s) : (s \o t)[i] = s[i]
         /\ \A i \in 1..Len(t) : (s \o t)[Len(s) + i] = t[i]
<1>1. /\ s \o t \in Seq(Nat) /\ Len(s \o t) = Len(s) + Len(t)
      /\ \A i \in 1 .. Len(s) + Len(t) : (s \o t)[i] = IF i <= Len(s) THEN s[i] ELSE t[i - Len(s)]
  BY ConcatProperties
<1> DEFINE u == s \o t
<1> HIDE DEF u
<1>2. \A i \in 1..Len(s) : u[i] = s[i]
  BY <1>1 DEF u
<1>3. ASSUME NEW i \in 1..Len(t)
      PROVE  u[Len(s) + i] = t[i]
  <2>1. Len(s) + i \in 1 .. Len(s) + Len(t) /\ ~(Len(s) + i <= Len(s)) /\ (Len(s) + i) - Len(s) = i
    OBVIOUS
  <2> QED
    BY <1>1, <2>1 DEF u
<1> QED
  BY <1>1, <1>2, <1>3 DEF u

LEMMA Numbers ==
  ASSUME NEW n \in Nat
  PROVE  /\ MqttEncode_Num(n) \in Seq(Nat) /\ Len(MqttEncode_Num(n)) = 2
         /\ n = 256 * MqttEncode_Num(n)[1] + MqttEncode_Num(n)[2]
BY DEF MqttEncode_Num

LEMMA EncodedLength ==
  ASSUME NEW n \in Nat
  PROVE  /\ MqttEncode_RemainLen(n) \in Seq(Nat)
         /\ Len(MqttEncode_RemainLen(n)) = LengthBytes(n)
         /\ LengthBytes(n) \in 1..4
<1>1. LengthBytes(n) \in 1..4
  BY DEF LengthBytes
<1>2. \A i \in 1..4 : (n \div Weight[i]) % 128 \in Nat
  <2>1. /\ (n \div 1) % 128 \in Nat /\ (n \div 128) % 128 \in Nat
        /\ (n \div 16384) % 128 \in Nat /\ (n \div 2097152) % 128 \in Nat
    OBVIOUS
  <2> QED
    BY <2>1 DEF Weight
<1>3. \A i \in 1..LengthBytes(n) :
         ((n \div Weight[i]) % 128) + (IF i < LengthBytes(n) THEN 128 ELSE 0) \in Nat
  BY <1>1, <1>2
<1> QED
  BY <1>1, <1>3 DEF MqttEncode_RemainLen

\* A length is read as well with other bytes behind it.
LEMMA LengthInFront ==
  ASSUME NEW n \in Nat, n < Limit, NEW b,
         \A i \in 1..LengthBytes(n) : b[i] = MqttEncode_RemainLen(n)[i]
  PROVE  BytesTaken(b) = LengthBytes(n)
<1>1. /\ LengthBytes(n) \in 1..4
      /\ \A i \in 1..4 : i < LengthBytes(n) => b[i] = Digit(n, i) + 128
      /\ b[LengthBytes(n)] = Digit(n, LengthBytes(n))
  BY Encoded
<1>2. \A i \in 1..4 : Digit(n, i) \in 0..127
  BY Digits
<1> QED
  BY <1>1, <1>2 DEF BytesTaken

\* What stands where in a frame with its fixed header.
Headed(frame, first, rest) ==
  LET L == LengthBytes(Len(rest))
  IN  /\ frame \in Seq(Nat) /\ Len(frame) = 1 + L + Len(rest)
      /\ L \in 1..4
      /\ frame[1] = first
      /\ \A i \in 1..L : frame[1 + i] = MqttEncode_RemainLen(Len(rest))[i]
      /\ \A i \in 1..Len(rest) : frame[1 + L + i] = rest[i]
      /\ VarHead(frame) = 1 + L

LEMMA HeaderAndRest ==
  ASSUME NEW type, NEW flags, NEW first \in Nat, 16 * TypeNr(type) + flags = first,
         NEW rest \in Seq(Nat), Len(WithHeader(type, flags, rest)) <= MAX_FRAME_SIZE
  PROVE  Headed(WithHeader(type, flags, rest), first, rest)
<1> DEFINE n == Len(rest)
           L == LengthBytes(n)
           h == <<16 * TypeNr(type) + flags>>
           b == MqttEncode_RemainLen(n)
           head == h \o b
           frame == WithHeader(type, flags, rest)
<1>1. n \in Nat
  OBVIOUS
<1>2. b \in Seq(Nat) /\ Len(b) = L /\ L \in 1..4
  BY <1>1, EncodedLength
<1>3. h \in Seq(Nat) /\ Len(h) = 1 /\ h[1] = 16 * TypeNr(type) + flags
  OBVIOUS
<1>4. frame = head \o rest
  BY DEF WithHeader
<1> HIDE DEF h, b, L
<1>5. /\ head \in Seq(Nat) /\ Len(head) = 1 + L
      /\ head[1] = h[1] /\ \A i \in 1..L : head[1 + i] = b[i]
  <2>1. /\ h \o b \in Seq(Nat) /\ Len(h \o b) = Len(h) + Len(b)
        /\ \A i \in 1..Len(h) : (h \o b)[i] = h[i]
        /\ \A i \in 1..Len(b) : (h \o b)[Len(h) + i] = b[i]
    BY <1>2, <1>3, Joined
  <2> HIDE DEF head
  <2>2. PICK m \in Nat, k \in Nat : Len(h) = m /\ Len(b) = k
    BY <1>2, <1>3
  <2>3. m = 1 /\ k = L
    BY Zenon, <1>2, <1>3, <2>2
  <2>4. /\ head \in Seq(Nat) /\ Len(head) = m + k
        /\ \A i \in 1..m : head[i] = h[i]
        /\ \A i \in 1..k : head[m + i] = b[i]
    BY Zenon, <2>1, <2>2 DEF head
  <2> QED
    BY <2>3, <2>4
<1> HIDE DEF head
<1>6. /\ frame \in Seq(Nat) /\ Len(frame) = 1 + L + n
      /\ \A i \in 1 .. 1 + L : frame[i] = head[i]
      /\ \A i \in 1 .. n : frame[1 + L + i] = rest[i]
  <2>1. /\ head \o rest \in Seq(Nat) /\ Len(head \o rest) = Len(head) + Len(rest)
        /\ \A i \in 1..Len(head) : (head \o rest)[i] = head[i]
        /\ \A i \in 1..Len(rest) : (head \o rest)[Len(head) + i] = rest[i]
    BY <1>5, Joined
  <2> QED
    BY <2>1, <1>5, <1>4
<1>7. n < Limit
  <2>1. Len(frame) <= 240
    BY DEF MAX_FRAME_SIZE
  <2> HIDE DEF frame
  <2> QED
    BY <2>1, <1>1, <1>2, <1>6 DEF Limit
<1> HIDE DEF frame
<1>8. frame[1] = 16 * TypeNr(type) + flags
  BY <1>2, <1>3, <1>5, <1>6
<1>9. \A i \in 1..L : frame[1 + i] = b[i]
  <2>1. \A i \in 1..L : 1 + i \in 1 .. 1 + L
    BY <1>2
  <2> QED
    BY <2>1, <1>5, <1>6
<1>10. \A i \in 1..n : frame[1 + L + i] = rest[i]
  BY <1>6
<1>11. frame # <<>> /\ \A i \in 1..L : Tail(frame)[i] = frame[1 + i]
  BY <1>1, <1>2, <1>6
<1>12. \A i \in 1..L : Tail(frame)[i] = b[i]
  BY <1>9, <1>11
<1>13. BytesTaken(Tail(frame)) = L
  BY <1>1, <1>7, <1>12, LengthInFront DEF b, L
<1> QED
  BY <1>2, <1>6, <1>8, <1>9, <1>10, <1>13 DEF Headed, VarHead, frame, L, b

\* What stands where behind the header of a PUBLISH.
IsRest(rest, name, ids, buffer) ==
  /\ rest \in Seq(Nat) /\ Len(rest) = 2 + Len(name) + Len(ids) + Len(buffer)
  /\ Len(name) = 256 * rest[1] + rest[2]
  /\ \A i \in 1..Len(name) : rest[2 + i] = name[i]
  /\ \A i \in 1..Len(ids) : rest[2 + Len(name) + i] = ids[i]
  /\ \A i \in 1..Len(buffer) : rest[2 + Len(name) + Len(ids) + i] = buffer[i]

LEMMA PublishRest ==
  ASSUME NEW name \in Seq(Nat), NEW ids \in Seq(Nat), NEW buffer \in Seq(Nat)
  PROVE  IsRest(MqttEncode_String(name) \o ids \o buffer, name, ids, buffer)
<1> DEFINE num == MqttEncode_Num(Len(name))
           s == num \o name
           t == s \o ids
           rest == t \o buffer
<1>1. num \in Seq(Nat) /\ Len(num) = 2 /\ Len(name) = 256 * num[1] + num[2]
  <2>1. Len(name) \in Nat
    OBVIOUS
  <2> QED
    BY <2>1, Numbers
<1> HIDE DEF num
<1>2. /\ s \in Seq(Nat) /\ Len(s) = 2 + Len(name)
      /\ s[1] = num[1] /\ s[2] = num[2]
      /\ \A i \in 1..Len(name) : s[2 + i] = name[i]
  <2>1. /\ num \o name \in Seq(Nat) /\ Len(num \o name) = Len(num) + Len(name)
        /\ \A i \in 1..Len(num) : (num \o name)[i] = num[i]
        /\ \A i \in 1..Len(name) : (num \o name)[Len(num) + i] = name[i]
    BY <1>1, Joined
  <2> QED
    BY <2>1, <1>1
<1> HIDE DEF s
<1>3. /\ t \in Seq(Nat) /\ Len(t) = Len(s) + Len(ids)
      /\ \A i \in 1..Len(s) : t[i] = s[i]
      /\ \A i \in 1..Len(ids) : t[Len(s) + i] = ids[i]
  BY <1>2, Joined
<1> HIDE DEF t
<1>4. /\ rest \in Seq(Nat) /\ Len(rest) = Len(t) + Len(buffer)
      /\ \A i \in 1..Len(t) : rest[i] = t[i]
      /\ \A i \in 1..Len(buffer) : rest[Len(t) + i] = buffer[i]
  BY <1>3, Joined
<1> HIDE DEF rest
<1>5. Len(t) = 2 + Len(name) + Len(ids)
  BY <1>2, <1>3
<1>6. \A i \in 1 .. 2 + Len(name) : rest[i] = s[i]
  <2>1. \A i \in 1 .. 2 + Len(name) : i \in 1..Len(s) /\ i \in 1..Len(t)
    BY <1>2, <1>5
  <2> QED
    BY <1>3, <1>4, <2>1
<1>7. Len(name) = 256 * rest[1] + rest[2]
  <2>1. 1 \in 1 .. 2 + Len(name) /\ 2 \in 1 .. 2 + Len(name)
    OBVIOUS
  <2> QED
    BY <1>1, <1>2, <1>6, <2>1
<1>8. \A i \in 1..Len(name) : rest[2 + i] = name[i]
  <2>1. \A i \in 1..Len(name) : 2 + i \in 1 .. 2 + Len(name)
    OBVIOUS
  <2> QED
    BY <1>2, <1>6, <2>1
<1>9. \A i \in 1..Len(ids) : rest[2 + Len(name) + i] = ids[i]
  <2>1. \A i \in 1..Len(ids) : Len(s) + i \in 1..Len(t)
    BY <1>2, <1>5
  <2>2. \A i \in 1..Len(ids) : rest[Len(s) + i] = ids[i]
    BY <1>3, <1>4, <2>1
  <2> QED
    BY <1>2, <2>2
<1>10. \A i \in 1..Len(buffer) : rest[2 + Len(name) + Len(ids) + i] = buffer[i]
  BY <1>4, <1>5
<1> QED
  BY <1>4, <1>5, <1>7, <1>8, <1>9, <1>10 DEF IsRest, rest, t, s, num, MqttEncode_String
\* The lengths of a frame with a variable header at V, a name, an identifier or none and a payload.
LengthsFit(frame, V, qos, name, ids, buffer) ==
  /\ Len(frame) = V + 2 + Len(name) + Len(ids) + Len(buffer)
  /\ Len(frame) <= 240
  /\ Len(ids) = (IF qos > 0 THEN 2 ELSE 0)

\* What stands where in the frame of a PUBLISH.
LaidOut(frame, V, qos, name, ids, buffer) ==
  /\ frame[1] = 48 + 2 * qos
  /\ Num(frame, V) = Len(name)
  /\ PartAt(frame, V + 2, name)
  /\ PartAt(frame, V + 2 + Len(name), ids)
  /\ PartAt(frame, V + 2 + Len(name) + Len(ids), buffer)

LEMMA ByteFits == \A x \in Nat : x <= 240 => Byte(x) = x
BY DEF Byte

\* What the decoder makes of a frame so laid out.
LEMMA LaidOutIsRead ==
  ASSUME NEW frame \in Seq(Nat), NEW V \in Nat, VarHead(frame) = V, NEW qos \in 0..2,
         NEW name \in Seq(Nat), NEW ids \in Seq(Nat), NEW buffer \in Seq(Nat),
         LengthsFit(frame, V, qos, name, ids, buffer), LaidOut(frame, V, qos, name, ids, buffer)
  PROVE  /\ FrameType(frame) = "PUBLISH"
         /\ broker_decode_publish(frame) =
              [name |-> name, QoS |-> qos,
               packet_id |-> IF qos > 0 THEN <<ids[1], ids[2]>> ELSE <<0, 0>>, pld |-> buffer]
<1>1. (frame[1] \div 2) % 4 = qos /\ frame[1] \div 16 = 3
  <2>1. frame[1] = 48 + 2 * qos
    BY DEF LaidOut
  <2>2. CASE qos = 0
    BY <2>1, <2>2
  <2>3. CASE qos = 1
    BY <2>1, <2>3
  <2>4. CASE qos = 2
    BY <2>1, <2>4
  <2> QED
    BY <2>2, <2>3, <2>4
<1>2. PICK n \in Nat, k \in Nat, m \in Nat : n = Len(name) /\ k = Len(ids) /\ m = Len(buffer)
  OBVIOUS
<1>3. /\ Len(frame) = V + 2 + n + k + m /\ V + 2 + n + k + m <= 240
      /\ (IF qos > 0 THEN 2 ELSE 0) = k
  BY <1>2 DEF LengthsFit
<1>4. V + 2 + n \in Nat /\ V + 2 + n <= 240 /\ V + 2 + n + k \in Nat /\ V + 2 + n + k <= 240
  BY <1>3
<1>5. Byte(V + 2 + n) = V + 2 + n /\ Byte(V + 2 + n + k) = V + 2 + n + k
  BY <1>4, ByteFits
<1>6. Text(frame, V + 2, n) = name
  <2>1. /\ V + 2 \in Nat /\ V + 2 + n \in Nat /\ V + 2 + n <= Len(frame)
        /\ V + 2 + Len(name) = V + 2 + n
    BY <1>2, <1>3
  <2>2. PartAt(frame, V + 2, name)
    BY DEF LaidOut
  <2> QED
    BY <2>1, <2>2, PartIsRead DEF Text
<1>7. SubSeq(frame, V + 2 + n + k + 1, Len(frame)) = buffer
  <2>1. PICK p \in Nat, e \in Nat : p = V + 2 + n + k /\ e = Len(frame)
    <3>1. V + 2 + n + k \in Nat /\ Len(frame) \in Nat
      BY <1>4
    <3> QED
      BY Zenon, <3>1
  <2>2. p + Len(buffer) = e /\ e <= Len(frame)
    BY <1>2, <1>3, <2>1
  <2>3. PartAt(frame, p, buffer)
    BY <1>2, <2>1 DEF LaidOut
  <2>4. SubSeq(frame, p + 1, e) = buffer
    BY <2>2, <2>3, PartIsRead
  <2> QED
    BY <2>1, <2>4
<1>8. qos > 0 => frame[V + 2 + n + 1] = ids[1] /\ frame[V + 2 + n + 2] = ids[2]
  <2>1. \A i \in 1..k : frame[V + 2 + n + i] = ids[i]
    BY <1>2 DEF LaidOut, PartAt
  <2>2. qos > 0 => 1 \in 1..k /\ 2 \in 1..k
    BY <1>3
  <2> QED
    BY <2>1, <2>2
<1>9. Num(frame, V) = n
  BY <1>2 DEF LaidOut
<1>10. broker_decode_publish(frame) =
           [name |-> Text(frame, V + 2, n), QoS |-> qos,
            packet_id |-> IF qos > 0 THEN <<frame[V + 2 + n + 1], frame[V + 2 + n + 2]>> ELSE <<0, 0>>,
            pld |-> SubSeq(frame, V + 2 + n + k + 1, Len(frame))]
  <2>1. Byte(V + 2 + n + (IF qos > 0 THEN 2 ELSE 0)) = V + 2 + n + k
    BY <1>3, <1>5
  <2> QED
    BY <1>1, <1>5, <1>9, <2>1 DEF broker_decode_publish
<1>11. FrameType(frame) = "PUBLISH"
  BY <1>1, TypeNumbers DEF FrameType
<1> QED
  BY <1>6, <1>7, <1>8, <1>10, <1>11

LEMMA PublishByte == \A qos \in 0..2 : 16 * TypeNr("PUBLISH") + 2 * qos = 48 + 2 * qos
BY TypeNumbers

\* A frame of a PUBLISH is laid out so.
LEMMA PublishLayout ==
  ASSUME NEW qos \in 0..2,
         NEW name \in Seq(Nat), NEW ids \in Seq(Nat), NEW buffer \in Seq(Nat),
         Len(ids) = (IF qos > 0 THEN 2 ELSE 0),
         NEW rest, MqttEncode_String(name) \o ids \o buffer = rest,
         NEW frame, WithHeader("PUBLISH", 2 * qos, rest) = frame, Len(frame) <= 240
  PROVE  /\ frame \in Seq(Nat)
         /\ \E V \in Nat : /\ V = VarHead(frame)
                           /\ LengthsFit(frame, V, qos, name, ids, buffer)
                           /\ LaidOut(frame, V, qos, name, ids, buffer)
<1>1. IsRest(rest, name, ids, buffer)
  BY PublishRest
<1>2. /\ rest \in Seq(Nat) /\ Len(rest) = 2 + Len(name) + Len(ids) + Len(buffer)
      /\ Len(name) = 256 * rest[1] + rest[2]
      /\ \A i \in 1..Len(name) : rest[2 + i] = name[i]
      /\ \A i \in 1..Len(ids) : rest[2 + Len(name) + i] = ids[i]
      /\ \A i \in 1..Len(buffer) : rest[2 + Len(name) + Len(ids) + i] = buffer[i]
  BY <1>1 DEF IsRest
<1>3. Headed(frame, 48 + 2 * qos, rest)
  <2>1. 48 + 2 * qos \in Nat
    OBVIOUS
  <2>2. Len(WithHeader("PUBLISH", 2 * qos, rest)) <= MAX_FRAME_SIZE
    BY DEF MAX_FRAME_SIZE
  <2> QED
    BY <1>2, <2>1, <2>2, HeaderAndRest, PublishByte
<1>4. PICK L \in 1..4 : L = LengthBytes(Len(rest))
  BY <1>3 DEF Headed
<1>5. /\ frame \in Seq(Nat) /\ Len(frame) = 1 + L + Len(rest)
      /\ frame[1] = 48 + 2 * qos
      /\ \A i \in 1..Len(rest) : frame[1 + L + i] = rest[i]
      /\ VarHead(frame) = 1 + L
  BY <1>3, <1>4 DEF Headed
<1>6. PICK V \in Nat, n \in Nat, k \in Nat, m \in Nat, N \in Nat :
        V = 1 + L /\ n = Len(name) /\ k = Len(ids) /\ m = Len(buffer) /\ N = Len(rest)
  <2>1. 1 + L \in Nat /\ Len(name) \in Nat /\ Len(ids) \in Nat /\ Len(buffer) \in Nat
    OBVIOUS
  <2>2. rest \in Seq(Nat)
    BY <1>2
  <2>3. Len(rest) \in Nat
    BY <2>2
  <2> QED
    BY Zenon, <2>1, <2>3
<1>7. N = 2 + n + k + m /\ \A i \in 1..N : frame[V + i] = rest[i]
  BY <1>2, <1>5, <1>6
<1>8. Num(frame, V) = n
  <2>1. 1 \in 1..N /\ 2 \in 1..N
    BY <1>7
  <2>2. frame[V + 1] = rest[1] /\ frame[V + 2] = rest[2]
    BY <1>7, <2>1
  <2>3. Num(frame, V) = 256 * rest[1] + rest[2]
    BY <2>2 DEF Num
  <2> QED
    BY <1>2, <1>6, <2>3
<1>9. PartAt(frame, V + 2, name)
  <2>1. ASSUME NEW i \in 1..n
        PROVE  frame[V + 2 + i] = name[i]
    <3>1. 2 + i \in 1..N /\ V + 2 + i = V + (2 + i)
      BY <1>7
    <3>2. rest[2 + i] = name[i]
      BY <1>2, <1>6
    <3> QED
      BY <1>7, <3>1, <3>2
  <2> QED
    BY <1>6, <2>1 DEF PartAt
<1>10. PartAt(frame, V + 2 + n, ids)
  <2>1. ASSUME NEW i \in 1..k
        PROVE  frame[V + 2 + n + i] = ids[i]
    <3>1. 2 + n + i \in 1..N /\ V + 2 + n + i = V + (2 + n + i)
      BY <1>7
    <3>2. rest[2 + n + i] = ids[i]
      BY <1>2, <1>6
    <3> QED
      BY <1>7, <3>1, <3>2
  <2> QED
    BY <1>6, <2>1 DEF PartAt
<1>11. PartAt(frame, V + 2 + n + k, buffer)
  <2>1. ASSUME NEW i \in 1..m
        PROVE  frame[V + 2 + n + k + i] = buffer[i]
    <3>1. 2 + n + k + i \in 1..N /\ V + 2 + n + k + i = V + (2 + n + k + i)
      BY <1>7
    <3>2. rest[2 + n + k + i] = buffer[i]
      BY <1>2, <1>6
    <3> QED
      BY <1>7, <3>1, <3>2
  <2> QED
    BY <1>6, <2>1 DEF PartAt
<1>12. LengthsFit(frame, V, qos, name, ids, buffer)
  <2>1. Len(frame) = V + 2 + Len(name) + Len(ids) + Len(buffer)
    BY <1>5, <1>6, <1>7
  <2> QED
    BY <2>1 DEF LengthsFit
<1>13. LaidOut(frame, V, qos, name, ids, buffer)
  BY <1>5, <1>6, <1>8, <1>9, <1>10, <1>11 DEF LaidOut
<1>14. V = VarHead(frame)
  BY <1>5, <1>6
<1> QED
  BY <1>5, <1>12, <1>13, <1>14

LEMMA TextsAreNumbers == \A s \in Seq(0..255) : s \in Seq(Nat)
<1>1. 0..255 \subseteq Nat
  OBVIOUS
<1> QED
  BY <1>1, SeqMonotonic

\* The broker reads a PUBLISH that fits its buffer as the client wrote it: name, QoS, payload
\* and, where there is one, the identifier, with one or two bytes of length.
THEOREM PublishIsRead ==
  ASSUME NEW r \in Requests, r.type = "PUBLISH"
  PROVE  ReadAsWritten(r, DecodedOf[r])
<1>1. EncodedPublish(r) /\ Len(Encode(r)) <= MAX_FRAME_SIZE
  BY Zenon, RequestsAssumption
<1>2. PICK qos \in 0..2 : qos = r.qos
  <2>1. r.qos \in 0..2
    BY <1>1 DEF EncodedPublish
  <2> QED
    BY Zenon, <2>1
<1>3. PICK name \in Seq(Nat), buffer \in Seq(Nat) : name = r.topic_name /\ buffer = r.buffer
  <2>1. r.topic_name \in Seq(0..255) /\ r.buffer \in Seq(0..255)
    BY <1>1 DEF EncodedPublish
  <2>2. r.topic_name \in Seq(Nat) /\ r.buffer \in Seq(Nat)
    BY <2>1, TextsAreNumbers
  <2> QED
    BY Zenon, <2>2
<1>4. Len(Encode(r)) <= 240
  BY <1>1 DEF MAX_FRAME_SIZE
<1>5. PICK ids \in Seq(Nat) :
        /\ ids = IF r.qos > 0 THEN MqttEncode_Num(r.packet_id) ELSE <<>>
        /\ Len(ids) = (IF qos > 0 THEN 2 ELSE 0)
        /\ qos > 0 => <<ids[1], ids[2]>> = MqttEncode_Num(r.packet_id)
  <2>1. CASE qos > 0
    <3>1. PICK id \in Nat : id = r.packet_id
      <4>1. r.qos > 0 => r.packet_id \in Nat
        BY <1>1 DEF EncodedPublish
      <4>2. r.packet_id \in Nat
        BY SMT, <1>2, <2>1, <4>1
      <4> QED
        BY Zenon, <4>2
    <3>2. /\ MqttEncode_Num(id) \in Seq(Nat) /\ Len(MqttEncode_Num(id)) = 2
          /\ MqttEncode_Num(id) = <<MqttEncode_Num(id)[1], MqttEncode_Num(id)[2]>>
      BY <3>1, Numbers DEF MqttEncode_Num
    <3> QED
      BY <1>2, <2>1, <3>1, <3>2
  <2>2. CASE ~(qos > 0)
    <3>1. qos = 0 /\ ~(r.qos > 0) /\ <<>> \in Seq(Nat) /\ Len(<<>>) = 0
      BY <1>2, <2>2
    <3> DEFINE none == <<>>
    <3>2. /\ none \in Seq(Nat)
          /\ none = IF r.qos > 0 THEN MqttEncode_Num(r.packet_id) ELSE <<>>
          /\ Len(none) = (IF qos > 0 THEN 2 ELSE 0)
          /\ ~(qos > 0)
      BY <2>2, <3>1
    <3> HIDE DEF none
    <3> QED
      BY <3>2
  <2> QED
    BY <2>1, <2>2
<1>6. PICK frame, rest : frame = Encode(r) /\ MqttEncode_String(name) \o ids \o buffer = rest
  BY Zenon
<1>7. WithHeader("PUBLISH", 2 * qos, rest) = frame
  BY <1>2, <1>3, <1>5, <1>6 DEF Encode, MqttEncode_Publish
<1>8. /\ frame \in Seq(Nat)
      /\ \E V \in Nat : /\ V = VarHead(frame)
                        /\ LengthsFit(frame, V, qos, name, ids, buffer)
                        /\ LaidOut(frame, V, qos, name, ids, buffer)
  <2>1. Len(frame) <= 240
    BY <1>4, <1>6
  <2> QED
    BY <1>5, <1>6, <1>7, <2>1, PublishLayout
<1>9. PICK V \in Nat : /\ VarHead(frame) = V
                      /\ LengthsFit(frame, V, qos, name, ids, buffer)
                      /\ LaidOut(frame, V, qos, name, ids, buffer)
  BY <1>8
<1>10. /\ FrameType(frame) = "PUBLISH"
       /\ broker_decode_publish(frame) =
            [name |-> name, QoS |-> qos,
             packet_id |-> IF qos > 0 THEN <<ids[1], ids[2]>> ELSE <<0, 0>>, pld |-> buffer]
  BY <1>8, <1>9, LaidOutIsRead
<1>11. DecodedOf[r] = broker_decode_publish(frame)
  BY <1>6, <1>10 DEF DecodedOf, Decode, Frame
<1>12. /\ DecodedOf[r].name = r.topic_name /\ DecodedOf[r].QoS = r.qos /\ DecodedOf[r].pld = r.buffer
       /\ r.qos > 0 => DecodedOf[r].packet_id = MqttEncode_Num(r.packet_id)
  <2>1. /\ DecodedOf[r].name = name /\ DecodedOf[r].QoS = qos /\ DecodedOf[r].pld = buffer
        /\ DecodedOf[r].packet_id = IF qos > 0 THEN <<ids[1], ids[2]>> ELSE <<0, 0>>
    BY <1>10, <1>11
  <2>2. r.qos > 0 => DecodedOf[r].packet_id = MqttEncode_Num(r.packet_id)
    BY <1>2, <1>5, <2>1
  <2> QED
    BY Zenon, <1>2, <1>3, <2>1, <2>2
<1> QED
  BY Zenon, <1>12 DEF ReadAsWritten

LEMMA TailIsBehind ==
  ASSUME NEW s \in Seq(Nat), NEW n \in Nat, Len(s) = n + 1
  PROVE  \A i \in 1..n : Tail(s)[i] = s[1 + i]
OBVIOUS

\* The two answers, as the client reads them.
LEMMA ConnAckIsRead ==
  ASSUME NEW session, NEW code \in Nat
  PROVE  encode_conn_ack(session, code) \in Seq(Nat) /\ FrameType(encode_conn_ack(session, code)) = "CONNACK"
<1> DEFINE frame == encode_conn_ack(session, code)
<1>1. Flag(session, 1) \in Nat
  BY DEF Flag
<1>2. frame \in Seq(Nat) /\ frame[1] = 32
  BY <1>1, TypeNumbers DEF encode_conn_ack
<1>3. frame[1] \div 16 = 2
  <2>1. 32 \div 16 = 2
    OBVIOUS
  <2> QED
    BY <1>2, <2>1
<1> QED
  BY <1>2, <1>3, TypeNumbers DEF FrameType

LEMMA PubAckIsRead ==
  ASSUME NEW first \in Nat, NEW second \in Nat
  PROVE  LET frame == encode_publish_ack(<<first, second>>)
         IN  frame \in Seq(Nat) /\ FrameType(frame) = "PUBACK" /\ PacketId(frame) = 256 * first + second
<1> DEFINE frame == encode_publish_ack(<<first, second>>)
<1>1. /\ frame \in Seq(Nat) /\ Len(frame) = 4
      /\ frame[1] = 64 /\ frame[2] = 2 /\ frame[3] = first /\ frame[4] = second
  <2> DEFINE head == <<64, 2>>
             id == <<first, second>>
  <2>1. /\ head \in Seq(Nat) /\ Len(head) = 2 /\ head[1] = 64 /\ head[2] = 2
        /\ id \in Seq(Nat) /\ Len(id) = 2 /\ id[1] = first /\ id[2] = second
    OBVIOUS
  <2>2. frame = head \o id
    BY TypeNumbers DEF encode_publish_ack
  <2> HIDE DEF head, id
  <2>3. /\ head \o id \in Seq(Nat) /\ Len(head \o id) = Len(head) + Len(id)
        /\ \A i \in 1..Len(head) : (head \o id)[i] = head[i]
        /\ \A i \in 1..Len(id) : (head \o id)[Len(head) + i] = id[i]
    BY <2>1, Joined
  <2> HIDE DEF frame
  <2>4. Len(frame) = 4 /\ frame[1] = 64 /\ frame[2] = 2
    BY <2>1, <2>2, <2>3
  <2>5. frame[3] = first /\ frame[4] = second
    BY <2>1, <2>2, <2>3
  <2> QED
    BY <2>2, <2>3, <2>4, <2>5
<1> HIDE DEF frame
<1>2. FrameType(frame) = "PUBACK"
  <2>1. 64 \div 16 = 4
    OBVIOUS
  <2> QED
    BY <1>1, <2>1, TypeNumbers DEF FrameType
<1>3. VarHead(frame) = 2
  <2>1. PICK n \in Nat : n = 3
    OBVIOUS
  <2>2. frame \in Seq(Nat) /\ Len(frame) = n + 1
    BY <1>1, <2>1
  <2>3. \A i \in 1..n : Tail(frame)[i] = frame[1 + i]
    BY <2>2, TailIsBehind
  <2>4. Tail(frame)[1] = frame[2]
    <3>1. 1 \in 1..n /\ 1 + 1 = 2
      BY <2>1
    <3> QED
      BY <2>3, <3>1
  <2>5. frame[2] = 2
    BY <1>1
  <2>6. Tail(frame)[1] = 2
    BY Zenon, <2>4, <2>5
  <2>7. BytesTaken(Tail(frame)) = 1
    <3>1. PICK d \in Nat : d = 2 /\ d < 128
      OBVIOUS
    <3>2. Tail(frame)[1] = d
      BY Zenon, <2>6, <3>1
    <3> QED
      BY <3>1, <3>2 DEF BytesTaken
  <2> QED
    BY <2>7 DEF VarHead
<1>4. PacketId(frame) = 256 * first + second
  BY <1>1, <1>2, <1>3 DEF PacketId, Num
<1> QED
  BY <1>1, <1>2, <1>4 DEF frame

\* What holds of 0 and passes from each number to the next holds of all.
LEMMA FromEachToTheNext ==
  ASSUME NEW T, 0 \in T, \A i \in Nat : i \in T => i + 1 \in T
  PROVE  \A n \in Nat : n \in T
<1> SUFFICES ASSUME NEW n \in Nat, n \notin T
             PROVE  FALSE
  OBVIOUS
<1> DEFINE S == {i \in Nat : i \notin T}
<1>1. PICK least \in S : \A i \in S : ~(<<i, least>> \in OpToRel(<, Nat))
  <2>1. S \subseteq Nat /\ S # {}
    OBVIOUS
  <2> HIDE DEF S
  <2>2. IsWellFoundedOn(OpToRel(<, Nat), Nat)
    BY NatLessThanWellFounded
  <2> QED
    BY Zenon, <2>1, <2>2, WFMin
<1>2. \A i \in S : ~(i < least)
  BY <1>1 DEF OpToRel
<1>3. least \in Nat /\ least \notin T /\ least # 0
  OBVIOUS
<1>4. least - 1 \in Nat /\ least - 1 < least /\ (least - 1) + 1 = least
  BY <1>3
<1> QED
  BY <1>2, <1>3, <1>4

\* The same for the numbers up to n.
LEMMA UpTo ==
  ASSUME NEW T, NEW n \in Nat, 0 \in T, \A i \in Nat : i < n /\ i \in T => i + 1 \in T
  PROVE  \A i \in 0..n : i \in T
<1> DEFINE U == {i \in Nat : i <= n => i \in T}
<1>1. 0 \in U
  OBVIOUS
<1>2. \A i \in Nat : i \in U => i + 1 \in U
  OBVIOUS
<1> HIDE DEF U
<1>3. \A i \in Nat : i \in U
  BY <1>1, <1>2, FromEachToTheNext
<1> QED
  BY <1>3 DEF U

-------------------------------------------------------------------------------
(* Sequences laid end to end *)

\* The recursion of FlattenSeq, over the first n of the sequences.
Flattens(seqs, n, f) ==
  f = [i \in 1..n |-> IF i = 1 THEN seqs[i] ELSE f[i - 1] \o seqs[i]]

LEMMA FlattensOn ==
  ASSUME NEW seqs, NEW n \in Nat, NEW f, Flattens(seqs, n, f)
  PROVE  \E g : Flattens(seqs, n + 1, g)
<1> DEFINE g == [i \in 1 .. n + 1 |-> IF i <= n THEN f[i] ELSE IF i = 1 THEN seqs[i] ELSE f[i - 1] \o seqs[i]]
<1>1. \A i \in 1..n : f[i] = IF i = 1 THEN seqs[i] ELSE f[i - 1] \o seqs[i]
  BY DEF Flattens
<1>2. ASSUME NEW i \in 1 .. n + 1
      PROVE  g[i] = IF i = 1 THEN seqs[i] ELSE g[i - 1] \o seqs[i]
  <2>1. i # 1 => i - 1 \in 1..n
    OBVIOUS
  <2>2. i # 1 => g[i - 1] = f[i - 1]
    BY <2>1
  <2>3. i <= n => i \in 1..n
    OBVIOUS
  <2>4. g[i] = IF i <= n THEN f[i] ELSE IF i = 1 THEN seqs[i] ELSE f[i - 1] \o seqs[i]
    OBVIOUS
  <2> HIDE DEF g
  <2> QED
    BY <1>1, <2>2, <2>3, <2>4
<1>3. g = [i \in 1 .. n + 1 |-> g[i]]
  OBVIOUS
<1> HIDE DEF g
<1>4. g = [i \in 1 .. n + 1 |-> IF i = 1 THEN seqs[i] ELSE g[i - 1] \o seqs[i]]
  BY <1>2, <1>3
<1> QED
  BY Zenon, <1>4 DEF Flattens

LEMMA FlattensExists == \A seqs : \A n \in Nat : \E f : Flattens(seqs, n, f)
<1> SUFFICES ASSUME NEW seqs
             PROVE  \A n \in Nat : \E f : Flattens(seqs, n, f)
  OBVIOUS
<1> DEFINE T == {n \in Nat : \E f : Flattens(seqs, n, f)}
<1>1. 0 \in T
  <2> DEFINE f == [i \in 1..0 |-> {}]
  <2>1. 1..0 = {}
    OBVIOUS
  <2>2. f = [i \in 1..0 |-> IF i = 1 THEN seqs[i] ELSE f[i - 1] \o seqs[i]]
    BY <2>1
  <2> QED
    BY <2>2 DEF Flattens
<1>2. ASSUME NEW n \in Nat, n \in T
      PROVE  n + 1 \in T
  <2>1. \E f : Flattens(seqs, n, f)
    BY <1>2
  <2>2. \E g : Flattens(seqs, n + 1, g)
    BY <2>1, FlattensOn
  <2> QED
    BY <2>2
<1> HIDE DEF T
<1>3. \A n \in Nat : n \in T
  BY <1>1, <1>2, FromEachToTheNext
<1> QED
  BY <1>3 DEF T

LEMMA FlattenSeqIs ==
  ASSUME NEW seqs, Len(seqs) \in Nat, Len(seqs) # 0
  PROVE  \E f : Flattens(seqs, Len(seqs), f) /\ FlattenSeq(seqs) = f[Len(seqs)]
<1> DEFINE f == CHOOSE f : f = [i \in 1..Len(seqs) |-> IF i = 1 THEN seqs[i] ELSE f[i - 1] \o seqs[i]]
<1>1. f = [i \in 1..Len(seqs) |-> IF i = 1 THEN seqs[i] ELSE f[i - 1] \o seqs[i]]
  <2>1. \E g : g = [i \in 1..Len(seqs) |-> IF i = 1 THEN seqs[i] ELSE g[i - 1] \o seqs[i]]
    BY FlattensExists DEF Flattens
  <2> QED
    BY Zenon, <2>1
<1>2. FlattenSeq(seqs) = f[Len(seqs)]
  BY DEF FlattenSeq
<1> HIDE DEF f
<1> QED
  BY <1>1, <1>2 DEF Flattens

\* Where each of the sequences ends in the one they make up.
Ends(seqs, all, end) ==
  /\ end \in [0..Len(seqs) -> Nat]
  /\ end[0] = 0 /\ end[Len(seqs)] = Len(all)
  /\ \A i \in 1..Len(seqs) : end[i] = end[i - 1] + Len(seqs[i]) /\ PartAt(all, end[i - 1], seqs[i])
  /\ \A i \in 0..Len(seqs) : end[i] <= Len(all)

\* Up to n, with the sequence made up so far.
EndsSoFar(seqs, n, f, end) ==
  /\ f[n] \in Seq(Nat) /\ end \in [0..n -> Nat]
  /\ end[0] = 0 /\ end[n] = Len(f[n])
  /\ \A i \in 1..n : end[i] = end[i - 1] + Len(seqs[i]) /\ PartAt(f[n], end[i - 1], seqs[i])
  /\ \A i \in 0..n : end[i] <= Len(f[n])

LEMMA EndsSoFarOn ==
  ASSUME NEW seqs \in Seq(Seq(Nat)), NEW f, Flattens(seqs, Len(seqs), f),
         NEW n \in 1 .. Len(seqs) - 1, NEW end, EndsSoFar(seqs, n, f, end)
  PROVE  \E e : EndsSoFar(seqs, n + 1, f, e)
<1> DEFINE e == [i \in 0 .. n + 1 |-> IF i <= n THEN end[i] ELSE end[n] + Len(seqs[n + 1])]
<1>1. n + 1 \in 1..Len(seqs) /\ seqs[n + 1] \in Seq(Nat) /\ n + 1 # 1 /\ n + 1 - 1 = n /\ n \in Nat
  OBVIOUS
<1>2. f[n + 1] = f[n] \o seqs[n + 1]
  <2>1. \A i \in 1..Len(seqs) : f[i] = IF i = 1 THEN seqs[i] ELSE f[i - 1] \o seqs[i]
    BY DEF Flattens
  <2>2. PICK k : k = n + 1
    OBVIOUS
  <2>3. k \in 1..Len(seqs) /\ k # 1 /\ k - 1 = n
    BY <1>1, <2>2
  <2>4. f[k] = f[k - 1] \o seqs[k]
    BY Zenon, <2>1, <2>3
  <2> QED
    BY Zenon, <2>2, <2>3, <2>4
<1>3. PICK all, t, u : all = f[n] /\ t = seqs[n + 1] /\ u = f[n + 1]
  OBVIOUS
<1>4. /\ all \in Seq(Nat) /\ end \in [0..n -> Nat] /\ end[0] = 0 /\ end[n] = Len(all)
      /\ \A i \in 1..n : end[i] = end[i - 1] + Len(seqs[i]) /\ PartAt(all, end[i - 1], seqs[i])
      /\ \A i \in 0..n : end[i] <= Len(all)
  BY <1>3 DEF EndsSoFar
<1>5. /\ u \in Seq(Nat) /\ Len(u) = Len(all) + Len(t)
      /\ \A i \in 1..Len(all) : u[i] = all[i]
      /\ \A i \in 1..Len(t) : u[Len(all) + i] = t[i]
  <2>1. u = all \o t /\ t \in Seq(Nat)
    BY <1>1, <1>2, <1>3
  <2> QED
    BY <1>4, <2>1, Joined
<1>6. Len(t) \in Nat /\ Len(all) \in Nat /\ Len(t) = Len(seqs[n + 1])
  BY <1>1, <1>3, <1>4
<1>7. e \in [0 .. n + 1 -> Nat] /\ e[0] = 0 /\ e[n + 1] = Len(u) /\ \A i \in 0..n : e[i] = end[i]
  BY <1>1, <1>4, <1>5, <1>6
<1> HIDE DEF e
<1>8. ASSUME NEW i \in 1 .. n + 1
      PROVE  e[i] = e[i - 1] + Len(seqs[i]) /\ PartAt(u, e[i - 1], seqs[i])
  <2>1. CASE i = n + 1
    <3>1. e[n] = Len(all) /\ e[i] = Len(all) + Len(t) /\ i - 1 = n
      BY <1>4, <1>5, <1>7, <2>1
    <3>2. PartAt(u, Len(all), t)
      BY <1>5 DEF PartAt
    <3> QED
      BY <1>3, <1>6, <2>1, <3>1, <3>2
  <2>2. CASE i \in 1..n
    <3>1. i \in 0..n /\ i - 1 \in 0..n /\ seqs[i] \in Seq(Nat)
      BY <2>2
    <3>2. e[i] = end[i] /\ e[i - 1] = end[i - 1] /\ end[i] \in Nat /\ end[i - 1] \in Nat
      BY <1>4, <1>7, <3>1
    <3>3. end[i] = end[i - 1] + Len(seqs[i]) /\ PartAt(all, end[i - 1], seqs[i]) /\ end[i] <= Len(all)
      BY <1>4, <2>2, <3>1
    <3>4. PartAt(u, end[i - 1], seqs[i])
      <4>1. ASSUME NEW j \in 1..Len(seqs[i])
            PROVE  u[end[i - 1] + j] = seqs[i][j]
        <5>1. end[i - 1] + j \in 1..Len(all)
          <6>1. PICK from \in Nat, m \in Nat, last \in Nat :
                  end[i - 1] = from /\ Len(seqs[i]) = m /\ Len(all) = last
            <7>1. Len(seqs[i]) \in Nat
              BY <3>1
            <7> QED
              BY Zenon, <1>6, <3>2, <7>1
          <6>2. j \in 1..m /\ from + m <= last
            BY <3>3, <6>1
          <6>3. from + j \in 1..last
            BY <6>2
          <6> QED
            BY <6>1, <6>3
        <5> QED
          BY <1>5, <3>3, <5>1 DEF PartAt
      <4> QED
        BY <4>1 DEF PartAt
    <3> QED
      BY <3>2, <3>3, <3>4
  <2> QED
    BY <2>1, <2>2
<1>9. ASSUME NEW i \in 0 .. n + 1
      PROVE  e[i] <= Len(u)
  <2>1. CASE i = n + 1
    BY <1>5, <1>6, <1>7, <2>1
  <2>2. CASE i \in 0..n
    <3>1. e[i] = end[i] /\ end[i] <= Len(all) /\ end[i] \in Nat
      BY <1>4, <1>7, <2>2
    <3>2. Len(all) <= Len(u)
      BY <1>5, <1>6
    <3> QED
      BY <1>5, <1>6, <3>1, <3>2
  <2> QED
    BY <2>1, <2>2
<1>10. EndsSoFar(seqs, n + 1, f, e)
  BY <1>3, <1>5, <1>7, <1>8, <1>9 DEF EndsSoFar
<1> QED
  BY <1>10

\* What stands where in a sequence of sequences laid end to end.
LEMMA Flattened ==
  ASSUME NEW seqs \in Seq(Seq(Nat))
  PROVE  FlattenSeq(seqs) \in Seq(Nat) /\ \E end : Ends(seqs, FlattenSeq(seqs), end)
<1>1. CASE seqs = <<>>
  <2> DEFINE end == [i \in 0..0 |-> 0]
  <2>1. FlattenSeq(seqs) = <<>>
    BY <1>1 DEF FlattenSeq
  <2>2. Len(seqs) = 0 /\ Len(<<>>) = 0 /\ <<>> \in Seq(Nat)
    BY <1>1
  <2>3. end \in [0..0 -> Nat] /\ end[0] = 0 /\ \A i \in 0..0 : end[i] = 0
    OBVIOUS
  <2> HIDE DEF end
  <2>4. Ends(seqs, <<>>, end)
    BY <2>2, <2>3 DEF Ends
  <2> QED
    BY <2>1, <2>2, <2>4
<1>2. CASE seqs # <<>>
  <2>1. Len(seqs) \in Nat /\ Len(seqs) # 0 /\ \A i \in 1..Len(seqs) : seqs[i] \in Seq(Nat)
    BY <1>2
  <2>2. PICK f : Flattens(seqs, Len(seqs), f) /\ FlattenSeq(seqs) = f[Len(seqs)]
    BY <2>1, FlattenSeqIs
  <2> DEFINE T == {n \in Nat : n < Len(seqs) => \E end : EndsSoFar(seqs, n + 1, f, end)}
  <2>3. 0 \in T
    <3> DEFINE end == [i \in 0..1 |-> IF i = 0 THEN 0 ELSE Len(seqs[1])]
    <3>1. 1 \in 1..Len(seqs)
      BY <2>1
    <3>2. f[1] = seqs[1] /\ seqs[1] \in Seq(Nat)
      BY <2>1, <2>2, <3>1 DEF Flattens
    <3>3. Len(seqs[1]) \in Nat
      BY <3>2
    <3>4. /\ end \in [0..1 -> Nat] /\ end[0] = 0 /\ end[1] = Len(seqs[1])
      BY <3>3
    <3> HIDE DEF end
    <3>5. PartAt(f[1], 0, seqs[1])
      BY <3>2 DEF PartAt
    <3>6. \A i \in 1..1 : end[i] = end[i - 1] + Len(seqs[i]) /\ PartAt(f[1], end[i - 1], seqs[i])
      BY <3>3, <3>4, <3>5
    <3>7. \A i \in 0..1 : end[i] <= Len(f[1])
      BY <3>2, <3>3, <3>4
    <3>8. EndsSoFar(seqs, 1, f, end)
      BY <3>2, <3>4, <3>6, <3>7 DEF EndsSoFar
    <3> QED
      BY <3>8
  <2>4. ASSUME NEW n \in Nat, n \in T
        PROVE  n + 1 \in T
    <3> SUFFICES ASSUME n + 1 < Len(seqs)
                 PROVE  \E end : EndsSoFar(seqs, (n + 1) + 1, f, end)
      BY <2>4
    <3>1. n < Len(seqs) /\ n + 1 \in 1 .. Len(seqs) - 1
      BY <2>1
    <3>2. PICK end : EndsSoFar(seqs, n + 1, f, end)
      BY <2>4, <3>1
    <3> QED
      BY <2>2, <3>1, <3>2, EndsSoFarOn
  <2> HIDE DEF T
  <2>5. \A n \in Nat : n \in T
    BY <2>3, <2>4, FromEachToTheNext
  <2>6. PICK n \in Nat : n + 1 = Len(seqs)
    <3>1. Len(seqs) - 1 \in Nat /\ (Len(seqs) - 1) + 1 = Len(seqs)
      BY <2>1
    <3> QED
      BY <3>1
  <2>7. \E end : EndsSoFar(seqs, n + 1, f, end)
    <3>1. n < Len(seqs)
      <4>1. n < n + 1
        OBVIOUS
      <4> QED
        BY <2>6, <4>1
    <3>2. n \in T
      BY <2>5
    <3> QED
      BY <3>1, <3>2 DEF T
  <2> QED
    BY <2>2, <2>6, <2>7 DEF EndsSoFar, Ends
<1> QED
  BY <1>1, <1>2

-------------------------------------------------------------------------------
(* Texts one behind the other *)

\* Names stand in frame from pos on, each with its length in front and `gap` bytes behind;
\* start[i] is where the one after the i-th begins.
Lined(frame, pos, names, gap, start) ==
  /\ start \in [0..Len(names) -> Nat] /\ start[0] = pos
  /\ \A i \in 1..Len(names) :
       /\ start[i] = start[i - 1] + 2 + Len(names[i]) + gap
       /\ Num(frame, start[i - 1]) = Len(names[i])
       /\ PartAt(frame, start[i - 1] + 2, names[i])
  /\ \A i \in 0..Len(names) : start[i] <= Len(frame)

\* The recursion of Strings.
Positions(frame, pos, n, at) ==
  at = [i \in 0..n |-> IF i = 0 THEN pos ELSE Byte(at[i - 1] + 2 + Num(frame, at[i - 1]))]

LEMMA PositionsOn ==
  ASSUME NEW frame, NEW pos, NEW n \in Nat, NEW at, Positions(frame, pos, n, at)
  PROVE  \E g : Positions(frame, pos, n + 1, g)
<1> DEFINE next(p) == Byte(p + 2 + Num(frame, p))
           g == [i \in 0 .. n + 1 |-> IF i <= n THEN at[i] ELSE next(at[n])]
<1>1. at = [i \in 0..n |-> IF i = 0 THEN pos ELSE next(at[i - 1])]
  BY DEF Positions
<1> HIDE DEF next
<1>2. \A i \in 0..n : at[i] = IF i = 0 THEN pos ELSE next(at[i - 1])
  BY <1>1
<1>3. ASSUME NEW i \in 0 .. n + 1
      PROVE  g[i] = IF i = 0 THEN pos ELSE next(g[i - 1])
  <2>1. i # 0 => i - 1 \in 0..n
    OBVIOUS
  <2>2. i # 0 => g[i - 1] = at[i - 1]
    BY <2>1
  <2>3. i <= n => i \in 0..n
    OBVIOUS
  <2>4. g[i] = IF i <= n THEN at[i] ELSE next(at[n])
    OBVIOUS
  <2>5. ~(i <= n) => i # 0 /\ i - 1 = n
    OBVIOUS
  <2> HIDE DEF g
  <2> QED
    BY <1>2, <2>2, <2>3, <2>4, <2>5
<1>4. g = [i \in 0 .. n + 1 |-> g[i]]
  OBVIOUS
<1> HIDE DEF g
<1>5. g = [i \in 0 .. n + 1 |-> IF i = 0 THEN pos ELSE next(g[i - 1])]
  BY <1>3, <1>4
<1> QED
  BY Zenon, <1>5 DEF Positions, next

LEMMA PositionsExist == \A frame, pos : \A n \in Nat : \E at : Positions(frame, pos, n, at)
<1> SUFFICES ASSUME NEW frame, NEW pos
             PROVE  \A n \in Nat : \E at : Positions(frame, pos, n, at)
  OBVIOUS
<1> DEFINE T == {n \in Nat : \E at : Positions(frame, pos, n, at)}
<1>1. 0 \in T
  <2> DEFINE at == [i \in 0..0 |-> pos]
  <2>1. \A i \in 0..0 : i = 0
    OBVIOUS
  <2>2. at = [i \in 0..0 |-> IF i = 0 THEN pos ELSE Byte(at[i - 1] + 2 + Num(frame, at[i - 1]))]
    BY <2>1
  <2> HIDE DEF at
  <2> QED
    BY <2>2 DEF Positions
<1>2. ASSUME NEW n \in Nat, n \in T
      PROVE  n + 1 \in T
  <2>1. \E at : Positions(frame, pos, n, at)
    BY <1>2
  <2>2. \E g : Positions(frame, pos, n + 1, g)
    BY <2>1, PositionsOn
  <2> QED
    BY <2>2
<1> HIDE DEF T
<1>3. \A n \in Nat : n \in T
  BY <1>1, <1>2, FromEachToTheNext
<1> QED
  BY <1>3 DEF T

\* What is read at these positions.
TextsAt(frame, n, at) == [i \in 1..n |-> Text(frame, at[i - 1] + 2, Num(frame, at[i - 1]))]

LEMMA StringsAre ==
  ASSUME NEW frame, NEW pos, NEW n \in Nat
  PROVE  \E at : Positions(frame, pos, n, at) /\ Strings(frame, pos, n) = TextsAt(frame, n, at)
<1> DEFINE at == CHOOSE at :
                   at = [i \in 0..n |-> IF i = 0 THEN pos ELSE Byte(at[i - 1] + 2 + Num(frame, at[i - 1]))]
<1>1. at = [i \in 0..n |-> IF i = 0 THEN pos ELSE Byte(at[i - 1] + 2 + Num(frame, at[i - 1]))]
  <2>1. \E g : g = [i \in 0..n |-> IF i = 0 THEN pos ELSE Byte(g[i - 1] + 2 + Num(frame, g[i - 1]))]
    <3>1. PICK g : Positions(frame, pos, n, g)
      BY PositionsExist
    <3>2. g = [i \in 0..n |-> IF i = 0 THEN pos ELSE Byte(g[i - 1] + 2 + Num(frame, g[i - 1]))]
      BY Zenon, <3>1 DEF Positions
    <3> QED
      BY Zenon, <3>2
  <2> QED
    BY Zenon, <2>1
<1>2. Strings(frame, pos, n) = TextsAt(frame, n, at)
  BY DEF Strings, TextsAt
<1> HIDE DEF at
<1> QED
  BY <1>1, <1>2 DEF Positions

\* Texts are read from where they stand.
LEMMA StringsAreRead ==
  ASSUME NEW frame \in Seq(Nat), NEW pos \in Nat, NEW names \in Seq(Seq(Nat)), NEW start,
         Lined(frame, pos, names, 0, start), Len(frame) <= 240
  PROVE  Strings(frame, pos, Len(names)) = names
<1>1. PICK n \in Nat : n = Len(names)
  OBVIOUS
<1>2. PICK at : Positions(frame, pos, n, at) /\ Strings(frame, pos, n) = TextsAt(frame, n, at)
  BY Zenon, <1>1, StringsAre
<1>3. \A i \in 0..n : at[i] = IF i = 0 THEN pos ELSE Byte(at[i - 1] + 2 + Num(frame, at[i - 1]))
  BY <1>2 DEF Positions
<1>4. /\ start \in [0..n -> Nat] /\ start[0] = pos
      /\ \A i \in 1..n : /\ start[i] = start[i - 1] + 2 + Len(names[i]) + 0
                         /\ Num(frame, start[i - 1]) = Len(names[i])
                         /\ PartAt(frame, start[i - 1] + 2, names[i])
      /\ \A i \in 0..n : start[i] <= Len(frame)
  BY <1>1 DEF Lined
<1>5. \A i \in 1..n : names[i] \in Seq(Nat) /\ Len(names[i]) \in Nat
  BY <1>1
<1> DEFINE T == {i \in Nat : at[i] = start[i]}
<1>6. 0 \in T
  BY <1>3, <1>4
<1>7. ASSUME NEW i \in Nat, i < n, i \in T
      PROVE  i + 1 \in T
  <2>1. i + 1 \in 1..n /\ i + 1 \in 0..n /\ i + 1 # 0 /\ (i + 1) - 1 = i
    BY <1>7
  <2>2. at[i] = start[i]
    BY <1>7
  <2>3. PICK k, text, here, there :
          k = i + 1 /\ text = names[i + 1] /\ here = start[i] /\ there = start[i + 1]
    OBVIOUS
  <2>4. k \in 1..n /\ k \in 0..n /\ k # 0 /\ k - 1 = i
    BY <2>1, <2>3
  <2>5. at[k] = Byte(here + 2 + Num(frame, here))
    BY <1>3, <2>2, <2>3, <2>4
  <2>6. there = here + 2 + Len(text) + 0 /\ Num(frame, here) = Len(text) /\ there <= Len(frame)
    BY <1>4, <2>3, <2>4
  <2>7. here \in Nat /\ Len(text) \in Nat /\ Len(frame) \in Nat
    <3>1. i \in 0..n
      BY <1>7
    <3>2. here \in Nat
      BY <1>4, <2>3, <3>1
    <3>3. Len(text) \in Nat
      BY <1>5, <2>1, <2>3
    <3> QED
      BY <3>2, <3>3
  <2>8. Byte(here + 2 + Len(text)) = there
    BY <2>6, <2>7, ByteFits
  <2>9. at[k] = there
    BY Zenon, <2>5, <2>6, <2>8
  <2> QED
    BY <2>3, <2>9
<1> HIDE DEF T
<1>8. \A i \in 0..n : at[i] = start[i]
  <2>1. \A i \in 0..n : i \in T
    BY <1>6, <1>7, UpTo
  <2> QED
    BY <2>1 DEF T
<1>9. ASSUME NEW i \in 1..n
      PROVE  Text(frame, at[i - 1] + 2, Num(frame, at[i - 1])) = names[i]
  <2>1. i - 1 \in 0..n /\ i \in 0..n
    OBVIOUS
  <2>2. PICK text, here, there : names[i] = text /\ start[i - 1] = here /\ start[i] = there
    OBVIOUS
  <2>3. /\ there = here + 2 + Len(text) + 0 /\ Num(frame, here) = Len(text) /\ there <= Len(frame)
        /\ PartAt(frame, here + 2, text)
    BY <1>4, <2>1, <2>2
  <2>4. here \in Nat /\ there \in Nat /\ text \in Seq(Nat) /\ Len(text) \in Nat
    BY <1>4, <1>5, <2>1, <2>2
  <2>5. here + 2 \in Nat /\ here + 2 + Len(text) = there
    BY <2>3, <2>4
  <2>6. SubSeq(frame, here + 2 + 1, there) = text
    BY <2>3, <2>4, <2>5, PartIsRead
  <2>7. Text(frame, here + 2, Len(text)) = text
    BY <2>5, <2>6 DEF Text
  <2> QED
    BY <1>8, <2>1, <2>2, <2>3, <2>7
<1>10. TextsAt(frame, n, at) = [i \in 1..n |-> names[i]]
  BY <1>9 DEF TextsAt
<1>11. names = [i \in 1..n |-> names[i]]
  BY <1>1
<1> QED
  BY Zenon, <1>1, <1>2, <1>10, <1>11

\* A part of a part stands where both say.
LEMMA PartOfPart ==
  ASSUME NEW frame, NEW pos \in Nat, NEW all \in Seq(Nat), PartAt(frame, pos, all),
         NEW k \in Nat, NEW s \in Seq(Nat), PartAt(all, k, s), k + Len(s) <= Len(all)
  PROVE  PartAt(frame, pos + k, s)
<1>1. PICK m \in Nat, last \in Nat : Len(s) = m /\ Len(all) = last
  OBVIOUS
<1>2. ASSUME NEW i \in 1..m
      PROVE  frame[pos + k + i] = s[i]
  <2>1. k + i \in 1..last /\ pos + k + i = pos + (k + i)
    BY <1>1
  <2>2. \A j \in 1..last : frame[pos + j] = all[j]
    BY <1>1 DEF PartAt
  <2>3. \A j \in 1..m : all[k + j] = s[j]
    BY <1>1 DEF PartAt
  <2> QED
    BY <2>1, <2>2, <2>3
<1> QED
  BY <1>1, <1>2 DEF PartAt

\* An encoded text and what comes behind it: its length, the text, the rest.
Spelled(all, s, more) ==
  /\ all \in Seq(Nat) /\ Len(all) = 2 + Len(s) + Len(more)
  /\ Len(s) = 256 * all[1] + all[2]
  /\ PartAt(all, 2, s) /\ PartAt(all, 2 + Len(s), more)

LEMMA StringIs ==
  ASSUME NEW s \in Seq(Nat), NEW more \in Seq(Nat)
  PROVE  Spelled(MqttEncode_String(s) \o more, s, more)
<1> DEFINE num == MqttEncode_Num(Len(s))
           t == num \o s
           all == t \o more
<1>1. num \in Seq(Nat) /\ Len(num) = 2 /\ Len(s) = 256 * num[1] + num[2]
  <2>1. Len(s) \in Nat
    OBVIOUS
  <2> QED
    BY <2>1, Numbers
<1> HIDE DEF num
<1>2. /\ t \in Seq(Nat) /\ Len(t) = 2 + Len(s) /\ t[1] = num[1] /\ t[2] = num[2]
      /\ \A i \in 1..Len(s) : t[2 + i] = s[i]
  <2>1. /\ num \o s \in Seq(Nat) /\ Len(num \o s) = Len(num) + Len(s)
        /\ \A i \in 1..Len(num) : (num \o s)[i] = num[i]
        /\ \A i \in 1..Len(s) : (num \o s)[Len(num) + i] = s[i]
    BY <1>1, Joined
  <2> QED
    BY <2>1, <1>1
<1> HIDE DEF t
<1>3. /\ all \in Seq(Nat) /\ Len(all) = Len(t) + Len(more)
      /\ \A i \in 1..Len(t) : all[i] = t[i]
      /\ \A i \in 1..Len(more) : all[Len(t) + i] = more[i]
  BY <1>2, Joined
<1> HIDE DEF all
<1>4. PICK n \in Nat : n = Len(s)
  OBVIOUS
<1>5. /\ Len(t) = 2 + n /\ \A i \in 1..n : t[2 + i] = s[i]
      /\ \A i \in 1 .. 2 + n : all[i] = t[i]
  BY <1>2, <1>3, <1>4
<1>6. all[1] = num[1] /\ all[2] = num[2]
  <2>1. 1 \in 1 .. 2 + n /\ 2 \in 1 .. 2 + n
    BY <1>4
  <2> QED
    BY <1>2, <1>5, <2>1
<1>7. PartAt(all, 2, s)
  <2>1. ASSUME NEW i \in 1..n
        PROVE  all[2 + i] = s[i]
    <3>1. 2 + i \in 1 .. 2 + n
      BY <1>4
    <3> QED
      BY <1>5, <3>1
  <2> QED
    BY <1>4, <2>1 DEF PartAt
<1>8. PartAt(all, 2 + n, more)
  BY <1>3, <1>5 DEF PartAt
<1>9. Len(all) = 2 + n + Len(more)
  BY <1>3, <1>5
<1>10. n = 256 * all[1] + all[2]
  BY <1>1, <1>4, <1>6
<1>11. MqttEncode_String(s) \o more = all
  BY DEF MqttEncode_String, all, t, num
<1>12. Spelled(all, s, more)
  BY <1>3, <1>4, <1>7, <1>8, <1>9, <1>10 DEF Spelled
<1> QED
  BY Zenon, <1>11, <1>12

\* ... up to `last`, with what stands behind each.
LinedTo(frame, pos, names, gap, tails, last) ==
  \E start : /\ Lined(frame, pos, names, gap, start)
             /\ start[Len(names)] = last
             /\ \A i \in 1..Len(names) : PartAt(frame, start[i] - gap, tails[i])

\* Names with as many bytes behind each, laid end to end in front of a frame's end.
LEMMA LinedUp ==
  ASSUME NEW frame \in Seq(Nat), NEW pos \in Nat, NEW gap \in Nat,
         NEW names \in Seq(Seq(Nat)), NEW tails \in [1..Len(names) -> Seq(Nat)],
         \A i \in 1..Len(names) : Len(tails[i]) = gap,
         NEW parts, parts = [i \in 1..Len(names) |-> MqttEncode_String(names[i]) \o tails[i]],
         NEW all \in Seq(Nat), FlattenSeq(parts) = all,
         PartAt(frame, pos, all), pos + Len(all) <= Len(frame)
  PROVE  LinedTo(frame, pos, names, gap, tails, pos + Len(all))
<1>1. PICK n \in Nat : Len(names) = n
  OBVIOUS
<1>2. /\ parts = [i \in 1..n |-> MqttEncode_String(names[i]) \o tails[i]]
      /\ \A i \in 1..n : names[i] \in Seq(Nat) /\ tails[i] \in Seq(Nat) /\ Len(tails[i]) = gap
  BY <1>1
<1>3. \A i \in 1..n : /\ parts[i] \in Seq(Nat) /\ Len(parts[i]) = 2 + Len(names[i]) + gap
                      /\ Len(names[i]) = 256 * parts[i][1] + parts[i][2]
                      /\ PartAt(parts[i], 2, names[i])
                      /\ PartAt(parts[i], 2 + Len(names[i]), tails[i])
  <2> TAKE i \in 1..n
  <2>1. PICK s \in Seq(Nat), more \in Seq(Nat) : names[i] = s /\ tails[i] = more
    BY <1>2
  <2>2. PICK p : MqttEncode_String(s) \o more = p
    OBVIOUS
  <2>3. p = parts[i] /\ Len(more) = gap
    BY <1>2, <2>1, <2>2
  <2>4. /\ p \in Seq(Nat) /\ Len(p) = 2 + Len(s) + Len(more)
        /\ Len(s) = 256 * p[1] + p[2]
        /\ PartAt(p, 2, s) /\ PartAt(p, 2 + Len(s), more)
    <3>1. Spelled(p, s, more)
      BY <2>2, StringIs
    <3> QED
      BY <3>1 DEF Spelled
  <2> QED
    BY <2>1, <2>3, <2>4
<1>4. parts \in Seq(Seq(Nat)) /\ Len(parts) = n
  <2>1. parts \in [1..n -> Seq(Nat)]
    BY <1>2, <1>3
  <2> QED
    BY <2>1
<1>5. PICK end : Ends(parts, all, end)
  BY <1>4, Flattened
<1>6. /\ end \in [0..n -> Nat] /\ end[0] = 0 /\ end[n] = Len(all)
      /\ \A i \in 1..n : end[i] = end[i - 1] + Len(parts[i]) /\ PartAt(all, end[i - 1], parts[i])
      /\ \A i \in 0..n : end[i] <= Len(all)
  BY <1>4, <1>5 DEF Ends
<1> DEFINE start == [i \in 0..n |-> pos + end[i]]
<1>7. /\ start \in [0..n -> Nat] /\ start[0] = pos /\ start[n] = pos + Len(all)
      /\ \A i \in 0..n : start[i] = pos + end[i]
  <2>1. \A i \in 0..n : end[i] \in Nat /\ pos + end[i] \in Nat
    BY <1>6
  <2>2. 0 \in 0..n /\ n \in 0..n /\ pos + 0 = pos
    BY <1>1
  <2> QED
    BY <1>6, <2>1, <2>2
<1> HIDE DEF start
<1>8. ASSUME NEW i \in 1..n
      PROVE  /\ start[i] = start[i - 1] + 2 + Len(names[i]) + gap
             /\ Num(frame, start[i - 1]) = Len(names[i])
             /\ PartAt(frame, start[i - 1] + 2, names[i])
             /\ PartAt(frame, start[i] - gap, tails[i])
  <2>1. i - 1 \in 0..n /\ i \in 0..n
    OBVIOUS
  <2>2. PICK from \in Nat, to \in Nat : end[i - 1] = from /\ end[i] = to
    BY <1>6, <2>1
  <2>3. PICK s \in Seq(Nat), more \in Seq(Nat), p \in Seq(Nat) : names[i] = s /\ tails[i] = more /\ parts[i] = p
    BY <1>2, <1>3
  <2>4. /\ Len(p) = 2 + Len(s) + gap /\ Len(s) = 256 * p[1] + p[2] /\ Len(more) = gap
        /\ PartAt(p, 2, s) /\ PartAt(p, 2 + Len(s), more)
    BY <1>2, <1>3, <2>3
  <2>5. /\ to = from + Len(p) /\ PartAt(all, from, p) /\ to <= Len(all)
        /\ start[i - 1] = pos + from /\ start[i] = pos + to
    BY <1>6, <1>7, <2>1, <2>2, <2>3
  <2>6. PartAt(frame, pos + from, p)
    BY <2>5, PartOfPart
  <2>7. PICK m \in Nat : Len(s) = m
    BY <2>3
  <2>8. PartAt(frame, pos + from + 2, s) /\ PartAt(frame, pos + from + (2 + m), more)
    <3>1. pos + from \in Nat /\ 2 + m <= Len(p) /\ 2 + m + Len(more) <= Len(p)
      BY <2>4, <2>7
    <3>2. PICK q \in Nat, k \in Nat : pos + from = q /\ 2 + m = k
      BY <2>2, <2>7
    <3>3. PartAt(frame, q, p) /\ PartAt(p, 2, s) /\ PartAt(p, k, more)
      BY <2>4, <2>6, <2>7, <3>2
    <3>4. 2 + Len(s) <= Len(p) /\ k + Len(more) <= Len(p)
      BY <2>7, <3>1, <3>2
    <3>5. PartAt(frame, q + 2, s)
      BY <3>3, <3>4, PartOfPart
    <3>6. PartAt(frame, q + k, more)
      BY <3>3, <3>4, PartOfPart
    <3> QED
      BY <3>2, <3>5, <3>6
  <2>9. Num(frame, pos + from) = m
    <3>1. 1 \in 1..Len(p) /\ 2 \in 1..Len(p)
      BY <2>4, <2>7
    <3>2. frame[pos + from + 1] = p[1] /\ frame[pos + from + 2] = p[2]
      BY <2>6, <3>1 DEF PartAt
    <3> QED
      BY <2>4, <2>7, <3>2 DEF Num
  <2>10. to = from + 2 + m + gap /\ (pos + to) - gap = pos + from + (2 + m)
    <3>1. PICK all_of_it \in Nat : Len(p) = all_of_it
      BY <2>3
    <3>2. all_of_it = 2 + m + gap
      BY <2>4, <2>7, <3>1
    <3>3. to = from + all_of_it
      BY <2>5, <3>1
    <3> QED
      BY <2>2, <2>7, <3>2, <3>3
  <2>11. pos + to = pos + from + 2 + m + gap
    BY <2>10
  <2> QED
    BY <2>3, <2>5, <2>7, <2>8, <2>9, <2>10, <2>11
<1>9. \A i \in 0..n : start[i] <= Len(frame)
  <2> TAKE i \in 0..n
  <2>1. start[i] = pos + end[i] /\ end[i] <= Len(all) /\ end[i] \in Nat
    BY <1>6, <1>7
  <2>2. Len(all) \in Nat /\ Len(frame) \in Nat
    OBVIOUS
  <2> QED
    BY <2>1, <2>2
<1>10. Lined(frame, pos, names, gap, start)
  BY <1>1, <1>7, <1>8, <1>9 DEF Lined
<1> QED
  BY <1>1, <1>7, <1>8, <1>10 DEF LinedTo

-------------------------------------------------------------------------------
(* CONNECT *)

\* Texts behind a first one.
LEMMA LinedAfter ==
  ASSUME NEW frame \in Seq(Nat), NEW pos \in Nat, NEW first \in Seq(Nat), NEW names \in Seq(Seq(Nat)),
         Num(frame, pos) = Len(first), PartAt(frame, pos + 2, first),
         NEW start, Lined(frame, pos + 2 + Len(first), names, 0, start)
  PROVE  \E s : Lined(frame, pos, <<first>> \o names, 0, s)
<1>1. PICK n \in Nat, m \in Nat : Len(names) = n /\ Len(first) = m
  OBVIOUS
<1>2. /\ start \in [0..n -> Nat] /\ start[0] = pos + 2 + m
      /\ \A i \in 1..n : /\ start[i] = start[i - 1] + 2 + Len(names[i]) + 0
                         /\ Num(frame, start[i - 1]) = Len(names[i])
                         /\ PartAt(frame, start[i - 1] + 2, names[i])
      /\ \A i \in 0..n : start[i] <= Len(frame)
  BY <1>1 DEF Lined
<1> DEFINE all == <<first>> \o names
           s == [i \in 0 .. n + 1 |-> IF i = 0 THEN pos ELSE start[i - 1]]
<1>3. Len(all) = n + 1 /\ all[1] = first /\ \A i \in 1..n : all[i + 1] = names[i]
  BY <1>1
<1> HIDE DEF all
<1>4. /\ s \in [0 .. n + 1 -> Nat] /\ s[0] = pos
      /\ \A i \in 0..n : s[i + 1] = start[i]
  <2>1. ASSUME NEW i \in 0 .. n + 1, i # 0
        PROVE  start[i - 1] \in Nat
    <3>1. i - 1 \in 0..n
      BY <2>1
    <3> QED
      BY <1>2, <3>1
  <2>2. \A i \in 0..n : i + 1 \in 0 .. n + 1 /\ i + 1 # 0 /\ (i + 1) - 1 = i
    OBVIOUS
  <2> QED
    BY <2>1, <2>2
<1> HIDE DEF s
<1>5. ASSUME NEW i \in 1 .. n + 1
      PROVE  /\ s[i] = s[i - 1] + 2 + Len(all[i]) + 0
             /\ Num(frame, s[i - 1]) = Len(all[i])
             /\ PartAt(frame, s[i - 1] + 2, all[i])
  <2>1. CASE i = 1
    <3>1. s[1] = pos + 2 + m /\ s[0] = pos /\ 1 - 1 = 0
      <4>1. 0 \in 0..n /\ 0 + 1 = 1
        OBVIOUS
      <4>2. s[1] = start[0]
        BY <1>4, <4>1
      <4> QED
        BY <1>2, <1>4, <4>2
    <3>2. pos + 2 + m = pos + 2 + m + 0
      OBVIOUS
    <3> QED
      BY <1>1, <1>3, <2>1, <3>1, <3>2
  <2>2. CASE i # 1
    <3>1. PICK j \in 1..n : j + 1 = i
      <4>1. i - 1 \in 1..n /\ (i - 1) + 1 = i
        BY <2>2
      <4> QED
        BY <4>1
    <3>2. j \in 0..n /\ j - 1 \in 0..n /\ (j - 1) + 1 = j /\ i - 1 = j
      BY <3>1
    <3>3. s[i] = start[j] /\ s[i - 1] = start[j - 1] /\ all[i] = names[j]
      <4>1. s[j + 1] = start[j] /\ s[(j - 1) + 1] = start[j - 1] /\ all[j + 1] = names[j]
        BY <1>3, <1>4, <3>2
      <4> QED
        BY <3>1, <3>2, <4>1
    <3> QED
      BY <1>2, <3>3
  <2> QED
    BY <2>1, <2>2
<1>6. ASSUME NEW i \in 0 .. n + 1
      PROVE  s[i] <= Len(frame)
  <2>1. CASE i = 0
    <3>1. start[0] <= Len(frame) /\ Len(frame) \in Nat
      BY <1>2
    <3> QED
      BY <1>2, <1>4, <2>1, <3>1
  <2>2. CASE i # 0
    <3>1. PICK j \in 0..n : j + 1 = i
      <4>1. i - 1 \in 0..n /\ (i - 1) + 1 = i
        BY <2>2
      <4> QED
        BY <4>1
    <3> QED
      BY <1>2, <1>4, <3>1
  <2> QED
    BY <2>1, <2>2
<1>7. Lined(frame, pos, all, 0, s)
  BY <1>3, <1>4, <1>5, <1>6 DEF Lined
<1> QED
  BY <1>7 DEF all

\* The flags of a CONNECT, each in its own bit.
LEMMA FlagBits ==
  ASSUME NEW clean \in BOOLEAN, NEW will \in BOOLEAN, NEW pswd \in BOOLEAN, NEW user \in BOOLEAN,
         NEW flags, flags = Flag(clean, 2) + Flag(will, 4) + Flag(pswd, 64) + Flag(user, 128)
  PROVE  /\ flags \in Nat
         /\ Bit(flags, 2) = clean /\ Bit(flags, 4) = will /\ Bit(flags, 64) = pswd /\ Bit(flags, 128) = user
<1>1. PICK a \in {0, 1}, b \in {0, 1}, c \in {0, 1}, d \in {0, 1} :
        /\ a = 1 <=> clean
        /\ b = 1 <=> will
        /\ c = 1 <=> pswd
        /\ d = 1 <=> user
  OBVIOUS
<1>2. flags = 2 * a + 4 * b + 64 * c + 128 * d
  BY <1>1 DEF Flag
<1>3. flags \in Nat
  BY <1>2
<1>4. flags \div 2 = a + 2 * b + 32 * c + 64 * d /\ flags \div 4 = b + 16 * c + 32 * d
  BY <1>2
<1>5. flags \div 64 = c + 2 * d /\ flags \div 128 = d
  BY <1>2
<1>6. (flags \div 2) % 2 = a /\ (flags \div 4) % 2 = b /\ (flags \div 64) % 2 = c /\ (flags \div 128) % 2 = d
  BY <1>4, <1>5
<1>7. /\ Bit(flags, 2) <=> clean
      /\ Bit(flags, 4) <=> will
      /\ Bit(flags, 64) <=> pswd
      /\ Bit(flags, 128) <=> user
  BY <1>1, <1>6 DEF Bit
<1>8. Bit(flags, 2) \in BOOLEAN /\ Bit(flags, 4) \in BOOLEAN /\ Bit(flags, 64) \in BOOLEAN /\ Bit(flags, 128) \in BOOLEAN
  BY DEF Bit
<1> QED
  BY <1>3, <1>7, <1>8

\* The ten bytes in front of the texts.
ConnectHead(flags, keep) == MqttEncode_String(<<77, 81, 84, 84>>) \o <<4>> \o <<flags>> \o MqttEncode_Num(keep)

HeadOfConnect(head, flags, keep) ==
  /\ head \in Seq(Nat) /\ Len(head) = 10
  /\ 256 * head[1] + head[2] = 4 /\ head[7] = 4 /\ head[8] = flags
  /\ 256 * head[9] + head[10] = keep

LEMMA ConnectHeadIs ==
  ASSUME NEW flags \in Nat, NEW keep \in Nat
  PROVE  HeadOfConnect(ConnectHead(flags, keep), flags, keep)
<1> DEFINE mqtt == <<77, 81, 84, 84>>
           name == MqttEncode_String(mqtt)
           level == <<4>>
           bits == <<flags>>
           num == MqttEncode_Num(keep)
           two == name \o level
           three == two \o bits
           head == three \o num
<1>1. mqtt \in Seq(Nat) /\ Len(mqtt) = 4
  OBVIOUS
<1>2. /\ level \in Seq(Nat) /\ Len(level) = 1 /\ level[1] = 4
      /\ bits \in Seq(Nat) /\ Len(bits) = 1 /\ bits[1] = flags
  OBVIOUS
<1>3. num \in Seq(Nat) /\ Len(num) = 2 /\ 256 * num[1] + num[2] = keep
  BY Numbers
<1> HIDE DEF mqtt, level, bits, num
<1>4. name \in Seq(Nat) /\ Len(name) = 6 /\ 256 * name[1] + name[2] = 4
  <2> DEFINE none == <<>>
  <2>1. none \in Seq(Nat) /\ Len(none) = 0
    OBVIOUS
  <2> HIDE DEF none
  <2>2. Spelled(name \o none, mqtt, none)
    BY <1>1, <2>1, StringIs
  <2>3. name \in Seq(Nat)
    <3>1. MqttEncode_Num(4) \in Seq(Nat)
      BY Numbers
    <3> QED
      BY <1>1, <3>1, Joined DEF MqttEncode_String
  <2>4. name \o none = name
    BY <2>3, ConcatEmptySeq DEF none
  <2> HIDE DEF name
  <2>5. Len(name) = 2 + Len(mqtt) + Len(none) /\ Len(mqtt) = 256 * name[1] + name[2]
    BY <2>2, <2>4 DEF Spelled
  <2>6. PICK l, m, o : Len(name) = l /\ Len(mqtt) = m /\ Len(none) = o
    OBVIOUS
  <2>7. l = 2 + m + o /\ m = 256 * name[1] + name[2] /\ m = 4 /\ o = 0
    BY Zenon, <1>1, <2>1, <2>5, <2>6
  <2>8. l = 6 /\ 256 * name[1] + name[2] = 4
    BY <2>7
  <2> QED
    BY Zenon, <2>3, <2>6, <2>8
<1> HIDE DEF name
<1>5. /\ two \in Seq(Nat) /\ Len(two) = 7 /\ two[7] = 4
      /\ two[1] = name[1] /\ two[2] = name[2]
  <2>1. /\ two \in Seq(Nat) /\ Len(two) = Len(name) + Len(level)
        /\ \A i \in 1..Len(name) : two[i] = name[i]
        /\ \A i \in 1..Len(level) : two[Len(name) + i] = level[i]
    BY <1>2, <1>4, Joined
  <2> HIDE DEF two
  <2> QED
    BY <1>2, <1>4, <2>1
<1> HIDE DEF two
<1>6. /\ three \in Seq(Nat) /\ Len(three) = 8 /\ three[8] = flags /\ three[7] = 4
      /\ three[1] = name[1] /\ three[2] = name[2]
  <2>1. /\ three \in Seq(Nat) /\ Len(three) = Len(two) + Len(bits)
        /\ \A i \in 1..Len(two) : three[i] = two[i]
        /\ \A i \in 1..Len(bits) : three[Len(two) + i] = bits[i]
    BY <1>2, <1>5, Joined
  <2> HIDE DEF three
  <2> QED
    BY <1>2, <1>5, <2>1
<1> HIDE DEF three
<1>7. /\ head \in Seq(Nat) /\ Len(head) = 10 /\ head[8] = flags /\ head[7] = 4
      /\ head[1] = name[1] /\ head[2] = name[2] /\ head[9] = num[1] /\ head[10] = num[2]
  <2>1. /\ head \in Seq(Nat) /\ Len(head) = Len(three) + Len(num)
        /\ \A i \in 1..Len(three) : head[i] = three[i]
        /\ \A i \in 1..Len(num) : head[Len(three) + i] = num[i]
    BY <1>3, <1>6, Joined
  <2> HIDE DEF head
  <2> QED
    BY <1>3, <1>6, <2>1
<1>8. ConnectHead(flags, keep) = head
  BY DEF ConnectHead, head, three, two, name, level, bits, num, mqtt
<1> HIDE DEF head
<1> QED
  BY <1>3, <1>4, <1>7, <1>8 DEF HeadOfConnect

\* What stands where in the frame of a CONNECT with its variable header at V.
LaidOutConnect(frame, V, flags, keep, texts) ==
  /\ FrameType(frame) = "CONNECT"
  /\ VarHead(frame) = V /\ V <= 5 /\ Len(frame) <= 240
  /\ Num(frame, V) = 4 /\ frame[V + 7] = 4 /\ frame[V + 8] = flags
  /\ Num(frame, V + 8) = keep
  /\ \E start : Lined(frame, V + 10, texts, 0, start)

\* Texts are typed as the sum of their encodings.
LEMMA TextsAre ==
  ASSUME NEW list \in Seq(Seq(Nat))
  PROVE  /\ Texts(list) \in Seq(Nat)
         /\ \A frame \in Seq(Nat), pos \in Nat :
              PartAt(frame, pos, Texts(list)) /\ pos + Len(Texts(list)) <= Len(frame)
                => \E start : /\ Lined(frame, pos, list, 0, start)
                              /\ start[Len(list)] = pos + Len(Texts(list))
<1> DEFINE none == [i \in 1..Len(list) |-> <<>>]
           parts == [i \in 1..Len(list) |-> MqttEncode_String(list[i]) \o none[i]]
<1>1. /\ none \in [1..Len(list) -> Seq(Nat)]
      /\ \A i \in 1..Len(list) : none[i] = <<>> /\ Len(none[i]) = 0
  OBVIOUS
<1> HIDE DEF none
<1>2. ASSUME NEW i \in 1..Len(list)
      PROVE  MqttEncode_String(list[i]) \in Seq(Nat) /\ MqttEncode_String(list[i]) \o none[i] = MqttEncode_String(list[i])
  <2>1. list[i] \in Seq(Nat) /\ Len(list[i]) \in Nat
    OBVIOUS
  <2>2. MqttEncode_Num(Len(list[i])) \in Seq(Nat)
    BY <2>1, Numbers
  <2>3. MqttEncode_String(list[i]) \in Seq(Nat)
    BY <2>1, <2>2, Joined DEF MqttEncode_String
  <2> QED
    BY <1>1, <2>3, ConcatEmptySeq
<1>3. parts = [i \in DOMAIN list |-> MqttEncode_String(list[i])]
  <2>1. DOMAIN list = 1..Len(list)
    OBVIOUS
  <2> QED
    BY <1>2, <2>1
<1>4. Texts(list) = FlattenSeq(parts)
  BY <1>3 DEF Texts
<1>5. parts \in Seq(Seq(Nat))
  <2>1. parts \in [1..Len(list) -> Seq(Nat)]
    BY <1>2
  <2> HIDE DEF parts
  <2>2. PICK n \in Nat : Len(list) = n
    OBVIOUS
  <2> QED
    BY <2>1, <2>2
<1>6. Texts(list) \in Seq(Nat)
  BY <1>4, <1>5, Flattened
<1>7. ASSUME NEW frame \in Seq(Nat), NEW pos \in Nat,
             PartAt(frame, pos, Texts(list)), pos + Len(Texts(list)) <= Len(frame)
      PROVE  \E start : Lined(frame, pos, list, 0, start) /\ start[Len(list)] = pos + Len(Texts(list))
  <2>1. PICK all \in Seq(Nat) : Texts(list) = all
    BY <1>6
  <2>2. FlattenSeq(parts) = all /\ PartAt(frame, pos, all) /\ pos + Len(all) <= Len(frame)
    BY <1>4, <1>7, <2>1
  <2>3. parts = [i \in 1..Len(list) |-> MqttEncode_String(list[i]) \o none[i]]
    OBVIOUS
  <2> HIDE DEF parts
  <2>4. LinedTo(frame, pos, list, 0, none, pos + Len(all))
    <3>1. 0 \in Nat /\ \A i \in 1..Len(list) : Len(none[i]) = 0
      BY <1>1
    <3> QED
      BY <1>1, <2>2, <2>3, <3>1, LinedUp
  <2> QED
    BY <2>1, <2>4 DEF LinedTo
<1> QED
  BY <1>6, <1>7

LEMMA Regrouped ==
  \A s, t, u \in Seq(Nat) : (s \o t) \o u = s \o (t \o u)
<1> TAKE s, t, u \in Seq(Nat)
<1> QED
  BY ConcatAssociative

LEMMA ConnectLayout ==
  ASSUME NEW flags \in Nat, NEW keep \in Nat, NEW client \in Seq(Nat), NEW list \in Seq(Seq(Nat)),
         NEW rest, ConnectHead(flags, keep) \o MqttEncode_String(client) \o Texts(list) = rest,
         NEW frame, WithHeader("CONNECT", 0, rest) = frame, Len(frame) <= 240
  PROVE  frame \in Seq(Nat) /\ \E V \in Nat : LaidOutConnect(frame, V, flags, keep, <<client>> \o list)
<1>1. PICK head \in Seq(Nat), name \in Seq(Nat), texts \in Seq(Nat) :
        ConnectHead(flags, keep) = head /\ MqttEncode_String(client) = name /\ Texts(list) = texts
  <2>1. ConnectHead(flags, keep) \in Seq(Nat)
    BY ConnectHeadIs DEF HeadOfConnect
  <2>2. MqttEncode_String(client) \in Seq(Nat)
    <3>1. Len(client) \in Nat
      OBVIOUS
    <3>2. MqttEncode_Num(Len(client)) \in Seq(Nat)
      BY <3>1, Numbers
    <3> QED
      BY <3>2, Joined DEF MqttEncode_String
  <2>3. Texts(list) \in Seq(Nat)
    BY TextsAre
  <2> QED
    BY Zenon, <2>1, <2>2, <2>3
<1>2. /\ Len(head) = 10
      /\ 256 * head[1] + head[2] = 4 /\ head[7] = 4 /\ head[8] = flags
      /\ 256 * head[9] + head[10] = keep
  <2>1. HeadOfConnect(head, flags, keep)
    BY Zenon, <1>1, ConnectHeadIs
  <2> QED
    BY Zenon, <2>1 DEF HeadOfConnect
<1>3. PICK more \in Seq(Nat) : name \o texts = more
  BY Joined
<1>4. Spelled(more, client, texts)
  BY <1>1, <1>3, StringIs
<1>5. rest = head \o more
  <2>1. rest = (head \o name) \o texts
    BY <1>1
  <2>2. (head \o name) \o texts = head \o (name \o texts)
    <3>1. head \in Seq(Nat) /\ name \in Seq(Nat) /\ texts \in Seq(Nat)
      OBVIOUS
    <3> QED
      BY Zenon, <3>1, Regrouped
  <2> QED
    BY Zenon, <1>3, <2>1, <2>2
<1>6. /\ rest \in Seq(Nat) /\ Len(rest) = 10 + Len(more)
      /\ \A i \in 1..10 : rest[i] = head[i]
      /\ PartAt(rest, 10, more)
  <2>1. /\ head \o more \in Seq(Nat) /\ Len(head \o more) = Len(head) + Len(more)
        /\ \A i \in 1..Len(head) : (head \o more)[i] = head[i]
        /\ \A i \in 1..Len(more) : (head \o more)[Len(head) + i] = more[i]
    BY Joined
  <2>2. /\ rest \in Seq(Nat) /\ Len(rest) = Len(head) + Len(more)
        /\ \A i \in 1..Len(head) : rest[i] = head[i]
        /\ \A i \in 1..Len(more) : rest[Len(head) + i] = more[i]
    BY Zenon, <1>5, <2>1
  <2> QED
    BY <1>2, <2>2 DEF PartAt
<1>7. Headed(frame, 16, rest)
  <2>1. 16 * TypeNr("CONNECT") + 0 = 16 /\ 16 \in Nat
    BY TypeNumbers
  <2>2. Len(WithHeader("CONNECT", 0, rest)) <= MAX_FRAME_SIZE
    BY DEF MAX_FRAME_SIZE
  <2> QED
    BY <1>6, <2>1, <2>2, HeaderAndRest
<1>8. PICK V \in Nat, n \in Nat, m \in Nat, t \in Nat :
        /\ 1 + LengthBytes(Len(rest)) = V /\ Len(rest) = n /\ Len(client) = m /\ Len(texts) = t
        /\ V <= 5
  <2>1. LengthBytes(Len(rest)) \in 1..4
    BY <1>7 DEF Headed
  <2>2. 1 + LengthBytes(Len(rest)) \in Nat /\ 1 + LengthBytes(Len(rest)) <= 5
    <3>1. \A L \in 1..4 : 1 + L \in Nat /\ 1 + L <= 5
      OBVIOUS
    <3> QED
      BY Zenon, <2>1, <3>1
  <2>3. Len(rest) \in Nat /\ Len(client) \in Nat /\ Len(texts) \in Nat
    <3>1. Len(client) \in Nat /\ Len(texts) \in Nat
      OBVIOUS
    <3>2. rest \in Seq(Nat)
      BY Zenon, <1>6
    <3>3. Len(rest) \in Nat
      BY <3>2
    <3> QED
      BY <3>1, <3>3
  <2> QED
    BY Zenon, <2>2, <2>3
<1>9. /\ frame \in Seq(Nat) /\ Len(frame) = V + n
      /\ frame[1] = 16 /\ VarHead(frame) = V
      /\ PartAt(frame, V, rest)
  BY <1>7, <1>8 DEF Headed, PartAt
<1>10. /\ n = 10 + 2 + m + t
       /\ Len(more) = 2 + m + t /\ m = 256 * more[1] + more[2]
       /\ PartAt(more, 2, client) /\ PartAt(more, 2 + m, texts)
  <2>1. PICK l \in Nat : Len(more) = l
    OBVIOUS
  <2>2. /\ l = 2 + Len(client) + Len(texts) /\ Len(client) = 256 * more[1] + more[2]
        /\ PartAt(more, 2, client) /\ PartAt(more, 2 + Len(client), texts)
    BY Zenon, <1>4, <2>1 DEF Spelled
  <2>3. l = 2 + m + t /\ m = 256 * more[1] + more[2]
        /\ PartAt(more, 2, client) /\ PartAt(more, 2 + m, texts)
    BY Zenon, <1>8, <2>2
  <2>4. n = 10 + l
    BY Zenon, <1>6, <1>8, <2>1
  <2>5. n = 10 + 2 + m + t
    <3>1. l = 2 + m + t
      BY Zenon, <2>3
    <3> QED
      BY <2>4, <3>1
  <2> QED
    BY Zenon, <2>1, <2>3, <2>5
<1>11. \A i \in 1..10 : frame[V + i] = head[i]
  <2>1. \A i \in 1..10 : i \in 1..n
    <3>1. n = 10 + 2 + m + t
      BY Zenon, <1>10
    <3> QED
      BY <3>1
  <2> QED
    BY <1>6, <1>8, <1>9, <2>1 DEF PartAt
<1>12. /\ Num(frame, V) = 4 /\ frame[V + 7] = 4 /\ frame[V + 8] = flags
       /\ Num(frame, V + 8) = keep
  <2>1. /\ frame[V + 1] = head[1] /\ frame[V + 2] = head[2] /\ frame[V + 7] = head[7]
        /\ frame[V + 8] = head[8] /\ frame[V + 9] = head[9] /\ frame[V + 10] = head[10]
    BY <1>11
  <2>2. V + 8 + 1 = V + 9 /\ V + 8 + 2 = V + 10
    OBVIOUS
  <2>3. Num(frame, V) = 256 * head[1] + head[2] /\ Num(frame, V + 8) = 256 * head[9] + head[10]
    BY Zenon, <2>1, <2>2 DEF Num
  <2> QED
    BY Zenon, <1>2, <2>1, <2>3
<1>13. PICK p \in Nat, q \in Nat, k \in Nat : V + 10 = p /\ p + 2 + m = q /\ 2 + m = k
  OBVIOUS
<1>14. PartAt(frame, p, more)
  <2>1. 10 + Len(more) <= Len(rest)
    BY <1>6
  <2> QED
    BY <1>6, <1>9, <1>13, <2>1, PartOfPart
<1>15. PartAt(frame, p + 2, client) /\ PartAt(frame, q, texts)
  <2>1. 2 + Len(client) <= Len(more) /\ k + Len(texts) <= Len(more)
    <3>1. PICK l \in Nat : Len(more) = l
      OBVIOUS
    <3>2. l = 2 + m + t
      BY Zenon, <1>10, <3>1
    <3>3. 2 + m <= l /\ k + t <= l
      BY <1>13, <3>2
    <3> QED
      BY Zenon, <1>8, <3>1, <3>3
  <2>2. PartAt(frame, p + 2, client)
    BY <1>10, <1>14, <2>1, PartOfPart
  <2>3. PartAt(frame, p + k, texts)
    <3>1. PartAt(more, k, texts)
      BY Zenon, <1>10, <1>13
    <3> QED
      BY <1>14, <2>1, <3>1, PartOfPart
  <2>4. p + k = q
    BY <1>13
  <2> QED
    BY <2>2, <2>3, <2>4
<1>16. Num(frame, p) = Len(client)
  <2>1. 1 \in 1..Len(more) /\ 2 \in 1..Len(more)
    <3>1. PICK l \in Nat : Len(more) = l
      OBVIOUS
    <3>2. l = 2 + m + t
      BY Zenon, <1>10, <3>1
    <3>3. 1 \in 1..l /\ 2 \in 1..l
      BY <3>2
    <3> QED
      BY Zenon, <3>1, <3>3
  <2>2. frame[p + 1] = more[1] /\ frame[p + 2] = more[2]
    BY <1>14, <2>1 DEF PartAt
  <2> QED
    BY <1>8, <1>10, <2>2 DEF Num
<1>17. PICK start : Lined(frame, q, list, 0, start)
  <2>1. q + Len(Texts(list)) <= Len(frame) /\ PartAt(frame, q, Texts(list))
    <3>1. PICK l \in Nat : Len(frame) = l
      BY <1>9
    <3>2. l = V + n /\ n = 10 + 2 + m + t
      BY Zenon, <1>9, <1>10, <3>1
    <3>3. q + t <= l
      BY <1>13, <3>2
    <3>4. q + Len(Texts(list)) <= Len(frame)
      BY Zenon, <1>1, <1>8, <3>1, <3>3
    <3> QED
      BY Zenon, <1>1, <1>15, <3>4
  <2> QED
    BY <1>9, <2>1, TextsAre
<1>18. \E s : Lined(frame, p, <<client>> \o list, 0, s)
  <2>1. Lined(frame, p + 2 + Len(client), list, 0, start)
    BY <1>8, <1>13, <1>17
  <2> QED
    BY <1>9, <1>15, <1>16, <2>1, LinedAfter
<1>19. FrameType(frame) = "CONNECT"
  <2>1. 16 \div 16 = 1
    OBVIOUS
  <2> QED
    BY <1>9, <2>1, TypeNumbers DEF FrameType
<1>20. LaidOutConnect(frame, V, flags, keep, <<client>> \o list)
  BY <1>8, <1>9, <1>12, <1>13, <1>18, <1>19 DEF LaidOutConnect
<1> QED
  BY <1>9, <1>20

\* What the decoder makes of a frame so laid out.
LEMMA ConnectIsDecoded ==
  ASSUME NEW frame \in Seq(Nat), NEW V \in Nat, NEW flags \in Nat, NEW keep \in Nat,
         NEW texts \in Seq(Seq(Nat)), LaidOutConnect(frame, V, flags, keep, texts),
         Len(texts) = 1 + (IF Bit(flags, 4) THEN 2 ELSE 0) + (IF Bit(flags, 128) THEN 1 ELSE 0)
                        + (IF Bit(flags, 64) THEN 1 ELSE 0)
  PROVE  broker_decode_connect(frame) =
           [proto_level |-> 4, cleans_session |-> Bit(flags, 2),
            last_will |-> Bit(flags, 4), user_name |-> Bit(flags, 128), pswd |-> Bit(flags, 64),
            keep_alive |-> keep, texts |-> texts]
<1>1. /\ VarHead(frame) = V /\ V <= 5 /\ Len(frame) <= 240
      /\ Num(frame, V) = 4 /\ frame[V + 7] = 4 /\ frame[V + 8] = flags
      /\ Num(frame, V + 8) = keep
  BY DEF LaidOutConnect
<1>2. PICK level \in Nat : V + 6 = level
  OBVIOUS
<1>3. Byte(V + 2 + 4) = level
  BY <1>1, <1>2, ByteFits
<1>4. frame[level + 1] = 4 /\ frame[level + 2] = flags /\ Num(frame, level + 2) = keep
  BY <1>1, <1>2
<1>5. PICK count : Len(texts) = count
  OBVIOUS
<1>6. count = 1 + (IF Bit(flags, 4) THEN 2 ELSE 0) + (IF Bit(flags, 128) THEN 1 ELSE 0)
                + (IF Bit(flags, 64) THEN 1 ELSE 0)
  BY Zenon, <1>5
<1>7. Strings(frame, level + 4, count) = texts
  <2>0. PICK p \in Nat : V + 10 = p
    OBVIOUS
  <2>1. PICK start : V + 10 = p /\ Lined(frame, p, texts, 0, start)
    BY <2>0 DEF LaidOutConnect
  <2>2. Strings(frame, p, Len(texts)) = texts
    BY <1>1, <2>1, StringsAreRead
  <2>3. level + 4 = p
    BY <1>2, <2>1
  <2> QED
    BY Zenon, <1>5, <2>2, <2>3
<1>8. Byte(VarHead(frame) + 2 + Num(frame, VarHead(frame))) = level
  BY Zenon, <1>1, <1>3
<1> QED
  BY Zenon, <1>4, <1>6, <1>7, <1>8 DEF broker_decode_connect

LEMMA ListsOfTexts == \A l \in Seq(Seq(0..255)) : l \in Seq(Seq(Nat))
<1>1. Seq(0..255) \subseteq Seq(Nat)
  BY TextsAreNumbers
<1> QED
  BY <1>1, SeqMonotonic

\* An optional text is there or not.
LEMMA Optional ==
  ASSUME NEW l \in Seq(Seq(Nat)), NEW n \in Nat \ {0}, Len(l) \in {0, n}
  PROVE  Len(l) = IF l # <<>> THEN n ELSE 0
OBVIOUS

LEMMA JoinedTexts ==
  \A s, t \in Seq(Seq(Nat)) : s \o t \in Seq(Seq(Nat)) /\ Len(s \o t) = Len(s) + Len(t)
<1> TAKE s, t \in Seq(Seq(Nat))
<1> QED
  BY ConcatProperties

RegroupsTo(s, t, u) == (s \o t) \o u = s \o (t \o u)

LEMMA RegroupedThree ==
  ASSUME NEW S, NEW s \in Seq(S), NEW t \in Seq(S), NEW u \in Seq(S)
  PROVE  RegroupsTo(s, t, u)
BY ConcatAssociative DEF RegroupsTo

RegroupsAll(s, t, u, v) == s \o t \o u \o v = s \o (t \o u \o v)

LEMMA RegroupedTexts ==
  ASSUME NEW s \in Seq(Seq(Nat)), NEW t \in Seq(Seq(Nat)), NEW u \in Seq(Seq(Nat)),
         NEW v \in Seq(Seq(Nat))
  PROVE  RegroupsAll(s, t, u, v)
<1>1. t \o u \in Seq(Seq(Nat))
  BY JoinedTexts
<1>2. RegroupsTo(s, t, u)
  BY Zenon, RegroupedThree
<1>3. RegroupsTo(s, t \o u, v)
  BY Zenon, <1>1, RegroupedThree
<1> QED
  BY Zenon, <1>2, <1>3 DEF RegroupsTo, RegroupsAll

\* A CONNECT is read as it was written.
THEOREM ConnectIsRead ==
  ASSUME NEW r \in Requests, r.type = "CONNECT"
  PROVE  ReadAsWritten(r, DecodedOf[r])
<1>1. EncodedConnect(r) /\ Len(Encode(r)) <= MAX_FRAME_SIZE
  BY Zenon, RequestsAssumption
<1>2. PICK client \in Seq(Nat), keep \in Nat : r.client_id = client /\ r.keep_alive_sec = keep
  <2>1. r.client_id \in Seq(0..255) /\ r.keep_alive_sec \in Nat
    BY <1>1 DEF EncodedConnect
  <2>2. r.client_id \in Seq(Nat)
    BY <2>1, TextsAreNumbers
  <2> QED
    BY Zenon, <2>1, <2>2
<1>3. PICK lwt \in Seq(Seq(Nat)), user \in Seq(Seq(Nat)), pswd \in Seq(Seq(Nat)) :
        /\ r.lwt = lwt /\ Len(lwt) \in {0, 2}
        /\ r.username = user /\ Len(user) \in {0, 1}
        /\ r.password = pswd /\ Len(pswd) \in {0, 1}
  <2>1. /\ r.lwt \in Seq(Seq(0..255)) /\ Len(r.lwt) \in {0, 2}
        /\ r.username \in Seq(Seq(0..255)) /\ Len(r.username) \in {0, 1}
        /\ r.password \in Seq(Seq(0..255)) /\ Len(r.password) \in {0, 1}
    BY <1>1 DEF EncodedConnect
  <2>2. r.lwt \in Seq(Seq(Nat)) /\ r.username \in Seq(Seq(Nat)) /\ r.password \in Seq(Seq(Nat))
    BY <2>1, ListsOfTexts
  <2> QED
    BY Zenon, <2>1, <2>2
<1>4. PICK clean \in BOOLEAN, will \in BOOLEAN, named \in BOOLEAN, secret \in BOOLEAN :
        /\ clean = r.clean_session
        /\ will <=> lwt # <<>>
        /\ named <=> user # <<>>
        /\ secret <=> pswd # <<>>
  <2>1. r.clean_session \in BOOLEAN
    BY <1>1 DEF EncodedConnect
  <2> QED
    BY <2>1
<1>5. PICK flags \in Nat :
        /\ Flag(clean, 2) + Flag(will, 4) + Flag(secret, 64) + Flag(named, 128) = flags
        /\ Bit(flags, 2) = clean /\ Bit(flags, 4) = will /\ Bit(flags, 64) = secret /\ Bit(flags, 128) = named
  <2>1. PICK flags : Flag(clean, 2) + Flag(will, 4) + Flag(secret, 64) + Flag(named, 128) = flags
    OBVIOUS
  <2>2. /\ flags \in Nat
        /\ Bit(flags, 2) = clean /\ Bit(flags, 4) = will /\ Bit(flags, 64) = secret /\ Bit(flags, 128) = named
    BY <2>1, FlagBits
  <2> QED
    BY Zenon, <2>1, <2>2
<1>6. PICK list \in Seq(Seq(Nat)) :
        lwt \o user \o pswd = list /\ Len(list) = Len(lwt) + Len(user) + Len(pswd)
  <2>1. PICK two \in Seq(Seq(Nat)) : lwt \o user = two
    BY JoinedTexts
  <2>2. Len(two) = Len(lwt) + Len(user)
    BY Zenon, <2>1, JoinedTexts
  <2>3. PICK list \in Seq(Seq(Nat)) : two \o pswd = list
    BY JoinedTexts
  <2>4. Len(list) = Len(two) + Len(pswd)
    BY Zenon, <2>3, JoinedTexts
  <2> QED
    BY Zenon, <2>1, <2>2, <2>3, <2>4
<1>7. PICK texts \in Seq(Seq(Nat)) : <<client>> \o list = texts /\ Len(texts) = 1 + Len(list)
  <2> DEFINE first == <<client>>
  <2>1. first \in Seq(Seq(Nat)) /\ Len(first) = 1
    OBVIOUS
  <2> HIDE DEF first
  <2>2. PICK texts \in Seq(Seq(Nat)) : first \o list = texts
    BY <2>1, JoinedTexts
  <2>3. Len(texts) = Len(first) + Len(list)
    BY Zenon, <2>1, <2>2, JoinedTexts
  <2>4. <<client>> \o list = texts
    BY <2>2 DEF first
  <2>5. Len(texts) = 1 + Len(list)
    BY Zenon, <2>1, <2>3
  <2> QED
    BY Zenon, <2>4, <2>5
<1>8. Len(texts) = 1 + (IF Bit(flags, 4) THEN 2 ELSE 0) + (IF Bit(flags, 128) THEN 1 ELSE 0)
                     + (IF Bit(flags, 64) THEN 1 ELSE 0)
  <2>1. PICK w \in Nat, u \in Nat, p \in Nat, t \in Nat, l \in Nat :
          /\ Len(lwt) = w /\ Len(user) = u /\ Len(pswd) = p /\ Len(texts) = t /\ Len(list) = l
    OBVIOUS
  <2>2. w = IF will THEN 2 ELSE 0
    BY <1>3, <1>4, <2>1, Optional
  <2>3. u = IF named THEN 1 ELSE 0
    BY <1>3, <1>4, <2>1, Optional
  <2>4. p = IF secret THEN 1 ELSE 0
    BY <1>3, <1>4, <2>1, Optional
  <2>5. l = w + u + p
    BY Zenon, <1>6, <2>1
  <2>6. t = 1 + l
    BY Zenon, <1>7, <2>1
  <2>7. t = 1 + (IF will THEN 2 ELSE 0) + (IF named THEN 1 ELSE 0) + (IF secret THEN 1 ELSE 0)
    BY <2>2, <2>3, <2>4, <2>5, <2>6
  <2>8. (Bit(flags, 4) <=> will) /\ (Bit(flags, 128) <=> named) /\ (Bit(flags, 64) <=> secret)
    BY Zenon, <1>5
  <2>9. t = 1 + (IF Bit(flags, 4) THEN 2 ELSE 0) + (IF Bit(flags, 128) THEN 1 ELSE 0)
              + (IF Bit(flags, 64) THEN 1 ELSE 0)
    BY <2>7, <2>8
  <2> QED
    BY <2>1, <2>9
<1>9. texts = <<client>> \o lwt \o user \o pswd
  <2> DEFINE first == <<client>>
  <2>1. first \in Seq(Seq(Nat))
    OBVIOUS
  <2>2. first \o list = texts
    BY <1>7
  <2> HIDE DEF first
  <2>3. first \o lwt \o user \o pswd = first \o (lwt \o user \o pswd)
    <3>1. lwt \in Seq(Seq(Nat)) /\ user \in Seq(Seq(Nat)) /\ pswd \in Seq(Seq(Nat))
      OBVIOUS
    <3>2. RegroupsAll(first, lwt, user, pswd)
      BY Zenon, <2>1, <3>1, RegroupedTexts
    <3> QED
      BY Zenon, <3>2 DEF RegroupsAll
  <2>4. first \o lwt \o user \o pswd = texts
    BY Zenon, <1>6, <2>2, <2>3
  <2> QED
    BY <2>4 DEF first
<1>10. PICK frame, rest :
        /\ Encode(r) = frame
        /\ ConnectHead(flags, keep) \o MqttEncode_String(client) \o Texts(list) = rest
  BY Zenon
<1>11. WithHeader("CONNECT", 0, rest) = frame
  <2>1. /\ Flag(r.clean_session, 2) = Flag(clean, 2) /\ Flag(r.lwt # <<>>, 4) = Flag(will, 4)
        /\ Flag(r.password # <<>>, 64) = Flag(secret, 64) /\ Flag(r.username # <<>>, 128) = Flag(named, 128)
    BY <1>3, <1>4 DEF Flag
  <2>2. Flag(r.clean_session, 2) + Flag(r.lwt # <<>>, 4) + Flag(r.password # <<>>, 64)
          + Flag(r.username # <<>>, 128) = flags
    BY Zenon, <1>5, <2>1
  <2>3. MqttEncode_Connect(r) = WithHeader("CONNECT", 0, rest)
    <3> DEFINE bits == Flag(r.clean_session, 2) + Flag(r.lwt # <<>>, 4) + Flag(r.password # <<>>, 64)
                         + Flag(r.username # <<>>, 128)
    <3>1. MqttEncode_Connect(r) =
            WithHeader("CONNECT", 0, ConnectHead(bits, r.keep_alive_sec) \o MqttEncode_String(r.client_id)
                                       \o Texts(r.lwt \o r.username \o r.password))
      BY Zenon DEF MqttEncode_Connect, ConnectHead
    <3> HIDE DEF bits
    <3>2. bits = flags
      BY <2>2 DEF bits
    <3> QED
      BY Zenon, <1>2, <1>3, <1>6, <1>10, <3>1, <3>2
  <2>4. Encode(r) = MqttEncode_Connect(r)
    BY DEF Encode
  <2> QED
    BY Zenon, <1>10, <2>3, <2>4
<1>12. frame \in Seq(Nat) /\ \E V \in Nat : LaidOutConnect(frame, V, flags, keep, texts)
  <2>1. Len(frame) <= 240
    BY <1>1, <1>10 DEF MAX_FRAME_SIZE
  <2>2. frame \in Seq(Nat) /\ \E V \in Nat : LaidOutConnect(frame, V, flags, keep, <<client>> \o list)
    BY <1>10, <1>11, <2>1, ConnectLayout
  <2> QED
    BY Zenon, <1>7, <2>2
<1>13. PICK V \in Nat : LaidOutConnect(frame, V, flags, keep, texts)
  BY <1>12
<1>14. broker_decode_connect(frame) =
         [proto_level |-> 4, cleans_session |-> Bit(flags, 2),
          last_will |-> Bit(flags, 4), user_name |-> Bit(flags, 128), pswd |-> Bit(flags, 64),
          keep_alive |-> keep, texts |-> texts]
  BY <1>8, <1>12, <1>13, ConnectIsDecoded
<1>15. DecodedOf[r] = broker_decode_connect(frame)
  <2>1. FrameType(frame) = "CONNECT"
    BY <1>13 DEF LaidOutConnect
  <2> QED
    BY <1>10, <2>1 DEF DecodedOf, Decode, Frame
<1>16. /\ DecodedOf[r].texts = texts /\ DecodedOf[r].cleans_session = clean
       /\ DecodedOf[r].keep_alive = keep /\ DecodedOf[r].proto_level = 4
  BY <1>5, <1>14, <1>15
<1>17. /\ DecodedOf[r].texts = <<r.client_id>> \o r.lwt \o r.username \o r.password
       /\ DecodedOf[r].cleans_session = r.clean_session /\ DecodedOf[r].keep_alive = r.keep_alive_sec
       /\ DecodedOf[r].proto_level = 4
  BY Zenon, <1>2, <1>3, <1>4, <1>9, <1>16
<1> QED
  BY Zenon, <1>17 DEF ReadAsWritten

-------------------------------------------------------------------------------
(* Lists of topics *)

\* The broker reads the remaining length of a frame that fits its buffer.
LEMMA RemLenIsRead ==
  ASSUME NEW frame, NEW first, NEW rest \in Seq(Nat), Headed(frame, first, rest), Len(frame) <= 240
  PROVE  rem_len(frame) = Len(rest) /\ LengthBytes(Len(rest)) <= 2
<1>1. PICK n \in Nat, L \in 1..4 : Len(rest) = n /\ LengthBytes(n) = L
  BY EncodedLength
<1>2. /\ frame \in Seq(Nat) /\ Len(frame) = 1 + L + n
      /\ \A i \in 1..L : frame[1 + i] = MqttEncode_RemainLen(n)[i]
      /\ VarHead(frame) = 1 + L
  BY <1>1 DEF Headed
<1>3. n <= 240 /\ frame # <<>>
  BY <1>2
<1>4. PICK b, e : Tail(frame) = b /\ MqttEncode_RemainLen(n) = e
  OBVIOUS
<1>5. \A i \in 1..L : b[i] = e[i]
  <2>1. \A i \in 1..L : Tail(frame)[i] = frame[1 + i]
    BY <1>1, <1>2, <1>3
  <2> QED
    BY <1>2, <1>4, <2>1
<1>6. n < Limit
  BY <1>3 DEF Limit
<1>7. BytesTaken(b) = L /\ BytesTaken(e) = L
  <2>1. BytesTaken(b) = L
    BY <1>1, <1>4, <1>5, <1>6, LengthInFront
  <2>2. BytesTaken(e) = L
    BY <1>1, <1>4, <1>6, LengthInFront
  <2> QED
    BY <2>1, <2>2
<1>8. decode_pck_len(b) = decode_pck_len(e)
  <2> DEFINE w == [i \in 1..4 |-> Weight[i] % 256]
  <2>1. decode_pck_len(b) = Decoded(b, w) /\ decode_pck_len(e) = Decoded(e, w)
    BY DEF decode_pck_len
  <2> HIDE DEF w
  <2>2. \A i \in 1..4 : i <= L => b[i] = e[i]
    BY <1>1, <1>5
  <2>3. Decoded(b, w) = Decoded(e, w)
    BY <1>7, <2>2 DEF Decoded
  <2> QED
    BY <2>1, <2>3
<1>9. decode_pck_len(e) = n
  <2>1. n % 16384 = n
    BY <1>3
  <2> QED
    BY <1>4, <1>6, <2>1, BrokerReadsLengths
<1>10. L <= 2
  BY <1>1, <1>3 DEF LengthBytes
<1> QED
  BY Zenon, <1>1, <1>4, <1>8, <1>9, <1>10 DEF rem_len

\* The recursion of TopicList.
Turns(frame, s, n, after) ==
  after = [turns \in 0..n |-> IF turns = 0 THEN s ELSE NextTopic(frame, after[turns - 1])]

LEMMA TurnsOn ==
  ASSUME NEW frame, NEW s, NEW n \in Nat, NEW after, Turns(frame, s, n, after)
  PROVE  \E g : Turns(frame, s, n + 1, g)
<1> DEFINE next(p) == NextTopic(frame, p)
           g == [i \in 0 .. n + 1 |-> IF i <= n THEN after[i] ELSE next(after[n])]
<1>1. after = [i \in 0..n |-> IF i = 0 THEN s ELSE next(after[i - 1])]
  BY DEF Turns
<1> HIDE DEF next
<1>2. \A i \in 0..n : after[i] = IF i = 0 THEN s ELSE next(after[i - 1])
  BY <1>1
<1>3. ASSUME NEW i \in 0 .. n + 1
      PROVE  g[i] = IF i = 0 THEN s ELSE next(g[i - 1])
  <2>1. i # 0 => i - 1 \in 0..n
    OBVIOUS
  <2>2. i # 0 => g[i - 1] = after[i - 1]
    BY <2>1
  <2>3. i <= n => i \in 0..n
    OBVIOUS
  <2>4. g[i] = IF i <= n THEN after[i] ELSE next(after[n])
    OBVIOUS
  <2>5. ~(i <= n) => i # 0 /\ i - 1 = n
    OBVIOUS
  <2> HIDE DEF g
  <2> QED
    BY <1>2, <2>2, <2>3, <2>4, <2>5
<1>4. g = [i \in 0 .. n + 1 |-> g[i]]
  OBVIOUS
<1> HIDE DEF g
<1>5. g = [i \in 0 .. n + 1 |-> IF i = 0 THEN s ELSE next(g[i - 1])]
  BY <1>3, <1>4
<1> QED
  BY Zenon, <1>5 DEF Turns, next

LEMMA TurnsExist == \A frame, s : \A n \in Nat : \E after : Turns(frame, s, n, after)
<1> SUFFICES ASSUME NEW frame, NEW s
             PROVE  \A n \in Nat : \E after : Turns(frame, s, n, after)
  OBVIOUS
<1> DEFINE T == {n \in Nat : \E after : Turns(frame, s, n, after)}
<1>1. 0 \in T
  <2> DEFINE after == [i \in 0..0 |-> s]
  <2>1. \A i \in 0..0 : i = 0
    OBVIOUS
  <2>2. after = [turns \in 0..0 |-> IF turns = 0 THEN s ELSE NextTopic(frame, after[turns - 1])]
    BY <2>1
  <2> HIDE DEF after
  <2> QED
    BY <2>2 DEF Turns
<1>2. ASSUME NEW n \in Nat, n \in T
      PROVE  n + 1 \in T
  <2>1. \E after : Turns(frame, s, n, after)
    BY <1>2
  <2>2. \E g : Turns(frame, s, n + 1, g)
    BY <2>1, TurnsOn
  <2> QED
    BY <2>2
<1> HIDE DEF T
<1>3. \A n \in Nat : n \in T
  BY <1>1, <1>2, FromEachToTheNext
<1> QED
  BY <1>3 DEF T

\* Before the first turn.
Before(frame) == [pos |-> VarHead(frame) + 2, topics |-> <<>>, astray |-> FALSE]

LEMMA TopicListIs ==
  ASSUME NEW frame
  PROVE  \E after : Turns(frame, Before(frame), MAX_SUBS_TOPIC + 1, after)
                    /\ TopicList(frame) = after[MAX_SUBS_TOPIC + 1]
<1> DEFINE s == [pos |-> VarHead(frame) + 2, topics |-> <<>>, astray |-> FALSE]
           n == MAX_SUBS_TOPIC + 1
           after == CHOOSE after :
                      after = [turns \in 0..n |-> IF turns = 0 THEN s ELSE NextTopic(frame, after[turns - 1])]
<1>1. after = [turns \in 0..n |-> IF turns = 0 THEN s ELSE NextTopic(frame, after[turns - 1])]
  <2>1. \E g : g = [turns \in 0..n |-> IF turns = 0 THEN s ELSE NextTopic(frame, g[turns - 1])]
    <3>1. n \in Nat
      BY MaxSubsTopicAssumption
    <3> HIDE DEF n, s
    <3>2. PICK g : Turns(frame, s, n, g)
      BY <3>1, TurnsExist
    <3>3. g = [turns \in 0..n |-> IF turns = 0 THEN s ELSE NextTopic(frame, g[turns - 1])]
      BY Zenon, <3>2 DEF Turns
    <3> QED
      BY Zenon, <3>3
  <2> QED
    BY Zenon, <2>1
<1>2. TopicList(frame) = after[n]
  BY DEF TopicList
<1> HIDE DEF after
<1> QED
  BY <1>1, <1>2 DEF Turns, Before

LEMMA TurnsGive ==
  ASSUME NEW frame, NEW s, NEW n \in Nat, NEW after, Turns(frame, s, n, after)
  PROVE  after[0] = s /\ \A i \in 1..n : after[i] = NextTopic(frame, after[i - 1])
<1> DEFINE next(p) == NextTopic(frame, p)
<1>1. after = [i \in 0..n |-> IF i = 0 THEN s ELSE next(after[i - 1])]
  BY DEF Turns
<1> HIDE DEF next
<1>2. after[0] = s
  BY <1>1
<1>3. \A i \in 1..n : after[i] = next(after[i - 1])
  <2> TAKE i \in 1..n
  <2>1. i \in 0..n /\ i # 0
    OBVIOUS
  <2> QED
    BY <1>1, <2>1
<1> QED
  BY <1>2, <1>3 DEF next

\* Past the remaining length the loop does no more.
LEMMA LoopEnds ==
  ASSUME NEW frame, NEW s, NEW n \in Nat, NEW after, Turns(frame, s, n, after),
         NEW k \in 0..n, NEW last, after[k] = last, last.pos >= rem_len(frame) + 2
  PROVE  after[n] = last
<1> DEFINE T == {i \in Nat : i >= k => after[i] = last}
<1>1. 0 \in T
  OBVIOUS
<1>2. ASSUME NEW i \in Nat, i < n, i \in T
      PROVE  i + 1 \in T
  <2>1. CASE i + 1 = k
    BY <2>1
  <2>2. CASE i + 1 # k
    <3> SUFFICES ASSUME i + 1 >= k
                 PROVE  after[i + 1] = last
      OBVIOUS
    <3>1. PICK j \in 1..n : j = i + 1 /\ j - 1 = i
      <4>1. i + 1 \in 1..n /\ (i + 1) - 1 = i
        BY <1>2
      <4> QED
        BY <4>1
    <3>2. after[i] = last
      BY <1>2, <2>2
    <3>3. NextTopic(frame, last) = last
      BY DEF NextTopic
    <3>4. after[j] = NextTopic(frame, after[j - 1])
      BY TurnsGive
    <3> QED
      BY Zenon, <3>1, <3>2, <3>3, <3>4
  <2> QED
    BY <2>1, <2>2
<1> HIDE DEF T
<1>3. \A i \in 0..n : i \in T
  BY <1>1, <1>2, UpTo
<1>4. n \in T /\ n >= k
  BY <1>3
<1> QED
  BY <1>4 DEF T

LEMMA ByteBehind == \A x \in Nat : x <= 240 => Byte(x + 1) = x + 1
BY DEF Byte

LEMMA PartsAreRead ==
  \A s, t \in Seq(Nat) : \A k, e \in Nat :
    k + Len(t) = e /\ e <= Len(s) /\ PartAt(s, k, t) => SubSeq(s, k + 1, e) = t
<1> TAKE s, t \in Seq(Nat)
<1> TAKE k, e \in Nat
<1> QED
  BY PartIsRead

\* A topic stands in the frame from p on, and ends at q.
TopicStands(frame, p, name, q) ==
  /\ Len(frame) <= 240 /\ p < rem_len(frame) + 2
  /\ Num(frame, p) = Len(name) /\ PartAt(frame, p + 2, name)
  /\ p + 2 + Len(name) = q /\ q <= Len(frame)

\* A turn of the loop puts it behind the topics t.
TopicIsTaken(frame, p, name, q, t) ==
  NextTopic(frame, [pos |-> p, topics |-> t, astray |-> FALSE])
    = [pos |-> q + 1, topics |-> Append(t, [name |-> name, qosAt |-> q]), astray |-> FALSE]

\* A turn that reads a topic which is there, and has a place for it.
LEMMA TurnReads ==
  ASSUME NEW frame \in Seq(Nat), NEW name \in Seq(Nat), NEW p \in Nat, NEW q \in Nat, NEW t,
         rem_len(frame) \in Nat, TopicStands(frame, p, name, q), ~(Len(t) = MAX_SUBS_TOPIC)
  PROVE  TopicIsTaken(frame, p, name, q, t)
<1>1. /\ Len(frame) <= 240 /\ p < rem_len(frame) + 2
      /\ Num(frame, p) = Len(name) /\ PartAt(frame, p + 2, name)
      /\ p + 2 + Len(name) = q /\ q <= Len(frame)
  BY DEF TopicStands
<1> DEFINE s == [pos |-> p, topics |-> t, astray |-> FALSE]
<1>2. s.pos = p /\ s.topics = t /\ s.astray = FALSE
  OBVIOUS
<1> HIDE DEF s
<1>3. PICK m \in Nat, last \in Nat : Len(name) = m /\ Len(frame) = last
  OBVIOUS
<1>4. p + 2 + m = q /\ q <= last /\ last <= 240
  BY Zenon, <1>1, <1>3
<1>5. ~(p + 2 > last) /\ ~(q > last) /\ q <= 240
  BY <1>4
<1>6. Text(frame, p + 2, m) = name
  <2>1. PICK k \in Nat : p + 2 = k
    OBVIOUS
  <2>2. k + Len(name) = q
    BY Zenon, <1>3, <1>4, <2>1
  <2>3. PartAt(frame, k, name)
    BY Zenon, <1>1, <2>1
  <2>4. SubSeq(frame, k + 1, q) = name
    <3>1. q <= Len(frame)
      BY Zenon, <1>1
    <3> QED
      <4>1. \A a, e \in Nat :
              a + Len(name) = e /\ e <= Len(frame) /\ PartAt(frame, a, name) => SubSeq(frame, a + 1, e) = name
        BY Zenon, PartsAreRead
      <4>2. k \in Nat /\ q \in Nat
        OBVIOUS
      <4> QED
        BY Zenon, <2>2, <2>3, <3>1, <4>1, <4>2
  <2> QED
    BY Zenon, <1>4, <2>1, <2>4 DEF Text
<1>7. Num(frame, p) = m
  BY Zenon, <1>1, <1>3
<1>8. ~(s.pos >= rem_len(frame) + 2 \/ s.astray)
  <2>1. ~(p >= rem_len(frame) + 2)
    BY <1>1
  <2> QED
    BY Zenon, <1>2, <2>1
<1>9. ~(s.pos + 2 > Len(frame) \/ Len(s.topics) = MAX_SUBS_TOPIC)
  BY Zenon, <1>2, <1>3, <1>5
<1>10. ~(s.pos + 2 + Num(frame, s.pos) > Len(frame))
  BY Zenon, <1>2, <1>3, <1>4, <1>5, <1>7
<1>11. NextTopic(frame, s) =
         [pos |-> AfterTopic(s.pos + 2 + Num(frame, s.pos)), astray |-> FALSE,
          topics |-> Append(s.topics, [name |-> Text(frame, s.pos + 2, Num(frame, s.pos)),
                                       qosAt |-> s.pos + 2 + Num(frame, s.pos)])]
  BY Zenon, <1>8, <1>9, <1>10 DEF NextTopic
<1>12. NextTopic(frame, s) =
         [pos |-> AfterTopic(q), astray |-> FALSE, topics |-> Append(t, [name |-> name, qosAt |-> q])]
  BY Zenon, <1>2, <1>4, <1>6, <1>7, <1>11
<1>13. AfterTopic(q) = q + 1
  BY <1>5, ByteBehind DEF AfterTopic
<1> QED
  BY <1>12, <1>13 DEF s, TopicIsTaken

\* Where the topic behind the j-th is looked for.
Behind(start, topics, j) == IF j = 0 THEN start ELSE topics[j].qosAt + 1

\* What holds after every turn of the loop: the topics read are not more than their places, and
\* stand one behind the other, with one byte behind each.
InChain(frame, start, s) ==
  /\ s \in [pos : Nat, topics : Seq([name : Seq(Nat), qosAt : Nat]), astray : BOOLEAN]
  /\ Len(s.topics) <= MAX_SUBS_TOPIC
  /\ ~s.astray =>
       /\ s.pos = Behind(start, s.topics, Len(s.topics))
       /\ \A j \in 1..Len(s.topics) :
            /\ s.topics[j].qosAt = Behind(start, s.topics, j - 1) + 2 + Len(s.topics[j].name)
            /\ s.topics[j].qosAt <= Len(frame)

LEMMA TurnKeepsChain ==
  ASSUME NEW frame \in Seq(Nat), Len(frame) <= 240, NEW start \in Nat,
         NEW s, InChain(frame, start, s)
  PROVE  InChain(frame, start, NextTopic(frame, s))
<1>1. PICK p \in Nat, t \in Seq([name : Seq(Nat), qosAt : Nat]), m \in Nat, last \in Nat :
        s.pos = p /\ s.topics = t /\ Len(t) = m /\ Len(frame) = last
  <2>1. s.pos \in Nat /\ s.topics \in Seq([name : Seq(Nat), qosAt : Nat])
    BY DEF InChain
  <2>2. Len(s.topics) \in Nat
    BY <2>1
  <2> QED
    BY <2>1, <2>2
<1>2. m <= MAX_SUBS_TOPIC /\ last <= 240
  BY <1>1 DEF InChain
<1>3. CASE s.pos >= rem_len(frame) + 2 \/ s.astray
  <2>1. NextTopic(frame, s) = s
    BY Zenon, <1>3 DEF NextTopic
  <2> QED
    BY <2>1
<1>4. CASE /\ ~(s.pos >= rem_len(frame) + 2 \/ s.astray)
           /\ s.pos + 2 > Len(frame) \/ Len(s.topics) = MAX_SUBS_TOPIC
  <2>1. NextTopic(frame, s) = [s EXCEPT !.astray = TRUE]
    BY Zenon, <1>4 DEF NextTopic
  <2>2. InChain(frame, start, [s EXCEPT !.astray = TRUE])
    BY DEF InChain
  <2> QED
    BY <2>1, <2>2
<1>5. CASE /\ ~(s.pos >= rem_len(frame) + 2 \/ s.astray)
           /\ ~(s.pos + 2 > Len(frame) \/ Len(s.topics) = MAX_SUBS_TOPIC)
  <2>1. p + 2 <= last /\ m < MAX_SUBS_TOPIC /\ ~s.astray
    BY <1>1, <1>2, <1>5, MaxSubsTopicAssumption
  <2>2. PICK l \in Nat : Num(frame, p) = l
    <3>1. p + 1 \in 1..last /\ p + 2 \in 1..last
      BY <2>1
    <3>2. frame[p + 1] \in Nat /\ frame[p + 2] \in Nat
      BY <1>1, <3>1
    <3> QED
      BY <3>2 DEF Num
  <2>3. PICK q \in Nat : p + 2 + l = q
    OBVIOUS
  <2>4. s.pos + 2 + Num(frame, s.pos) = q
    BY Zenon, <1>1, <2>2, <2>3
  <2>5. CASE q > Len(frame)
    <3>1. NextTopic(frame, s) = [s EXCEPT !.astray = TRUE]
      BY Zenon, <1>5, <2>4, <2>5 DEF NextTopic
    <3>2. InChain(frame, start, [s EXCEPT !.astray = TRUE])
      BY DEF InChain
    <3> QED
      BY <3>1, <3>2
  <2>6. CASE ~(q > Len(frame))
    <3>1. PICK name \in Seq(Nat) : Text(frame, p + 2, l) = name /\ Len(name) = l
      <4>1. PICK a \in Nat : p + 2 = a
        OBVIOUS
      <4>2. q <= last /\ a + l = q
        BY <1>1, <2>3, <2>6, <4>1
      <4>3. a + 1 \in Int /\ q \in Int /\ \A i \in a + 1 .. q : frame[i] \in Nat
        BY <1>1, <4>2
      <4>4. /\ SubSeq(frame, a + 1, q) \in Seq(Nat)
            /\ Len(SubSeq(frame, a + 1, q)) = IF a + 1 <= q THEN q - (a + 1) + 1 ELSE 0
        BY <4>3, SubSeqProperties
      <4>5. Len(SubSeq(frame, a + 1, q)) = l
        BY <4>2, <4>4
      <4>6. Text(frame, p + 2, l) = SubSeq(frame, a + 1, q)
        BY Zenon, <4>1, <4>2 DEF Text
      <4> QED
        BY Zenon, <4>4, <4>5, <4>6
    <3> DEFINE topic == [name |-> name, qosAt |-> q]
    <3>2. topic \in [name : Seq(Nat), qosAt : Nat] /\ topic.name = name /\ topic.qosAt = q
      OBVIOUS
    <3> HIDE DEF topic
    <3>3. PICK t2 \in Seq([name : Seq(Nat), qosAt : Nat]) :
            /\ Append(t, topic) = t2
            /\ Len(t2) = m + 1
            /\ \A i \in 1..m : t2[i] = t[i]
            /\ t2[m + 1] = topic
      <4>1. /\ Append(t, topic) \in Seq([name : Seq(Nat), qosAt : Nat]) /\ Len(Append(t, topic)) = m + 1
            /\ \A i \in 1..m : Append(t, topic)[i] = t[i]
            /\ Append(t, topic)[m + 1] = topic
        BY <1>1, <3>2
      <4> QED
        BY Zenon, <4>1
    <3>4. NextTopic(frame, s) = [pos |-> q + 1, astray |-> FALSE, topics |-> t2]
      <4>1. NextTopic(frame, s) =
              [pos |-> AfterTopic(q), astray |-> FALSE,
               topics |-> Append(s.topics, [name |-> Text(frame, s.pos + 2, Num(frame, s.pos)), qosAt |-> q])]
        BY Zenon, <1>5, <2>4, <2>6 DEF NextTopic
      <4>2. Append(s.topics, [name |-> Text(frame, s.pos + 2, Num(frame, s.pos)), qosAt |-> q]) = t2
        BY Zenon, <1>1, <2>2, <3>1, <3>3 DEF topic
      <4>3. AfterTopic(q) = q + 1
        <5>1. q <= 240
          BY <1>1, <1>2, <2>6
        <5> QED
          BY <5>1, ByteBehind DEF AfterTopic
      <4> QED
        BY Zenon, <4>1, <4>2, <4>3
    <3>5. /\ p = Behind(start, t, m)
          /\ \A j \in 1..m : /\ t[j].qosAt = Behind(start, t, j - 1) + 2 + Len(t[j].name)
                             /\ t[j].qosAt <= Len(frame)
      BY Zenon, <1>1, <2>1 DEF InChain
    <3>6. \A j \in 0..m : Behind(start, t2, j) = Behind(start, t, j)
      <4> TAKE j \in 0..m
      <4>1. j # 0 => j \in 1..m
        OBVIOUS
      <4>2. j # 0 => t2[j] = t[j]
        BY Zenon, <3>3, <4>1
      <4> QED
        BY Zenon, <4>2 DEF Behind
    <3>7. PICK k \in Nat : m + 1 = k
      OBVIOUS
    <3>8. \A j \in 1..k : /\ t2[j].qosAt = Behind(start, t2, j - 1) + 2 + Len(t2[j].name)
                          /\ t2[j].qosAt <= Len(frame)
      <4> TAKE j \in 1..k
      <4>1. CASE j = k
        <5>1. t2[k] = topic /\ k - 1 = m /\ m \in 0..m
          BY <3>3, <3>7
        <5>2. Behind(start, t2, k - 1) = p
          BY Zenon, <3>5, <3>6, <5>1
        <5>3. q <= Len(frame)
          BY <1>1, <2>6
        <5>4. q = p + 2 + Len(name)
          BY Zenon, <2>3, <3>1
        <5> QED
          BY Zenon, <3>2, <4>1, <5>1, <5>2, <5>3, <5>4
      <4>2. CASE j # k
        <5>1. j \in 1..m /\ j - 1 \in 0..m
          BY <3>7, <4>2
        <5>2. t2[j] = t[j] /\ Behind(start, t2, j - 1) = Behind(start, t, j - 1)
          BY Zenon, <3>3, <3>6, <5>1
        <5> QED
          BY Zenon, <3>5, <5>1, <5>2
      <4> QED
        BY <4>1, <4>2
    <3>9. q + 1 = Behind(start, t2, k)
      <4>1. k # 0 /\ t2[k] = topic
        BY <3>3, <3>7
      <4> QED
        BY Zenon, <3>2, <4>1 DEF Behind
    <3> DEFINE n == [pos |-> q + 1, astray |-> FALSE, topics |-> t2]
    <3>10. /\ n \in [pos : Nat, topics : Seq([name : Seq(Nat), qosAt : Nat]), astray : BOOLEAN]
           /\ n.pos = q + 1 /\ n.topics = t2 /\ n.astray = FALSE
      OBVIOUS
    <3> HIDE DEF n
    <3>11. k <= MAX_SUBS_TOPIC /\ Len(t2) = k
      BY <2>1, <3>3, <3>7, MaxSubsTopicAssumption
    <3>12. InChain(frame, start, n)
      BY Zenon, <3>8, <3>9, <3>10, <3>11 DEF InChain
    <3> QED
      BY <3>4, <3>12 DEF n
  <2> QED
    BY <2>5, <2>6
<1> QED
  BY <1>3, <1>4, <1>5

LEMMA TheLoopEnds ==
  \A frame, s, after, last : \A n \in Nat : \A k \in 0..n :
    Turns(frame, s, n, after) /\ after[k] = last /\ last.pos >= rem_len(frame) + 2 => after[n] = last
<1> TAKE frame, s, after, last
<1> TAKE n \in Nat
<1> TAKE k \in 0..n
<1> QED
  BY LoopEnds

\* What each turn of the loop gives.
Given(frame, s, n, after) == after[0] = s /\ \A i \in 1..n : after[i] = NextTopic(frame, after[i - 1])

LEMMA EachTurn ==
  \A frame, s, after : \A n \in Nat : Turns(frame, s, n, after) => Given(frame, s, n, after)
<1> TAKE frame, s, after
<1> TAKE n \in Nat
<1> QED
  BY TurnsGive DEF Given

LEMMA LoopIsInChain ==
  ASSUME NEW frame \in Seq(Nat), Len(frame) <= 240, NEW V \in Nat, VarHead(frame) = V,
         NEW start \in Nat, V + 2 = start
  PROVE  InChain(frame, start, TopicList(frame))
<1>1. PICK n \in Nat : MAX_SUBS_TOPIC + 1 = n
  BY MaxSubsTopicAssumption
<1>2. PICK after : Turns(frame, Before(frame), n, after) /\ TopicList(frame) = after[n]
  BY Zenon, <1>1, TopicListIs
<1>3. after[0] = Before(frame) /\ \A i \in 1..n : after[i] = NextTopic(frame, after[i - 1])
  <2>1. Given(frame, Before(frame), n, after)
    BY Zenon, <1>1, <1>2, EachTurn
  <2> QED
    BY Zenon, <2>1 DEF Given
<1> DEFINE T == {i \in Nat : i <= n => InChain(frame, start, after[i])}
<1>4. 0 \in T
  <2> DEFINE none == <<>>
             s == [pos |-> start, topics |-> none, astray |-> FALSE]
  <2>1. Before(frame) = s
    BY DEF Before
  <2>2. none \in Seq([name : Seq(Nat), qosAt : Nat]) /\ Len(none) = 0
    OBVIOUS
  <2> HIDE DEF none
  <2>3. /\ s \in [pos : Nat, topics : Seq([name : Seq(Nat), qosAt : Nat]), astray : BOOLEAN]
        /\ s.pos = start /\ s.topics = none
    BY <2>2
  <2> HIDE DEF s
  <2>4. 0 <= MAX_SUBS_TOPIC
    BY MaxSubsTopicAssumption
  <2>5. start = Behind(start, none, 0)
    BY DEF Behind
  <2>6. \A j \in 1..0 : FALSE
    OBVIOUS
  <2>7. /\ s.pos = Behind(start, s.topics, Len(s.topics)) /\ Len(s.topics) = 0
        /\ 1..Len(s.topics) = 1..0
    BY Zenon, <2>2, <2>3, <2>5
  <2>8. InChain(frame, start, s)
    BY Zenon, <2>3, <2>4, <2>6, <2>7 DEF InChain
  <2> QED
    BY <1>3, <2>1, <2>8
<1>5. ASSUME NEW i \in Nat, i < n, i \in T
      PROVE  i + 1 \in T
  <2>1. PICK k \in 1..n : k = i + 1 /\ k - 1 = i
    <3>1. i + 1 \in 1..n /\ (i + 1) - 1 = i
      BY <1>5
    <3> QED
      BY <3>1
  <2>2. InChain(frame, start, after[i])
    BY <1>5
  <2>3. after[k] = NextTopic(frame, after[i])
    BY Zenon, <1>3, <2>1
  <2>4. InChain(frame, start, after[k])
    BY <2>2, <2>3, TurnKeepsChain
  <2> QED
    BY <2>1, <2>4
<1> HIDE DEF T
<1>6. \A i \in 0..n : i \in T
  BY <1>4, <1>5, UpTo
<1>7. n \in T
  BY <1>6
<1> QED
  BY <1>2, <1>7 DEF T

\* The topics a list holds when it is read right.
ReadTopics(names, qosAt, n) == [j \in 1..n |-> [name |-> names[j], qosAt |-> qosAt[j]]]

LEMMA OneMoreTopic ==
  ASSUME NEW names, NEW qosAt, NEW n \in Nat, NEW k, n + 1 = k
  PROVE  Append(ReadTopics(names, qosAt, n), [name |-> names[k], qosAt |-> qosAt[k]]) = ReadTopics(names, qosAt, k)
<1> DEFINE e(j) == [name |-> names[j], qosAt |-> qosAt[j]]
           s == [j \in 1..n |-> e(j)]
<1> HIDE DEF e
<1>1. PICK S : S = {e(j) : j \in 1..k}
  OBVIOUS
<1>2. s \in Seq(S) /\ Len(s) = n /\ e(k) \in S /\ \A j \in 1..n : s[j] = e(j)
  <2>1. k \in 1..k /\ \A j \in 1..n : j \in 1..k
    OBVIOUS
  <2>2. e(k) \in S /\ \A j \in 1..n : e(j) \in S
    BY <1>1, <2>1
  <2> HIDE <1>1
  <2> QED
    BY <2>2
<1> HIDE DEF s
<1>3. PICK a : Append(s, e(k)) = a
  OBVIOUS
<1>4. /\ a \in Seq(S) /\ Len(a) = Len(s) + 1
      /\ \A j \in 1..Len(s) : a[j] = s[j]
      /\ a[Len(s) + 1] = e(k)
  BY <1>2, <1>3, AppendProperties
<1>5. Len(a) = k /\ \A j \in 1..k : a[j] = e(j)
  <2>1. Len(a) = k /\ a[k] = e(k) /\ \A j \in 1..n : a[j] = e(j)
    BY <1>2, <1>4
  <2>2. \A j \in 1..k : j = k \/ j \in 1..n
    OBVIOUS
  <2> QED
    BY Zenon, <2>1, <2>2
<1>6. a = [j \in 1..k |-> e(j)]
  BY <1>4, <1>5
<1> QED
  BY <1>3, <1>6 DEF ReadTopics, s, e

\* What stands where in the frame of a SUBSCRIBE or UNSUBSCRIBE.
LaidOutList(frame, V, first, id, all) ==
  /\ frame[1] = first
  /\ VarHead(frame) = V /\ V \in {2, 3}
  /\ Len(frame) = V + 2 + Len(all) /\ Len(frame) <= 240
  /\ rem_len(frame) \in Nat /\ rem_len(frame) + V = Len(frame)
  /\ Num(frame, V) = id
  /\ PartAt(frame, V + 2, all)

LEMMA ListLayout ==
  ASSUME NEW type, NEW first \in Nat, 16 * TypeNr(type) + 2 = first,
         NEW id \in Nat, NEW all \in Seq(Nat),
         NEW frame, WithHeader(type, 2, MqttEncode_Num(id) \o all) = frame, Len(frame) <= 240
  PROVE  frame \in Seq(Nat) /\ \E V \in Nat : LaidOutList(frame, V, first, id, all)
<1>1. PICK num \in Seq(Nat) : MqttEncode_Num(id) = num /\ Len(num) = 2 /\ id = 256 * num[1] + num[2]
  BY Numbers
<1>2. PICK rest \in Seq(Nat) :
        /\ num \o all = rest /\ Len(rest) = 2 + Len(all)
        /\ \A i \in 1..2 : rest[i] = num[i]
        /\ \A i \in 1..Len(all) : rest[2 + i] = all[i]
  <2>1. /\ num \o all \in Seq(Nat) /\ Len(num \o all) = Len(num) + Len(all)
        /\ \A i \in 1..Len(num) : (num \o all)[i] = num[i]
        /\ \A i \in 1..Len(all) : (num \o all)[Len(num) + i] = all[i]
    BY Joined
  <2>2. /\ num \o all \in Seq(Nat) /\ Len(num \o all) = 2 + Len(all)
        /\ \A i \in 1..2 : (num \o all)[i] = num[i]
        /\ \A i \in 1..Len(all) : (num \o all)[2 + i] = all[i]
    BY Zenon, <1>1, <2>1
  <2> QED
    BY Zenon, <2>2
<1>3. WithHeader(type, 2, rest) = frame
  BY Zenon, <1>1, <1>2
<1>4. Headed(frame, first, rest)
  <2>1. Len(WithHeader(type, 2, rest)) <= MAX_FRAME_SIZE
    BY <1>3 DEF MAX_FRAME_SIZE
  <2>2. Headed(WithHeader(type, 2, rest), first, rest)
    BY <2>1, HeaderAndRest
  <2> QED
    BY Zenon, <1>3, <2>2
<1>5. rem_len(frame) = Len(rest) /\ LengthBytes(Len(rest)) <= 2
  BY <1>4, RemLenIsRead
<1>6. PICK L \in Nat, n \in Nat, t \in Nat :
        LengthBytes(Len(rest)) = L /\ Len(rest) = n /\ Len(all) = t /\ L \in {1, 2}
  <2>1. LengthBytes(Len(rest)) \in 1..4
    BY <1>4 DEF Headed
  <2>2. LengthBytes(Len(rest)) \in {1, 2} /\ LengthBytes(Len(rest)) \in Nat
    BY <1>5, <2>1
  <2>3. Len(rest) \in Nat /\ Len(all) \in Nat
    OBVIOUS
  <2> QED
    BY Zenon, <2>2, <2>3
<1>7. PICK V \in Nat : 1 + L = V
  BY <1>6
<1>8. /\ frame \in Seq(Nat) /\ Len(frame) = V + n
      /\ frame[1] = first
      /\ \A i \in 1..n : frame[V + i] = rest[i]
      /\ VarHead(frame) = V
  BY Zenon, <1>4, <1>6, <1>7 DEF Headed
<1>9. n = 2 + t /\ V \in {2, 3}
  <2>1. n = 2 + t
    BY Zenon, <1>2, <1>6
  <2> QED
    BY <1>6, <1>7, <2>1
<1>10. Len(frame) = V + 2 + t /\ rem_len(frame) \in Nat /\ rem_len(frame) + V = Len(frame)
  <2>1. PICK l \in Nat : Len(frame) = l
    BY <1>8
  <2>2. l = V + n /\ rem_len(frame) = n
    BY Zenon, <1>5, <1>6, <1>8, <2>1
  <2>3. l = V + 2 + t /\ n + V = l
    BY <1>9, <2>2
  <2> QED
    BY Zenon, <1>6, <2>1, <2>2, <2>3
<1>11. frame[V + 1] = num[1] /\ frame[V + 2] = num[2]
  <2>1. 1 \in 1..n /\ 2 \in 1..n
    BY <1>9
  <2> QED
    BY <1>2, <1>8, <2>1
<1>12. Num(frame, V) = id
  BY Zenon, <1>1, <1>11 DEF Num
<1>13. PartAt(frame, V + 2, all)
  <2> SUFFICES ASSUME NEW i \in 1..t
               PROVE  frame[V + 2 + i] = all[i]
    BY <1>6 DEF PartAt
  <2>1. 2 + i \in 1..n /\ V + 2 + i = V + (2 + i)
    BY <1>9
  <2>2. rest[2 + i] = all[i]
    BY Zenon, <1>2, <1>6
  <2> QED
    BY Zenon, <1>8, <2>1, <2>2
<1>14. LaidOutList(frame, V, first, id, all)
  BY Zenon, <1>6, <1>8, <1>9, <1>10, <1>12, <1>13 DEF LaidOutList
<1> QED
  BY <1>8, <1>14
\* A frame with its variable header at V, and what the broker takes for its remaining length.
ListFrame(frame, V) ==
  /\ VarHead(frame) = V /\ V \in {2, 3}
  /\ Len(frame) <= 240
  /\ rem_len(frame) \in Nat /\ rem_len(frame) + V = Len(frame)

ListIsRead(frame, names, qosAt) ==
  TopicList(frame) = [pos |-> Len(frame), topics |-> ReadTopics(names, qosAt, Len(names)), astray |-> FALSE]

\* Topics with one byte behind each, as many as there are places for, are read where they are.
LEMMA LoopReadsTopics ==
  ASSUME NEW frame \in Seq(Nat), NEW V \in Nat, ListFrame(frame, V),
         NEW names \in Seq(Seq(Nat)), Len(names) <= MAX_SUBS_TOPIC,
         NEW start, NEW pos \in Nat, V + 2 = pos,
         Lined(frame, pos, names, 1, start), start[Len(names)] = Len(frame),
         NEW qosAt, \A i \in 1..Len(names) : qosAt[i] = start[i] - 1
  PROVE  ListIsRead(frame, names, qosAt)
<1>1. /\ Len(frame) <= 240 /\ VarHead(frame) = V /\ V \in {2, 3}
      /\ rem_len(frame) \in Nat /\ rem_len(frame) + V = Len(frame)
  BY DEF ListFrame
<1>2. PICK n \in Nat, last \in Nat, m \in Nat : Len(names) = n /\ Len(frame) = last /\ MAX_SUBS_TOPIC + 1 = m
  BY MaxSubsTopicAssumption
<1>3. PICK after : Turns(frame, Before(frame), m, after) /\ TopicList(frame) = after[m]
  BY Zenon, <1>2, TopicListIs
<1>4. after[0] = Before(frame) /\ \A i \in 1..m : after[i] = NextTopic(frame, after[i - 1])
  <2>1. Given(frame, Before(frame), m, after)
    BY Zenon, <1>2, <1>3, EachTurn
  <2> QED
    BY Zenon, <2>1 DEF Given
<1>5. /\ start \in [0..n -> Nat] /\ start[0] = pos
      /\ \A i \in 1..n : /\ start[i] = start[i - 1] + 2 + Len(names[i]) + 1
                         /\ Num(frame, start[i - 1]) = Len(names[i])
                         /\ PartAt(frame, start[i - 1] + 2, names[i])
      /\ \A i \in 0..n : start[i] <= last
  BY Zenon, <1>2 DEF Lined
<1>6. n < m /\ \A k \in Nat : k < n => ~(k = MAX_SUBS_TOPIC)
  <2>1. MAX_SUBS_TOPIC \in Nat
    BY MaxSubsTopicAssumption
  <2>2. n <= MAX_SUBS_TOPIC
    BY Zenon, <1>2
  <2> QED
    BY <1>2, <2>1, <2>2
<1> DEFINE state(i) == [pos |-> start[i], topics |-> ReadTopics(names, qosAt, i), astray |-> FALSE]
           T == {i \in Nat : after[i] = state(i)}
<1>7. 0 \in T
  <2>1. ReadTopics(names, qosAt, 0) = <<>>
    BY DEF ReadTopics
  <2>2. Before(frame) = state(0)
    BY Zenon, <1>1, <1>5, <2>1 DEF Before
  <2> HIDE DEF state
  <2> QED
    BY <1>4, <2>2
<1>8. ASSUME NEW i \in Nat, i < n, i \in T
      PROVE  i + 1 \in T
  <2>1. PICK k \in 1..n : i + 1 = k /\ k - 1 = i
    <3>1. i + 1 \in 1..n /\ (i + 1) - 1 = i
      BY <1>8
    <3> QED
      BY <3>1
  <2>2. k \in 1..m /\ k \in 0..n /\ i \in 0..n
    BY <1>6, <2>1
  <2>3. after[k] = NextTopic(frame, state(i))
    <3>1. after[i] = state(i)
      BY <1>8
    <3> HIDE DEF state
    <3> QED
      BY Zenon, <1>4, <2>1, <2>2, <3>1
  <2>4. PICK p \in Nat, to \in Nat, name \in Seq(Nat), l \in Nat :
          start[i] = p /\ start[k] = to /\ names[k] = name /\ Len(name) = l
    <3>1. start[i] \in Nat /\ start[k] \in Nat
      BY <1>5, <2>2
    <3>2. names[k] \in Seq(Nat)
      BY <1>2
    <3>3. Len(names[k]) \in Nat
      BY <3>2
    <3> QED
      BY Zenon, <3>1, <3>2, <3>3
  <2>5. /\ to = p + 2 + l + 1 /\ to <= last
        /\ Num(frame, p) = Len(name) /\ PartAt(frame, p + 2, name)
    BY Zenon, <1>5, <2>1, <2>2, <2>4
  <2>6. PICK q \in Nat : p + 2 + l = q
    OBVIOUS
  <2>7. to = q + 1 /\ q <= last /\ qosAt[k] = q
    <3>1. qosAt[k] = to - 1
      BY Zenon, <1>2, <2>4
    <3>2. to = q + 1
      BY <2>5, <2>6
    <3> QED
      BY <2>5, <3>1, <3>2
  <2>8. p < rem_len(frame) + 2
    <3>1. PICK r \in Nat : rem_len(frame) = r
      BY <1>1
    <3>2. r + V = last
      BY Zenon, <1>1, <1>2, <3>1
    <3>3. p < r + 2
      BY <1>1, <2>5, <3>2
    <3> QED
      BY Zenon, <3>1, <3>3
  <2>9. Len(ReadTopics(names, qosAt, i)) = i
    BY DEF ReadTopics
  <2>10. ~(Len(ReadTopics(names, qosAt, i)) = MAX_SUBS_TOPIC)
    BY Zenon, <1>6, <1>8, <2>9
  <2>11. PICK t : ReadTopics(names, qosAt, i) = t
    OBVIOUS
  <2>12. TopicStands(frame, p, name, q)
    <3>1. p + 2 + Len(name) = q /\ q <= Len(frame)
      BY Zenon, <1>2, <2>4, <2>6, <2>7
    <3> QED
      BY <1>1, <2>5, <2>8, <3>1 DEF TopicStands
  <2>13. NextTopic(frame, [pos |-> p, topics |-> t, astray |-> FALSE])
           = [pos |-> q + 1, topics |-> Append(t, [name |-> name, qosAt |-> q]), astray |-> FALSE]
    <3>1. ~(Len(t) = MAX_SUBS_TOPIC)
      BY Zenon, <2>10, <2>11
    <3>2. TopicIsTaken(frame, p, name, q, t)
      BY Zenon, <1>1, <2>4, <2>6, <2>12, <3>1, TurnReads
    <3> QED
      BY Zenon, <3>2 DEF TopicIsTaken
  <2>14. Append(t, [name |-> name, qosAt |-> q]) = ReadTopics(names, qosAt, k)
    <3>1. Append(ReadTopics(names, qosAt, i), [name |-> names[k], qosAt |-> qosAt[k]])
            = ReadTopics(names, qosAt, k)
      BY <2>1, OneMoreTopic
    <3> QED
      BY Zenon, <2>4, <2>7, <2>11, <3>1
  <2>15. state(i) = [pos |-> p, topics |-> t, astray |-> FALSE]
    BY Zenon, <2>4, <2>11
  <2>16. state(k) = [pos |-> q + 1, topics |-> ReadTopics(names, qosAt, k), astray |-> FALSE]
    BY Zenon, <2>4, <2>7
  <2> HIDE DEF state
  <2>17. after[k] = state(k)
    BY Zenon, <2>3, <2>13, <2>14, <2>15, <2>16
  <2> QED
    BY <2>1, <2>17
<1> HIDE DEF T
<1>9. \A i \in 0..n : i \in T
  BY <1>7, <1>8, UpTo
<1>10. after[n] = state(n)
  <2>1. n \in T
    BY <1>9
  <2> HIDE DEF state
  <2> QED
    BY <2>1 DEF T
<1>11. state(n) = [pos |-> last, topics |-> ReadTopics(names, qosAt, n), astray |-> FALSE]
  BY Zenon, <1>2
<1>12. PICK end : state(n) = end
  OBVIOUS
<1>13. end.pos = last
  BY <1>11, <1>12
<1> HIDE DEF state
<1>14. end.pos >= rem_len(frame) + 2
  <2>1. PICK r \in Nat : rem_len(frame) = r
    BY <1>1
  <2>2. r + V = last
    BY Zenon, <1>1, <1>2, <2>1
  <2>3. last >= r + 2
    BY <1>1, <2>2
  <2> QED
    BY Zenon, <1>13, <2>1, <2>3
<1>15. after[m] = end
  <2>1. n \in 0..m
    BY <1>6
  <2>2. Turns(frame, Before(frame), m, after) /\ after[n] = end
    BY Zenon, <1>3, <1>10, <1>12
  <2> QED
    BY Zenon, <1>14, <2>1, <2>2, TheLoopEnds
<1> QED
  BY Zenon, <1>2, <1>3, <1>11, <1>12, <1>15 DEF ListIsRead

SubscribeHolds(d, id, names, qos) ==
  /\ ~d.astray /\ d.packet_id = id
  /\ d.topics = [i \in 1..Len(names) |-> [name |-> names[i], qos |-> qos[i]]]

\* A SUBSCRIBE of topics there are places for, as the broker reads it.
LEMMA SubscribeIsDecoded ==
  ASSUME NEW frame \in Seq(Nat), NEW V \in Nat, NEW id \in Nat, NEW all \in Seq(Nat),
         NEW first, LaidOutList(frame, V, first, id, all),
         NEW names \in Seq(Seq(Nat)), NEW qos, \A i \in 1..Len(names) : qos[i] \in Nat,
         NEW tails, \A i \in 1..Len(names) : tails[i] = <<qos[i]>>,
         LinedTo(frame, V + 2, names, 1, tails, V + 2 + Len(all)),
         Len(names) <= MAX_SUBS_TOPIC
  PROVE  SubscribeHolds(broker_decode_subscribe(frame), id, names, qos)
<1>1. PICK n \in Nat, last \in Nat, pos \in Nat : Len(names) = n /\ Len(frame) = last /\ V + 2 = pos
  OBVIOUS
<1>2. VarHead(frame) = V /\ Num(frame, V) = id /\ ListFrame(frame, V)
  BY DEF LaidOutList, ListFrame
<1>3. PICK start : /\ Lined(frame, pos, names, 1, start) /\ start[Len(names)] = Len(frame)
                   /\ \A i \in 1..Len(names) : PartAt(frame, start[i] - 1, tails[i])
  <2>1. V + 2 + Len(all) = Len(frame)
    BY DEF LaidOutList
  <2>2. LinedTo(frame, pos, names, 1, tails, Len(frame))
    BY Zenon, <1>1, <2>1
  <2> QED
    BY Zenon, <2>2 DEF LinedTo
<1> DEFINE qosAt == [i \in 1..Len(names) |-> start[i] - 1]
<1>4. \A i \in 1..Len(names) : qosAt[i] = start[i] - 1
  OBVIOUS
<1> HIDE DEF qosAt
<1>5. PICK topics : ReadTopics(names, qosAt, n) = topics
  OBVIOUS
<1>6. PICK list : TopicList(frame) = list /\ list = [pos |-> last, topics |-> topics, astray |-> FALSE]
  <2>1. TopicList(frame) = [pos |-> Len(frame), topics |-> ReadTopics(names, qosAt, Len(names)), astray |-> FALSE]
    <3>1. ListIsRead(frame, names, qosAt)
      BY Zenon, <1>1, <1>2, <1>3, <1>4, LoopReadsTopics
    <3> QED
      BY Zenon, <3>1 DEF ListIsRead
  <2> QED
    BY Zenon, <1>1, <1>5, <2>1
<1>7. list.topics = topics /\ list.astray = FALSE
  BY <1>6
<1>8. DOMAIN topics = 1..n /\ \A i \in 1..n : topics[i].name = names[i] /\ topics[i].qosAt = qosAt[i]
  BY <1>5 DEF ReadTopics
<1>9. ASSUME NEW i \in 1..n
      PROVE  topics[i].qosAt < Len(frame) /\ frame[topics[i].qosAt + 1] = qos[i]
  <2>1. PICK at \in Nat : start[i] = at /\ at > 0 /\ at <= last
    <3>1. i \in 0..n /\ i - 1 \in 0..n
      OBVIOUS
    <3>2. /\ start \in [0..n -> Nat] /\ \A j \in 0..n : start[j] <= last
          /\ \A j \in 1..n : start[j] = start[j - 1] + 2 + Len(names[j]) + 1
      BY Zenon, <1>1, <1>3 DEF Lined
    <3>3. start[i] \in Nat /\ start[i - 1] \in Nat /\ start[i] <= last
      BY <3>1, <3>2
    <3>4. PICK l \in Nat : Len(names[i]) = l
      BY <1>1
    <3>5. start[i] = start[i - 1] + 2 + l + 1
      BY Zenon, <3>2, <3>4
    <3>6. start[i] > 0
      <4>1. PICK b \in Nat, e \in Nat : start[i - 1] = b /\ start[i] = e
        BY <3>3
      <4>2. e = b + 2 + l + 1
        BY Zenon, <3>5, <4>1
      <4>3. e > 0
        BY <4>2
      <4> QED
        BY Zenon, <4>1, <4>3
    <3> QED
      BY Zenon, <3>3, <3>6
  <2>2. PICK q \in Nat : at - 1 = q
    BY <2>1
  <2>3. topics[i].qosAt = q
    BY Zenon, <1>1, <1>4, <1>8, <2>1, <2>2
  <2>4. q < last /\ q + 1 = at
    BY <2>1, <2>2
  <2>5. frame[q + 1] = qos[i]
    <3>1. PartAt(frame, q, <<qos[i]>>)
      BY Zenon, <1>1, <1>3, <2>1, <2>2
    <3>2. Len(<<qos[i]>>) = 1 /\ <<qos[i]>>[1] = qos[i]
      OBVIOUS
    <3>3. 1 \in 1..Len(<<qos[i]>>)
      BY <3>2
    <3> QED
      BY Zenon, <3>1, <3>2, <3>3 DEF PartAt
  <2> QED
    BY Zenon, <1>1, <2>3, <2>4, <2>5
<1>10. ~(\E i \in DOMAIN list.topics : list.topics[i].qosAt >= Len(frame))
  <2> SUFFICES ASSUME NEW i \in DOMAIN list.topics, list.topics[i].qosAt >= Len(frame)
               PROVE  FALSE
    BY Zenon
  <2>1. i \in 1..n /\ topics[i].qosAt < Len(frame) /\ topics[i].qosAt >= Len(frame)
    BY Zenon, <1>7, <1>8, <1>9
  <2>2. topics[i].qosAt \in Int
    <3>1. start[i] \in Nat
      <4>1. start \in [0..n -> Nat]
        BY Zenon, <1>1, <1>3 DEF Lined
      <4>2. i \in 0..n
        BY <2>1
      <4> QED
        BY <4>1, <4>2
    <3>2. topics[i].qosAt = start[i] - 1
      BY Zenon, <1>1, <1>4, <1>8, <2>1
    <3> QED
      BY <3>1, <3>2
  <2> QED
    BY <1>1, <2>1, <2>2
<1>11. [i \in DOMAIN list.topics |->
          [name |-> list.topics[i].name,
           qos |-> IF list.topics[i].qosAt < Len(frame) THEN frame[list.topics[i].qosAt + 1] ELSE 0]]
       = [i \in 1..n |-> [name |-> names[i], qos |-> qos[i]]]
  <2>1. \A i \in 1..n : (IF topics[i].qosAt < Len(frame) THEN frame[topics[i].qosAt + 1] ELSE 0) = qos[i]
    BY Zenon, <1>9
  <2>2. [i \in DOMAIN topics |->
          [name |-> topics[i].name,
           qos |-> IF topics[i].qosAt < Len(frame) THEN frame[topics[i].qosAt + 1] ELSE 0]]
       = [i \in 1..n |-> [name |-> names[i], qos |-> qos[i]]]
    BY Zenon, <1>8, <2>1
  <2> QED
    BY Zenon, <1>7, <2>2
<1>12. /\ ~broker_decode_subscribe(frame).astray
       /\ broker_decode_subscribe(frame).packet_id = id
       /\ broker_decode_subscribe(frame).topics = [i \in 1..n |-> [name |-> names[i], qos |-> qos[i]]]
  <2> DEFINE t == [i \in DOMAIN list.topics |->
                    [name |-> list.topics[i].name,
                     qos |-> IF list.topics[i].qosAt < Len(frame) THEN frame[list.topics[i].qosAt + 1] ELSE 0]]
             a == list.astray \/ \E i \in DOMAIN list.topics : list.topics[i].qosAt >= Len(frame)
  <2>1. broker_decode_subscribe(frame) = [packet_id |-> Num(frame, VarHead(frame)), astray |-> a, topics |-> t]
    BY Zenon, <1>6 DEF broker_decode_subscribe
  <2>2. ~a /\ t = [i \in 1..n |-> [name |-> names[i], qos |-> qos[i]]]
    BY Zenon, <1>7, <1>10, <1>11
  <2>3. Num(frame, VarHead(frame)) = id
    BY Zenon, <1>2
  <2> HIDE DEF t, a
  <2>4. /\ broker_decode_subscribe(frame).astray = a
        /\ broker_decode_subscribe(frame).packet_id = Num(frame, VarHead(frame))
        /\ broker_decode_subscribe(frame).topics = t
    BY <2>1
  <2> QED
    BY Zenon, <2>2, <2>3, <2>4
<1> QED
  BY Zenon, <1>1, <1>12 DEF SubscribeHolds

THEOREM SubscribeIsRead ==
  ASSUME NEW r \in Requests, r.type = "SUBSCRIBE"
  PROVE  ReadAsWritten(r, DecodedOf[r]) <=> Len(r.topics) <= MAX_SUBS_TOPIC
<1>1. EncodedSubscribe(r) /\ Len(Encode(r)) <= MAX_FRAME_SIZE
  BY Zenon, RequestsAssumption
<1>2. PICK id \in Nat, topics \in Seq([name : Seq(0..255), qos : 0..2]), n \in Nat :
        r.packet_id = id /\ r.topics = topics /\ Len(topics) = n
  <2>1. r.packet_id \in Nat /\ r.topics \in Seq([name : Seq(0..255), qos : 0..2])
    BY <1>1 DEF EncodedSubscribe
  <2>2. Len(r.topics) \in Nat
    BY <2>1
  <2> QED
    BY Zenon, <2>1, <2>2
<1>3. ASSUME NEW i \in 1..n
      PROVE  /\ topics[i].name \in Seq(Nat) /\ topics[i].qos \in Nat
             /\ topics[i] = [name |-> topics[i].name, qos |-> topics[i].qos]
  <2>1. topics[i] \in [name : Seq(0..255), qos : 0..2]
    <3>1. i \in 1..Len(topics)
      BY Zenon, <1>2
    <3> QED
      BY Zenon, <3>1, ElementOfSeq
  <2>2. topics[i].name \in Seq(0..255) /\ topics[i].qos \in 0..2
    BY <2>1
  <2>3. topics[i].name \in Seq(Nat)
    BY <2>2, TextsAreNumbers
  <2> QED
    BY <2>1, <2>2, <2>3
<1> DEFINE names == [i \in 1..n |-> topics[i].name]
           qos == [i \in 1..n |-> topics[i].qos]
           tails == [i \in 1..n |-> <<qos[i]>>]
           parts == [i \in 1..n |-> MqttEncode_String(names[i]) \o tails[i]]
<1>4. /\ names \in Seq(Seq(Nat)) /\ Len(names) = n
      /\ \A i \in 1..n : names[i] = topics[i].name /\ qos[i] = topics[i].qos /\ qos[i] \in Nat
  <2>1. names \in [1..n -> Seq(Nat)]
    BY <1>3
  <2>2. \A i \in 1..n : names[i] = topics[i].name /\ qos[i] = topics[i].qos /\ qos[i] \in Nat
    BY <1>3
  <2> HIDE DEF names
  <2>3. names \in Seq(Seq(Nat)) /\ Len(names) = n
    BY <2>1
  <2> QED
    BY Zenon, <2>2, <2>3
<1>5. \A i \in 1..n : tails[i] = <<topics[i].qos>> /\ tails[i] = <<qos[i]>>
  BY Zenon, <1>4
<1>6. parts = [i \in DOMAIN topics |-> MqttEncode_String(topics[i].name) \o <<topics[i].qos>>]
  <2>1. DOMAIN topics = 1..n
    BY <1>2
  <2>2. \A i \in 1..n : MqttEncode_String(names[i]) \o tails[i] = MqttEncode_String(topics[i].name) \o <<topics[i].qos>>
    BY Zenon, <1>4, <1>5
  <2> QED
    BY Zenon, <2>1, <2>2
<1> HIDE DEF names, qos
<1>7. tails \in [1..n -> Seq(Nat)] /\ \A i \in 1..n : Len(tails[i]) = 1
  BY <1>4
<1> HIDE DEF tails
<1>8. parts \in Seq(Seq(Nat))
  <2>1. ASSUME NEW i \in 1..n
        PROVE  MqttEncode_String(names[i]) \o tails[i] \in Seq(Nat)
    <3>1. names[i] \in Seq(Nat) /\ tails[i] \in Seq(Nat)
      BY <1>4, <1>7
    <3>2. Spelled(MqttEncode_String(names[i]) \o tails[i], names[i], tails[i])
      BY <3>1, StringIs
    <3> QED
      BY Zenon, <3>2 DEF Spelled
  <2>2. parts \in [1..n -> Seq(Nat)]
    BY <2>1
  <2> HIDE DEF parts
  <2> QED
    BY <2>2
<1>9. parts = [i \in 1..Len(names) |-> MqttEncode_String(names[i]) \o tails[i]]
  BY Zenon, <1>4
<1> HIDE DEF parts
<1>10. PICK all \in Seq(Nat) : FlattenSeq(parts) = all
  BY <1>8, Flattened
<1>11. PICK frame : Encode(r) = frame
  OBVIOUS
<1>12. WithHeader("SUBSCRIBE", 2, MqttEncode_Num(id) \o all) = frame /\ Len(frame) <= 240
  <2>1. Encode(r) = MqttEncode_Subscribe(r)
    BY DEF Encode
  <2>2. MqttEncode_Subscribe(r) =
          WithHeader("SUBSCRIBE", 2,
            MqttEncode_Num(id)
              \o FlattenSeq([i \in DOMAIN topics |-> MqttEncode_String(topics[i].name) \o <<topics[i].qos>>]))
    BY Zenon, <1>2 DEF MqttEncode_Subscribe
  <2>3. Len(frame) <= 240
    BY <1>1, <1>11 DEF MAX_FRAME_SIZE
  <2> QED
    BY Zenon, <1>6, <1>10, <1>11, <2>1, <2>2, <2>3
<1>13. 16 * TypeNr("SUBSCRIBE") + 2 = 130
  BY TypeNumbers
<1>14. frame \in Seq(Nat) /\ \E V \in Nat : LaidOutList(frame, V, 130, id, all)
  BY <1>12, <1>13, ListLayout
<1>15. PICK V \in Nat : LaidOutList(frame, V, 130, id, all)
  BY <1>14
<1>16. FrameType(frame) = "SUBSCRIBE"
  <2>1. frame[1] = 130 /\ 130 \div 16 = 8
    BY <1>15 DEF LaidOutList
  <2> QED
    BY <2>1, TypeNumbers DEF FrameType
<1>17. PICK d : broker_decode_subscribe(frame) = d /\ DecodedOf[r] = d
  <2>1. Decode(frame) = broker_decode_subscribe(frame)
    BY <1>16 DEF Decode
  <2>2. DecodedOf[r] = Decode(Frame[r]) /\ Frame[r] = Encode(r)
    BY DEF DecodedOf, Frame
  <2> QED
    BY Zenon, <1>11, <2>1, <2>2
<1>18. ReadAsWritten(r, d) <=> ~d.astray /\ d.packet_id = r.packet_id /\ d.topics = r.topics
  BY DEF ReadAsWritten
<1>19. CASE n <= MAX_SUBS_TOPIC
  <2>1. LinedTo(frame, V + 2, names, 1, tails, V + 2 + Len(all))
    <3>1. PICK pos \in Nat : V + 2 = pos
      OBVIOUS
    <3>2. PartAt(frame, pos, all) /\ Len(frame) = pos + Len(all)
      BY Zenon, <1>15, <3>1 DEF LaidOutList
    <3>3. pos + Len(all) <= Len(frame)
      BY <1>14, <3>2
    <3>4. tails \in [1..Len(names) -> Seq(Nat)] /\ \A i \in 1..Len(names) : Len(tails[i]) = 1
      BY Zenon, <1>4, <1>7
    <3>5. LinedTo(frame, pos, names, 1, tails, pos + Len(all))
      BY <1>4, <1>9, <1>10, <1>14, <3>2, <3>3, <3>4, LinedUp
    <3> QED
      BY Zenon, <3>1, <3>5
  <2>2. \A i \in 1..Len(names) : qos[i] \in Nat /\ tails[i] = <<qos[i]>>
    BY Zenon, <1>4, <1>5
  <2>3. Len(names) <= MAX_SUBS_TOPIC
    BY Zenon, <1>4, <1>19
  <2>4. /\ ~d.astray /\ d.packet_id = id
        /\ d.topics = [i \in 1..Len(names) |-> [name |-> names[i], qos |-> qos[i]]]
    <3>1. SubscribeHolds(broker_decode_subscribe(frame), id, names, qos)
      BY Zenon, <1>4, <1>14, <1>15, <2>1, <2>2, <2>3, SubscribeIsDecoded
    <3> QED
      BY Zenon, <1>17, <3>1 DEF SubscribeHolds
  <2>5. d.topics = topics
    <3>1. \A i \in 1..n : [name |-> names[i], qos |-> qos[i]] = topics[i]
      BY Zenon, <1>3, <1>4
    <3>2. d.topics = [i \in 1..n |-> topics[i]]
      BY Zenon, <1>4, <2>4, <3>1
    <3>3. topics = [i \in 1..n |-> topics[i]]
      BY <1>2
    <3> QED
      BY Zenon, <3>2, <3>3
  <2> QED
    BY Zenon, <1>2, <1>17, <1>18, <1>19, <2>4, <2>5
<1>20. CASE ~(n <= MAX_SUBS_TOPIC)
  <2>1. PICK list : TopicList(frame) = list
    OBVIOUS
  <2>2. list.topics \in Seq([name : Seq(Nat), qosAt : Nat]) /\ Len(list.topics) <= MAX_SUBS_TOPIC
    <3>1. PICK pos \in Nat : V + 2 = pos
      OBVIOUS
    <3>2. VarHead(frame) = V
      BY <1>15 DEF LaidOutList
    <3>3. InChain(frame, pos, list)
      BY <1>12, <1>14, <2>1, <3>1, <3>2, LoopIsInChain
    <3> QED
      BY <3>3 DEF InChain
  <2>3. DOMAIN d.topics = DOMAIN list.topics
    BY <1>17, <2>1 DEF broker_decode_subscribe
  <2>4. DOMAIN list.topics # 1..n
    BY <1>20, <2>2, MaxSubsTopicAssumption
  <2>5. d.topics # topics
    BY <1>2, <2>3, <2>4
  <2> QED
    BY Zenon, <1>2, <1>17, <1>18, <1>20, <2>5
<1> QED
  BY <1>19, <1>20

OneIsRead(list, name, last) ==
  list.astray = FALSE /\ list.topics = Append(<<>>, [name |-> name, qosAt |-> last])

\* A single topic up to the frame's end is read, be there no byte behind it.
LEMMA LoopReadsOne ==
  ASSUME NEW frame \in Seq(Nat), NEW V \in Nat, ListFrame(frame, V),
         NEW pos \in Nat, V + 2 = pos,
         NEW name \in Seq(Nat), Num(frame, pos) = Len(name), PartAt(frame, pos + 2, name),
         NEW last \in Nat, Len(frame) = last, pos + 2 + Len(name) = last
  PROVE  OneIsRead(TopicList(frame), name, last)
<1>1. /\ last <= 240 /\ VarHead(frame) = V /\ V \in {2, 3}
      /\ rem_len(frame) \in Nat /\ rem_len(frame) + V = last
  BY DEF ListFrame
<1>2. PICK m \in Nat : MAX_SUBS_TOPIC + 1 = m /\ 1 \in 0..m /\ 1 \in 1..m
  BY MaxSubsTopicAssumption
<1>3. PICK after : Turns(frame, Before(frame), m, after) /\ TopicList(frame) = after[m]
  BY Zenon, <1>2, TopicListIs
<1>4. after[0] = Before(frame) /\ \A i \in 1..m : after[i] = NextTopic(frame, after[i - 1])
  <2>1. Given(frame, Before(frame), m, after)
    BY Zenon, <1>2, <1>3, EachTurn
  <2> QED
    BY Zenon, <2>1 DEF Given
<1> DEFINE none == <<>>
           end == [pos |-> last + 1, topics |-> Append(none, [name |-> name, qosAt |-> last]), astray |-> FALSE]
<1>5. Before(frame) = [pos |-> pos, topics |-> none, astray |-> FALSE]
  BY Zenon, <1>1 DEF Before
<1>6. Len(none) = 0
  OBVIOUS
<1> HIDE DEF none
<1>7. PICK r \in Nat, l \in Nat : rem_len(frame) = r /\ Len(name) = l
  BY <1>1
<1>8. r + V = last /\ pos + 2 + l = last
  BY Zenon, <1>1, <1>7
<1>9. pos < r + 2 /\ last + 1 >= r + 2
  BY <1>1, <1>8
<1>10. TopicStands(frame, pos, name, last)
  <2>1. pos < rem_len(frame) + 2
    BY Zenon, <1>7, <1>9
  <2> QED
    BY <1>1, <2>1 DEF TopicStands
<1>11. ~(Len(none) = MAX_SUBS_TOPIC)
  BY <1>6, MaxSubsTopicAssumption
<1>12. after[1] = end
  <2>1. TopicIsTaken(frame, pos, name, last, none)
    BY Zenon, <1>1, <1>10, <1>11, TurnReads
  <2>2. NextTopic(frame, Before(frame)) = end
    BY Zenon, <1>5, <2>1 DEF TopicIsTaken
  <2>3. 1 - 1 = 0
    OBVIOUS
  <2> HIDE DEF end
  <2> QED
    BY Zenon, <1>2, <1>4, <2>2, <2>3
<1>13. end.pos >= rem_len(frame) + 2
  <2>1. end.pos = last + 1
    OBVIOUS
  <2> HIDE DEF end
  <2> QED
    BY Zenon, <1>7, <1>9, <2>1
<1>14. TopicList(frame) = end
  <2> HIDE DEF end
  <2> QED
    BY Zenon, <1>2, <1>3, <1>12, <1>13, TheLoopEnds
<1> QED
  BY <1>14 DEF none, OneIsRead

\* Two topics or more, with nothing behind each: the last would end beyond the frame.
LEMMA TopicsRunOut ==
  ASSUME NEW frame \in Seq(Nat), NEW pos \in Nat, NEW list, InChain(frame, pos, list), ~list.astray,
         NEW names \in Seq(Seq(Nat)), Len(list.topics) = Len(names),
         \A i \in 1..Len(names) : list.topics[i].name = names[i],
         NEW start, Lined(frame, pos, names, 0, start), start[Len(names)] = Len(frame)
  PROVE  Len(names) <= 1
<1>0. PICK n \in Nat, last \in Nat : Len(names) = n /\ Len(frame) = last
  OBVIOUS
<1>1. PICK topics : Len(names) = n /\ Len(frame) = last /\ list.topics = topics
  BY <1>0
<1>2. /\ start \in [0..n -> Nat] /\ start[0] = pos /\ start[n] = last
      /\ \A i \in 1..n : start[i] = start[i - 1] + 2 + Len(names[i]) + 0
  BY Zenon, <1>1 DEF Lined
<1>3. \A i \in 1..n : topics[i].qosAt = Behind(pos, topics, i - 1) + 2 + Len(names[i]) /\ topics[i].qosAt <= last
  BY Zenon, <1>1 DEF InChain
<1> DEFINE T == {i \in Nat : i <= n => Behind(pos, topics, i) = start[i] + i}
<1>4. 0 \in T
  BY <1>2 DEF Behind
<1>5. ASSUME NEW i \in Nat, i < n, i \in T
      PROVE  i + 1 \in T
  <2>1. PICK k \in 1..n : i + 1 = k /\ k - 1 = i
    <3>1. i + 1 \in 1..n /\ (i + 1) - 1 = i
      BY <1>5
    <3> QED
      BY <3>1
  <2>2. PICK p \in Nat, to \in Nat, l \in Nat : start[i] = p /\ start[k] = to /\ Len(names[k]) = l
    <3>1. i \in 0..n /\ k \in 0..n
      BY <1>5, <2>1
    <3>2. start[i] \in Nat /\ start[k] \in Nat
      BY <1>2, <3>1
    <3>3. names[k] \in Seq(Nat)
      BY <1>1
    <3>4. Len(names[k]) \in Nat
      BY <3>3
    <3> QED
      BY Zenon, <3>2, <3>4
  <2>3. Behind(pos, topics, i) = p + i
    <3>1. Behind(pos, topics, i) = start[i] + i
      BY <1>5
    <3> QED
      BY Zenon, <2>2, <3>1
  <2>4. topics[k].qosAt = p + i + 2 + l /\ to = p + 2 + l + 0
    BY Zenon, <1>2, <1>3, <2>1, <2>2, <2>3
  <2>5. k # 0
    BY <2>1
  <2>6. Behind(pos, topics, k) = (p + i + 2 + l) + 1
    BY Zenon, <2>4, <2>5 DEF Behind
  <2>7. (p + i + 2 + l) + 1 = to + k
    BY <2>1, <2>4
  <2>8. Behind(pos, topics, k) = start[k] + k
    BY Zenon, <2>2, <2>6, <2>7
  <2>9. k \in T
    BY <2>8
  <2> HIDE DEF T
  <2> QED
    BY Zenon, <2>1, <2>9
<1>6. n \in T
  <2> HIDE DEF T
  <2>1. \A i \in 0..n : i \in T
    BY <1>4, <1>5, UpTo
  <2> QED
    BY <2>1
<1>7. Behind(pos, topics, n) = last + n
  <2>1. Behind(pos, topics, n) = start[n] + n
    BY <1>6
  <2> QED
    BY Zenon, <1>2, <2>1
<1>8. CASE n = 0
  BY <1>1, <1>8
<1>9. CASE n # 0
  <2>1. PICK q : topics[n].qosAt = q
    OBVIOUS
  <2>2. q + 1 = last + n
    BY Zenon, <1>7, <1>9, <2>1 DEF Behind
  <2>3. q <= last
    <3>1. n \in 1..n
      BY <1>9
    <3> QED
      BY Zenon, <1>3, <2>1, <3>1
  <2>4. q \in Int
    <3>1. n \in 1..n /\ n - 1 \in 0..n /\ (n - 1) + 1 = n
      BY <1>9
    <3>2. list.topics \in Seq([name : Seq(Nat), qosAt : Nat])
      BY DEF InChain
    <3>3. n \in 1..Len(list.topics)
      BY Zenon, <1>1, <3>1
    <3>4. list.topics[n] \in [name : Seq(Nat), qosAt : Nat]
      BY Zenon, <3>2, <3>3, ElementOfSeq
    <3>5. list.topics[n].qosAt \in Nat
      BY <3>4
    <3> QED
      BY <1>1, <2>1, <3>5
  <2>5. n <= 1
    BY <2>2, <2>3, <2>4
  <2> QED
    BY Zenon, <1>1, <2>5
<1> QED
  BY <1>8, <1>9

UnsubscribeHolds(d, id, names) == ~d.astray /\ d.packet_id = id /\ d.topics = names

\* The broker reads an UNSUBSCRIBE right exactly when it has one topic at most.
LEMMA UnsubscribeIsDecoded ==
  ASSUME NEW frame \in Seq(Nat), NEW V \in Nat, NEW id \in Nat,
         NEW names \in Seq(Seq(Nat)), NEW first, LaidOutList(frame, V, first, id, Texts(names))
  PROVE  UnsubscribeHolds(broker_decode_unsubscribe(frame), id, names) <=> Len(names) <= 1
<1>0. PICK pos \in Nat, last \in Nat, n \in Nat : V + 2 = pos /\ Len(frame) = last /\ Len(names) = n
  OBVIOUS
<1>1. PICK list : V + 2 = pos /\ Len(frame) = last /\ Len(names) = n /\ TopicList(frame) = list
  BY <1>0
<1>2. VarHead(frame) = V /\ Num(frame, V) = id /\ ListFrame(frame, V) /\ Len(frame) <= 240
  BY DEF LaidOutList, ListFrame
<1>3. PICK start : Lined(frame, pos, names, 0, start) /\ start[Len(names)] = Len(frame)
  <2>1. PartAt(frame, pos, Texts(names)) /\ Len(frame) = pos + Len(Texts(names))
    BY Zenon, <1>1 DEF LaidOutList
  <2>2. pos + Len(Texts(names)) <= Len(frame)
    BY <2>1
  <2>3. \E start : /\ Lined(frame, pos, names, 0, start)
                   /\ start[Len(names)] = pos + Len(Texts(names))
    BY Zenon, <2>1, <2>2, TextsAre
  <2> QED
    BY Zenon, <2>1, <2>3
<1>4. InChain(frame, pos, list)
  <2>1. InChain(frame, pos, TopicList(frame))
    BY <1>1, <1>2, LoopIsInChain
  <2> QED
    BY Zenon, <1>1, <2>1
<1>5. list.topics \in Seq([name : Seq(Nat), qosAt : Nat])
  BY <1>4 DEF InChain
<1>6. PICK d : /\ broker_decode_unsubscribe(frame) = d
               /\ d.packet_id = id /\ d.astray = list.astray
               /\ d.topics = [i \in DOMAIN list.topics |-> list.topics[i].name]
  <2> DEFINE t == [i \in DOMAIN list.topics |-> list.topics[i].name]
  <2>1. broker_decode_unsubscribe(frame) = [packet_id |-> id, astray |-> list.astray, topics |-> t]
    BY Zenon, <1>1, <1>2 DEF broker_decode_unsubscribe
  <2> HIDE DEF t
  <2>2. /\ broker_decode_unsubscribe(frame).packet_id = id
        /\ broker_decode_unsubscribe(frame).astray = list.astray
        /\ broker_decode_unsubscribe(frame).topics = t
    BY <2>1
  <2> QED
    BY Zenon, <2>2 DEF t
<1>7. ASSUME UnsubscribeHolds(d, id, names)
      PROVE  n <= 1
  <2>1. ~list.astray /\ d.topics = names
    BY Zenon, <1>6, <1>7 DEF UnsubscribeHolds
  <2>2. DOMAIN names = 1..n /\ DOMAIN list.topics = 1..Len(list.topics) /\ Len(list.topics) \in Nat
    BY <1>1, <1>5
  <2>3. DOMAIN d.topics = DOMAIN list.topics
    BY <1>6
  <2>4. 1..Len(list.topics) = 1..n
    BY Zenon, <2>1, <2>2, <2>3
  <2>5. Len(list.topics) = n
    BY <2>2, <2>4
  <2>6. \A i \in 1..n : list.topics[i].name = names[i]
    <3> TAKE i \in 1..n
    <3>1. i \in DOMAIN list.topics
      BY Zenon, <2>2, <2>4
    <3>2. d.topics[i] = list.topics[i].name
      BY Zenon, <1>6, <3>1
    <3> QED
      BY Zenon, <2>1, <3>2
  <2>7. Len(names) <= 1
    BY Zenon, <1>1, <1>3, <1>4, <2>1, <2>5, <2>6, TopicsRunOut
  <2> QED
    BY Zenon, <1>1, <2>7
<1>8. ASSUME n = 0
      PROVE  UnsubscribeHolds(d, id, names)
  <2> DEFINE qosAt == [i \in {} |-> 0]
             at == [i \in 0..0 |-> pos]
  <2>1. Len(names) = 0 /\ start[0] = last /\ start[0] = pos
    <3>1. Len(names) = 0
      BY Zenon, <1>1, <1>8
    <3> QED
      BY Zenon, <1>1, <1>3, <3>1 DEF Lined
  <2>2. at \in [0..0 -> Nat] /\ at[0] = pos /\ (\A i \in 1..0 : FALSE) /\ (\A i \in 0..0 : at[i] = pos)
    OBVIOUS
  <2> HIDE DEF at
  <2>3. pos <= Len(frame) /\ pos = Len(frame)
    BY <1>1, <2>1
  <2>4. Lined(frame, pos, names, 1, at)
    BY Zenon, <2>1, <2>2, <2>3 DEF Lined
  <2>5. at[Len(names)] = Len(frame) /\ \A i \in 1..Len(names) : qosAt[i] = at[i] - 1
    BY Zenon, <2>1, <2>2, <2>3
  <2>6. Len(names) <= MAX_SUBS_TOPIC
    BY <2>1, MaxSubsTopicAssumption
  <2> HIDE DEF qosAt
  <2>7. ListIsRead(frame, names, qosAt)
    BY Zenon, <1>1, <1>2, <2>4, <2>5, <2>6, LoopReadsTopics
  <2>8. list = [pos |-> last, topics |-> ReadTopics(names, qosAt, 0), astray |-> FALSE]
    BY Zenon, <1>1, <2>1, <2>7 DEF ListIsRead
  <2>9. ~list.astray /\ DOMAIN list.topics = {}
    BY <2>8 DEF ReadTopics
  <2>10. d.topics = names
    <3>1. d.topics = [i \in {} |-> list.topics[i].name]
      BY Zenon, <1>6, <2>9
    <3>2. names = <<>>
      BY <2>1
    <3> QED
      BY <3>1, <3>2
  <2> QED
    BY Zenon, <1>6, <2>9, <2>10 DEF UnsubscribeHolds
<1>9. ASSUME n = 1
      PROVE  UnsubscribeHolds(d, id, names)
  <2>1. Len(names) = 1 /\ 1 \in 1..Len(names)
    BY <1>1, <1>9
  <2>2. PICK name \in Seq(Nat) : names[1] = name
    BY Zenon, <2>1, ElementOfSeq
  <2>3. /\ start[0] = pos /\ start[1] = last
        /\ start[1] = start[1 - 1] + 2 + Len(names[1]) + 0
        /\ Num(frame, start[1 - 1]) = Len(names[1])
        /\ PartAt(frame, start[1 - 1] + 2, names[1])
    BY Zenon, <1>1, <1>3, <2>1 DEF Lined
  <2>4. 1 - 1 = 0
    OBVIOUS
  <2>5. /\ last = pos + 2 + Len(name) + 0
        /\ Num(frame, pos) = Len(name) /\ PartAt(frame, pos + 2, name)
    BY Zenon, <2>2, <2>3, <2>4
  <2>6. pos + 2 + Len(name) = last
    BY <2>5
  <2>7. OneIsRead(TopicList(frame), name, last)
    BY Zenon, <1>1, <1>2, <2>5, <2>6, LoopReadsOne
  <2>8. list.astray = FALSE /\ list.topics = Append(<<>>, [name |-> name, qosAt |-> last])
    BY Zenon, <1>1, <2>7 DEF OneIsRead
  <2>9. list.topics = <<[name |-> name, qosAt |-> last]>>
    BY <2>8
  <2>10. DOMAIN list.topics = 1..1 /\ list.topics[1].name = name
    BY <2>9
  <2>11. d.topics = names
    <3>1. \A i \in 1..1 : list.topics[i].name = names[i]
      BY <2>2, <2>10
    <3>2. d.topics = [i \in 1..1 |-> names[i]]
      BY Zenon, <1>6, <2>10, <3>1
    <3>3. names = [i \in 1..Len(names) |-> names[i]]
      OBVIOUS
    <3> QED
      BY Zenon, <2>1, <3>2, <3>3
  <2> QED
    BY Zenon, <1>6, <2>8, <2>11 DEF UnsubscribeHolds
<1>10. n <= 1 => n = 0 \/ n = 1
  OBVIOUS
<1> QED
  BY Zenon, <1>1, <1>6, <1>7, <1>8, <1>9, <1>10

THEOREM UnsubscribeIsRead ==
  ASSUME NEW r \in Requests, r.type = "UNSUBSCRIBE"
  PROVE  ReadAsWritten(r, DecodedOf[r]) <=> Len(r.topics) <= 1
<1>1. EncodedUnsubscribe(r) /\ Len(Encode(r)) <= MAX_FRAME_SIZE
  BY Zenon, RequestsAssumption
<1>2. PICK id \in Nat, names \in Seq(Seq(Nat)) : r.packet_id = id /\ r.topics = names
  <2>1. r.packet_id \in Nat /\ r.topics \in Seq(Seq(0..255))
    BY <1>1 DEF EncodedUnsubscribe
  <2>2. r.topics \in Seq(Seq(Nat))
    BY <2>1, ListsOfTexts
  <2> QED
    BY Zenon, <2>1, <2>2
<1>3. PICK all \in Seq(Nat) : Texts(names) = all
  BY TextsAre
<1>4. PICK frame : Encode(r) = frame
  OBVIOUS
<1>5. WithHeader("UNSUBSCRIBE", 2, MqttEncode_Num(id) \o all) = frame /\ Len(frame) <= 240
  <2>1. Encode(r) = MqttEncode_Unsubscribe(r)
    BY DEF Encode
  <2>2. MqttEncode_Unsubscribe(r) = WithHeader("UNSUBSCRIBE", 2, MqttEncode_Num(id) \o Texts(names))
    BY Zenon, <1>2 DEF MqttEncode_Unsubscribe
  <2>3. Len(frame) <= 240
    BY <1>1, <1>4 DEF MAX_FRAME_SIZE
  <2> QED
    BY Zenon, <1>3, <1>4, <2>1, <2>2, <2>3
<1>6. 16 * TypeNr("UNSUBSCRIBE") + 2 = 162
  BY TypeNumbers
<1>7. frame \in Seq(Nat) /\ \E V \in Nat : LaidOutList(frame, V, 162, id, all)
  BY <1>5, <1>6, ListLayout
<1>8. PICK V \in Nat : LaidOutList(frame, V, 162, id, Texts(names))
  BY Zenon, <1>3, <1>7
<1>9. FrameType(frame) = "UNSUBSCRIBE"
  <2>1. frame[1] = 162 /\ 162 \div 16 = 10
    BY <1>8 DEF LaidOutList
  <2> QED
    BY <2>1, TypeNumbers DEF FrameType
<1>10. DecodedOf[r] = broker_decode_unsubscribe(frame)
  <2>1. Decode(frame) = broker_decode_unsubscribe(frame)
    BY <1>9 DEF Decode
  <2>2. DecodedOf[r] = Decode(Frame[r]) /\ Frame[r] = Encode(r)
    BY DEF DecodedOf, Frame
  <2> QED
    BY Zenon, <1>4, <2>1, <2>2
<1>11. UnsubscribeHolds(broker_decode_unsubscribe(frame), id, names) <=> Len(names) <= 1
  BY Zenon, <1>7, <1>8, UnsubscribeIsDecoded
<1>12. ReadAsWritten(r, DecodedOf[r]) <=>
         ~DecodedOf[r].astray /\ DecodedOf[r].packet_id = r.packet_id /\ DecodedOf[r].topics = r.topics
  BY DEF ReadAsWritten
<1> QED
  BY Zenon, <1>2, <1>10, <1>11, <1>12 DEF UnsubscribeHolds

\* The broker reads every frame as the client wrote it, but for a SUBSCRIBE of more topics than it
\* has places for and an UNSUBSCRIBE of two topics or more, which it never reads right: for every
\* set of requests whose frames fit its buffer.
ReadsRight(r) ==
  ReadAsWritten(r, DecodedOf[r]) <=>
    /\ r.type = "SUBSCRIBE" => Len(r.topics) <= MAX_SUBS_TOPIC
    /\ r.type = "UNSUBSCRIBE" => Len(r.topics) <= 1

THEOREM EveryRequestIsRead ==
  ASSUME NEW r \in Requests
  PROVE  ReadsRight(r)
<1>1. r.type \in {"CONNECT", "PUBLISH", "SUBSCRIBE", "UNSUBSCRIBE", "PINGREQ"}
  BY Zenon, RequestsAssumption
<1>2. CASE r.type = "CONNECT"
  BY <1>2, ConnectIsRead DEF ReadsRight
<1>3. CASE r.type = "PUBLISH"
  BY <1>3, PublishIsRead DEF ReadsRight
<1>4. CASE r.type = "SUBSCRIBE"
  BY <1>4, SubscribeIsRead DEF ReadsRight
<1>5. CASE r.type = "UNSUBSCRIBE"
  BY <1>5, UnsubscribeIsRead DEF ReadsRight
<1>6. CASE r.type = "PINGREQ"
  BY <1>6 DEF ReadsRight, ReadAsWritten
<1> QED
  BY <1>1, <1>2, <1>3, <1>4, <1>5, <1>6

-------------------------------------------------------------------------------
(* Client, link and broker *)

Identifiers == {n \in Nat : n < 65536}

\* An identifier as the PUBACK returns it.
Swapped(id) == 256 * (id % 256) + (id \div 256)

\* The broker never counts anybody as connected.
Unconnected ==
  /\ DOMAIN clients = Broker!ClientSlots
  /\ \A i \in DOMAIN clients : ~clients[i].connected
  /\ reply.conn_code \in Nat

\* The client waits only for an answer that is due, and while its call runs it has no success.
Waiting ==
  /\ req \in Requests
  /\ stat \in {"BEGIN", "WAIT"}
  /\ stat = "WAIT" => WaitsForAnswer(req)
  /\ calling => stat = "WAIT" /\ ~success

\* What is on its way back: a CONNACK, or the PUBACK of a message the broker has handled.
Answers ==
  /\ handled \subseteq Identifiers
  /\ up \in Seq(Requests)
  /\ down \in Seq(Seq(Nat))
  /\ \A i \in 1..Len(down) :
       \/ FrameType(down[i]) = "CONNACK"
       \/ FrameType(down[i]) = "PUBACK" /\ \E id \in handled : PacketId(down[i]) = Swapped(id)

\* The inductive invariant.
Inv == Unconnected /\ Waiting /\ Answers /\ SuccessIsExplained

\* Nobody is connected, so no address finds a client and no message finds a reader.
LEMMA NobodyIsFound ==
  ASSUME Unconnected
  PROVE  /\ \A a : Broker!broker_get_client_by_socket(clients, a) = Broker!NOT_FOUND
         /\ \A m : Broker!publish_msg_to_subscribers(clients, m) = {}
BY DEF Unconnected, Broker!broker_get_client_by_socket, Broker!FirstSlot,
       Broker!publish_msg_to_subscribers, Broker!ForwardsTo

\* A CONNECT leaves nobody connected and sends nothing yet.
LEMMA ConnectEffect ==
  ASSUME Unconnected, NEW f, NEW a, Broker!Connect(f, a)
  PROVE  Unconnected' /\ sent' = {}
<1> DEFINE tab == Broker!AfterCleanSession(clients, f)
           new == Broker!broker_create_new_client(f)
<1>1. ~Broker!EmptyClient.connected /\ ~new.connected
  BY DEF Broker!EmptyClient, Broker!broker_create_new_client
<1>2. DOMAIN tab = Broker!ClientSlots /\ \A i \in DOMAIN tab : ~tab[i].connected
  BY <1>1 DEF Unconnected, Broker!AfterCleanSession, Broker!broker_remove_client
<1>3. Broker!broker_validate_conn(tab, f) \in Nat
  BY DEF Broker!broker_validate_conn, Broker!CONN_ACK_BAD_PROTO, Broker!CONN_ACK_NOT_AVBL,
         Broker!CONN_ACK_BAD_AUTH, Broker!CONN_ACK_OK
<1> HIDE DEF tab, new
<1>4. /\ sent' = {}
      /\ \/ clients' = tab /\ reply' = reply
         \/ clients' = Broker!add_client(tab, new) /\ reply'.conn_code = Broker!broker_validate_conn(tab, f)
  <2>1. CASE Broker!AddClientFaults(tab)
    <3>1. sent' = {} /\ clients' = tab
      BY <2>1 DEF Broker!Connect, tab
    <3>2. reply' = reply
      BY <2>1 DEF Broker!Connect, tab
    <3> QED
      BY <3>1, <3>2
  <2>2. CASE ~Broker!AddClientFaults(tab)
    BY <2>2 DEF Broker!Connect, tab, new
  <2> QED
    BY <2>1, <2>2
<1>5. CASE clients' = tab /\ reply' = reply
  <2>1. reply'.conn_code \in Nat
    BY <1>5 DEF Unconnected
  <2>2. DOMAIN clients' = Broker!ClientSlots /\ \A i \in DOMAIN clients' : ~clients'[i].connected
    BY <1>2, <1>5
  <2> QED
    BY Zenon, <1>4, <2>1, <2>2 DEF Unconnected, Broker!ClientSlots
<1>6. CASE clients' = Broker!add_client(tab, new) /\ reply'.conn_code = Broker!broker_validate_conn(tab, f)
  <2>1. DOMAIN clients' = DOMAIN tab
    BY <1>6 DEF Broker!add_client
  <2>2. \A i \in DOMAIN tab : clients'[i] = new \/ clients'[i] = tab[i]
    BY <1>6 DEF Broker!add_client
  <2> QED
    <3>1. reply'.conn_code \in Nat
      BY <1>3, <1>6
    <3>2. DOMAIN clients' = Broker!ClientSlots /\ \A i \in DOMAIN clients' : ~clients'[i].connected
      BY <1>1, <1>2, <2>1, <2>2
    <3> QED
      BY Zenon, <1>4, <3>1, <3>2 DEF Unconnected, Broker!ClientSlots
<1> QED
  BY <1>4, <1>5, <1>6

\* What the dispatcher sends for a frame: nothing, or the PUBACK of the message it took.
LEMMA DispatchEffect ==
  ASSUME Unconnected, NEW r \in Requests, NEW d, d = DecodedOf[r],
         HandleConnect(r, d) \/ HandlePublish(r, d) \/ HandleSubscribe(r, d)
           \/ HandleUnsubscribe(r, d) \/ HandlePing(r)
  PROVE  /\ Unconnected'
         /\ \A p \in sent' :
              /\ r.type = "PUBLISH" /\ r.qos > 0
              /\ p.type = "PUBACK"
              /\ p.packet_id = <<r.packet_id % 256, r.packet_id \div 256>>
<1>1. CASE HandleConnect(r, d)
  <2>1. Unconnected' /\ sent' = {}
    BY <1>1, ConnectEffect DEF HandleConnect
  <2> QED
    BY <2>1
<1>2. CASE HandlePublish(r, d)
  <2> DEFINE pub_pck == [name |-> d.name, QoS |-> d.QoS, packet_id |-> d.packet_id]
  <2>1. r.type = "PUBLISH" /\ (Broker!Publish(pub_pck, Peer) \/ Broker!PublishFault(pub_pck))
    BY <1>2 DEF HandlePublish
  <2>2. d.QoS = r.qos /\ (r.qos > 0 => d.packet_id = MqttEncode_Num(r.packet_id))
    BY <2>1, PublishIsRead DEF ReadAsWritten
  <2>3. UNCHANGED <<clients, reply>>
    BY <2>1 DEF Broker!Publish, Broker!PublishFault
  <2>4. sent' = {} \/ sent' = Broker!PubAcks(pub_pck, Peer)
    BY <2>1, NobodyIsFound DEF Broker!Publish, Broker!PublishFault
  <2>5. ASSUME NEW p \in sent'
        PROVE  /\ r.qos > 0
               /\ p.type = "PUBACK" /\ p.packet_id = <<r.packet_id % 256, r.packet_id \div 256>>
    <3>1. r.qos \in 0..2
      BY <2>1, RequestsAssumption DEF EncodedPublish
    <3>2. pub_pck.QoS >= 1 /\ p.type = "PUBACK"
          /\ p.packet_id = <<pub_pck.packet_id[2], pub_pck.packet_id[1]>>
      BY <2>4, <2>5 DEF Broker!PubAcks, Broker!encode_publish_ack
    <3>3. r.qos > 0
      BY <2>2, <3>1, <3>2
    <3> QED
      BY <2>2, <3>2, <3>3 DEF MqttEncode_Num
  <2>6. Unconnected'
    BY <2>3 DEF Unconnected, Broker!ClientSlots
  <2> QED
    BY <2>1, <2>5, <2>6
<1>3. CASE HandleSubscribe(r, d) \/ HandleUnsubscribe(r, d) \/ HandlePing(r)
  <2>1. sent' = {} /\ UNCHANGED <<clients, reply>>
    BY <1>3, NobodyIsFound
    DEF HandleSubscribe, HandleUnsubscribe, HandlePing,
        Broker!Subscribe, Broker!Unsubscribe, Broker!NullClientFault, Broker!NoEffect
  <2> QED
    BY <2>1 DEF Unconnected, Broker!ClientSlots
<1> QED
  BY <1>1, <1>2, <1>3

\* An identifier that is its own PUBACK's with the bytes the other way round.
LEMMA SwappedBytes ==
  ASSUME NEW id \in Identifiers, NEW n \in Identifiers, n = Swapped(id)
  PROVE  MqttEncode_Num(id) = Reverse(MqttEncode_Num(n))
<1>1. PICK high \in 0..255, low \in 0..255 : high = id \div 256 /\ low = id % 256
  <2>1. id \in Nat /\ id < 65536
    BY DEF Identifiers
  <2>2. id \div 256 \in 0..255 /\ id % 256 \in 0..255
    BY <2>1
  <2> QED
    BY Zenon, <2>2
<1>2. n = 256 * low + high
  BY <1>1 DEF Swapped
<1>3. n \div 256 = low /\ n % 256 = high
  BY <1>1, <1>2
<1>4. Reverse(<<low, high>>) = <<high, low>>
  BY DEF Reverse
<1> QED
  BY <1>1, <1>3, <1>4 DEF MqttEncode_Num

-------------------------------------------------------------------------------
(* The invariant *)

\* An answer the client takes was due, and says what SuccessIsExplained says.
LEMMA AnswerExplains ==
  ASSUME Waiting, handled \subseteq Identifiers, stat = "WAIT",
         NEW frame, IsAnswer(frame),
         \/ FrameType(frame) = "CONNACK"
         \/ FrameType(frame) = "PUBACK" /\ \E id \in handled : PacketId(frame) = Swapped(id)
  PROVE  \/ req.type = "CONNECT"
         \/ /\ req.type = "PUBLISH" /\ req.qos = 1
            /\ \E id \in handled : MqttEncode_Num(id) = Reverse(MqttEncode_Num(req.packet_id))
<1>1. req.type \in {"CONNECT", "PUBLISH", "SUBSCRIBE", "UNSUBSCRIBE", "PINGREQ"}
  BY RequestsAssumption DEF Waiting
<1>2. CASE FrameType(frame) = "CONNACK"
  BY <1>1, <1>2 DEF IsAnswer, WaitType
<1>3. CASE FrameType(frame) = "PUBACK" /\ \E id \in handled : PacketId(frame) = Swapped(id)
  <2>1. req.type = "PUBLISH" /\ req.qos = 1
    BY <1>1, <1>3 DEF IsAnswer, WaitType
  <2>2. Id(req) = req.packet_id
    BY <2>1 DEF Id
  <2>3. req.packet_id \in Identifiers /\ req.packet_id # 0
    BY <2>1, RequestsAssumption DEF Waiting, EncodedPublish, Identifiers
  <2>4. PICK id \in handled : req.packet_id = Swapped(id)
    BY <1>3, <2>2, <2>3 DEF IsAnswer
  <2>5. id \in Identifiers
    OBVIOUS
  <2> QED
    BY <2>1, <2>3, <2>4, <2>5, SwappedBytes
<1> QED
  BY <1>2, <1>3

LEMMA InitInv == Init => Inv
<1> SUFFICES ASSUME Init PROVE Inv
  OBVIOUS
<1>1. Unconnected
  BY DEF Init, Broker!Init, Unconnected, Broker!EmptyClient, Broker!NoReply, Broker!CONN_ACK_OK
<1>2. Waiting
  BY DEF Init, Waiting
<1>3. Answers
  <2>1. <<>> \in Seq(Requests) /\ <<>> \in Seq(Seq(Nat)) /\ Len(<<>>) = 0
    OBVIOUS
  <2> QED
    BY <2>1 DEF Init, Answers
<1>4. SuccessIsExplained
  BY DEF Init, SuccessIsExplained
<1> QED
  BY <1>1, <1>2, <1>3, <1>4 DEF Inv

\* What is put on the way back are answers.
IsAnAnswer(frame, ids) ==
  \/ FrameType(frame) = "CONNACK"
  \/ FrameType(frame) = "PUBACK" /\ \E id \in ids : PacketId(frame) = Swapped(id)

LEMMA AnsweredKeeps ==
  ASSUME Answers, handled \subseteq handled', handled' \subseteq Identifiers, up' \in Seq(Requests),
         Answered,
         \A p \in sent' : Bytes(p) \in Seq(Nat) /\ IsAnAnswer(Bytes(p), handled')
  PROVE  Answers'
<1>1. down \in Seq(Seq(Nat)) /\ \A i \in 1..Len(down) : IsAnAnswer(down[i], handled')
  BY DEF Answers, IsAnAnswer
<1>2. CASE down' = down
  BY <1>1, <1>2 DEF Answers, IsAnAnswer
<1>3. CASE \E p \in sent' : down' = Append(down, Bytes(p))
  <2>1. PICK frame \in Seq(Nat) : down' = Append(down, frame) /\ IsAnAnswer(frame, handled')
    BY <1>3
  <2>2. /\ down' \in Seq(Seq(Nat)) /\ Len(down') = Len(down) + 1
        /\ \A i \in 1..Len(down) : down'[i] = down[i]
        /\ down'[Len(down) + 1] = frame
    BY <1>1, <2>1
  <2>3. \A i \in 1..Len(down') : IsAnAnswer(down'[i], handled')
    BY <1>1, <2>1, <2>2
  <2> QED
    BY <2>2, <2>3 DEF Answers, IsAnAnswer
<1> QED
  BY <1>2, <1>3 DEF Answered

\* The frame of a PUBLISH is answered, if at all, by the PUBACK of its identifier.
LEMMA DispatchKeeps ==
  ASSUME Inv, Dispatch
  PROVE  Unconnected' /\ Answers'
<1>1. PICK r \in Requests : r = Head(up)
  BY DEF Inv, Answers, Dispatch
<1>2. /\ HandleConnect(r, DecodedOf[r]) \/ HandlePublish(r, DecodedOf[r])
           \/ HandleSubscribe(r, DecodedOf[r]) \/ HandleUnsubscribe(r, DecodedOf[r]) \/ HandlePing(r)
      /\ up' = Tail(up) /\ up # <<>>
      /\ handled' = handled \cup {q.packet_id : q \in {q \in {r} : q.type = "PUBLISH" /\ q.qos > 0}}
      /\ Answered
  BY <1>1 DEF Dispatch
<1>3. /\ Unconnected'
      /\ \A p \in sent' :
           /\ r.type = "PUBLISH" /\ r.qos > 0
           /\ p.type = "PUBACK"
           /\ p.packet_id = <<r.packet_id % 256, r.packet_id \div 256>>
  BY <1>2, DispatchEffect DEF Inv
<1>4. handled \subseteq handled' /\ handled' \subseteq Identifiers
  <2>1. r.type = "PUBLISH" /\ r.qos > 0 => r.packet_id \in Identifiers
    BY RequestsAssumption DEF EncodedPublish, Identifiers
  <2> QED
    BY <1>2, <2>1 DEF Inv, Answers
<1>5. ASSUME NEW p \in sent'
      PROVE  Bytes(p) \in Seq(Nat) /\ IsAnAnswer(Bytes(p), handled')
  <2>1. r.type = "PUBLISH" /\ r.qos > 0 /\ p.type = "PUBACK"
    BY <1>3
  <2>2. r.packet_id \in Nat /\ r.packet_id \in handled'
    BY <1>2, <2>1, RequestsAssumption DEF EncodedPublish
  <2>3. PICK first \in Nat, second \in Nat : first = r.packet_id % 256 /\ second = r.packet_id \div 256
    <3>1. r.packet_id % 256 \in Nat /\ r.packet_id \div 256 \in Nat
      BY <2>2
    <3> QED
      BY Zenon, <3>1
  <2>4. Bytes(p) = encode_publish_ack(<<first, second>>)
    BY <1>3, <2>1, <2>3 DEF Bytes
  <2>5. 256 * first + second = Swapped(r.packet_id)
    BY <2>3 DEF Swapped
  <2> QED
    BY <2>2, <2>4, <2>5, PubAckIsRead DEF IsAnAnswer
<1>6. up' \in Seq(Requests)
  BY <1>2, HeadTailProperties DEF Inv, Answers
<1> QED
  BY <1>2, <1>3, <1>4, <1>5, <1>6, AnsweredKeeps DEF Inv

\* Every step keeps the invariant.
LEMMA NextInv == Inv /\ [Next]_cb_vars => Inv'
<1> SUFFICES ASSUME Inv, [Next]_cb_vars PROVE Inv'
  OBVIOUS
<1>1. CASE \E r \in Requests : NewRequest(r)
  <2>1. PICK r \in Requests : NewRequest(r)
    BY <1>1
  <2>2. Unconnected'
    BY <2>1 DEF Inv, NewRequest, broker_vars, Unconnected, Broker!ClientSlots
  <2>3. Answers'
    BY <2>1 DEF Inv, NewRequest, Answers
  <2>4. Waiting' /\ SuccessIsExplained'
    BY <2>1 DEF Inv, NewRequest, Waiting, SuccessIsExplained
  <2> QED
    BY <2>2, <2>3, <2>4 DEF Inv
<1>2. CASE Call
  <2>1. Unconnected'
    BY <1>2 DEF Inv, Call, broker_vars, Unconnected, Broker!ClientSlots
  <2>2. up' \in Seq(Requests)
    <3>1. up \in Seq(Requests) /\ req \in Requests
      BY DEF Inv, Answers, Waiting
    <3>2. Append(up, req) \in Seq(Requests)
      BY <3>1
    <3>3. up' = Append(up, req) \/ up' = up
      BY <1>2 DEF Call, Write
    <3> QED
      BY <3>1, <3>2, <3>3
  <2>3. Answers'
    BY <1>2, <2>2 DEF Inv, Call, Answers
  <2>4. Waiting'
    BY <1>2 DEF Inv, Call, Waiting, WaitsForAnswer
  <2>5. SuccessIsExplained'
    <3>1. req.type = "PUBLISH" => req.qos \in 0..2
      BY RequestsAssumption DEF Inv, Waiting, EncodedPublish
    <3>2. req' = req /\ success' = ~WaitsForAnswer(req)
      BY <1>2 DEF Call
    <3>3. ~WaitsForAnswer(req) => req.type = "PUBLISH" /\ req.qos = 0
      BY <3>1 DEF WaitsForAnswer
    <3> QED
      BY <3>2, <3>3 DEF SuccessIsExplained
  <2> QED
    BY <2>1, <2>3, <2>4, <2>5 DEF Inv
<1>3. CASE Receive
  <2>1. Unconnected'
    BY <1>3 DEF Inv, Receive, broker_vars, Unconnected, Broker!ClientSlots
  <2>2. /\ down' \in Seq(Seq(Nat)) /\ Len(down') = Len(down) - 1
        /\ \A i \in 1..Len(down') : down'[i] = down[i + 1]
    BY <1>3, HeadTailProperties DEF Inv, Receive, Answers
  <2>3. Answers'
    <3>1. \A i \in 1..Len(down') : i + 1 \in 1..Len(down)
      BY <2>2 DEF Inv, Answers
    <3> QED
      BY <1>3, <2>2, <3>1 DEF Inv, Receive, Answers
  <2>4. Waiting'
    BY <1>3 DEF Inv, Receive, Waiting
  <2>5. SuccessIsExplained'
    <3>1. CASE IsAnswer(Head(down))
      <4>1. Head(down) = down[1] /\ 1 \in 1..Len(down)
        BY <1>3 DEF Inv, Receive, Answers
      <4>2. stat = "WAIT"
        BY <1>3 DEF Inv, Receive, Waiting
      <4>3. \/ req.type = "CONNECT"
            \/ /\ req.type = "PUBLISH" /\ req.qos = 1
               /\ \E id \in handled : MqttEncode_Num(id) = Reverse(MqttEncode_Num(req.packet_id))
        BY <3>1, <4>1, <4>2, AnswerExplains DEF Inv, Answers
      <4> QED
        BY <1>3, <4>3 DEF Receive, SuccessIsExplained
    <3>2. CASE ~IsAnswer(Head(down))
      BY <1>3, <3>2 DEF Receive, SuccessIsExplained
    <3> QED
      BY <3>1, <3>2
  <2> QED
    BY <2>1, <2>3, <2>4, <2>5 DEF Inv
<1>4. CASE Timeout
  <2>1. Unconnected'
    BY <1>4 DEF Inv, Timeout, broker_vars, Unconnected, Broker!ClientSlots
  <2>2. Answers' /\ Waiting' /\ SuccessIsExplained'
    BY <1>4 DEF Inv, Timeout, Answers, Waiting, SuccessIsExplained
  <2> QED
    BY <2>1, <2>2 DEF Inv
<1>5. CASE Dispatch
  <2>1. Unconnected' /\ Answers'
    BY <1>5, DispatchKeeps
  <2>2. UNCHANGED client_vars /\ handled \subseteq handled'
    BY <1>5 DEF Dispatch
  <2>3. Waiting' /\ SuccessIsExplained'
    BY <2>2 DEF Inv, client_vars, Waiting, SuccessIsExplained
  <2> QED
    BY <2>1, <2>3 DEF Inv
<1>6. CASE SendConnAck
  <2>1. Unconnected'
    BY <1>6 DEF Inv, SendConnAck, Broker!SendConnAck, Unconnected, Broker!ClientSlots,
                Broker!NoReply, Broker!CONN_ACK_OK
  <2>2. ASSUME NEW p \in sent'
        PROVE  Bytes(p) \in Seq(Nat) /\ IsAnAnswer(Bytes(p), handled')
    <3>1. Bytes(p) = encode_conn_ack(reply.session_pres, reply.conn_code)
      BY <1>6, <2>2 DEF SendConnAck, Broker!SendConnAck, Bytes
    <3>2. PICK session : session = reply.session_pres
      OBVIOUS
    <3>3. PICK code \in Nat : code = reply.conn_code
      BY DEF Inv, Unconnected
    <3> QED
      BY <3>1, <3>2, <3>3, ConnAckIsRead DEF IsAnAnswer
  <2>3. Answers'
    BY <1>6, <2>2, AnsweredKeeps DEF Inv, SendConnAck, Answers
  <2>4. Waiting' /\ SuccessIsExplained'
    BY <1>6 DEF Inv, SendConnAck, client_vars, Waiting, SuccessIsExplained
  <2> QED
    BY <2>1, <2>3, <2>4 DEF Inv
<1>7. CASE UNCHANGED cb_vars
  <2>1. Unconnected'
    BY <1>7 DEF Inv, cb_vars, broker_vars, Unconnected, Broker!ClientSlots
  <2>2. Answers' /\ Waiting' /\ SuccessIsExplained'
    BY <1>7 DEF Inv, cb_vars, client_vars, Answers, Waiting, SuccessIsExplained
  <2> QED
    BY <2>1, <2>2 DEF Inv
<1> QED
  BY <1>1, <1>2, <1>3, <1>4, <1>5, <1>6, <1>7 DEF Next

LEMMA AlwaysInv == Spec => []Inv
<1> QED
  BY InitInv, NextInv, PTL DEF Spec

\* Every frame that is under way is read as ReadsRight says: see EveryRequestIsRead.
THEOREM ReadsWhatFitsHolds == Spec => []ReadsWhatFits
<1>1. Inv => ReadsWhatFits
  <2> SUFFICES ASSUME up \in Seq(Requests), NEW i \in DOMAIN up
               PROVE  ReadsRight(up[i])
    BY DEF Inv, Answers, ReadsWhatFits, ReadsRight
  <2>1. up[i] \in Requests
    BY ElementOfSeq
  <2> QED
    BY Zenon, <2>1, EveryRequestIsRead
<1> QED
  BY AlwaysInv, <1>1, PTL

\* A call succeeds for no other reason than the broker gives: not at all for SUBSCRIBE,
\* UNSUBSCRIBE, PINGREQ and QoS 2, and with QoS 1 only by the PUBACK of a handled message whose
\* identifier has its bytes the other way round.
THEOREM SuccessExplained == Spec => []SuccessIsExplained
<1>1. Inv => SuccessIsExplained
  BY DEF Inv
<1> QED
  BY AlwaysInv, <1>1, PTL

\* Once everything on its way is lost, a call made again sends nothing and gets nothing, until the
\* application begins anew: no step of client, link or broker brings an answer back.
THEOREM StrandedForGoodHolds == Spec => StrandedForGood
<1>1. Inv /\ [Next]_cb_vars => [Stranded => Stranded' \/ \E r \in Requests : NewRequest(r)]_cb_vars
  <2> SUFFICES ASSUME Inv, Next, Stranded
               PROVE  Stranded' \/ \E r \in Requests : NewRequest(r)
    BY DEF cb_vars
  <2>1. CASE \E r \in Requests : NewRequest(r)
    BY <2>1
  <2>2. CASE Call
    BY <2>2 DEF Inv, Waiting, Call, Stranded, broker_vars
  <2>3. CASE Receive
    BY <2>3 DEF Receive, Stranded
  <2>4. CASE Timeout
    BY <2>4 DEF Timeout, Stranded, broker_vars
  <2>5. CASE Dispatch
    BY <2>5 DEF Dispatch, Stranded
  <2>6. CASE SendConnAck
    BY <2>6 DEF SendConnAck, Broker!SendConnAck, Stranded
  <2> QED
    BY <2>1, <2>2, <2>3, <2>4, <2>5, <2>6 DEF Next
<1> QED
  BY AlwaysInv, <1>1, PTL DEF Spec, StrandedForGood

-------------------------------------------------------------------------------
(* The broker of TinyBroker inside *)

BrokerProofs == INSTANCE TinyBrokerProofs WITH
  ClientIds <- {r.client_id : r \in {r \in Requests : r.type = "CONNECT"}} \ {<<>>},
  FieldLengths <- 1..32,
  Addrs <- {Peer},
  PacketIds <- {MqttEncode_Num(r.packet_id) : r \in {r \in Requests : r.type = "PUBLISH"}}

\* Sequences over any set: where their elements are, and what joining leaves.
LEMMA Elements ==
  ASSUME NEW S, NEW s \in Seq(S)
  PROVE  \E n \in Nat : /\ Len(s) = n /\ DOMAIN s = 1..n /\ s = [i \in 1..n |-> s[i]]
                        /\ \A i \in 1..n : s[i] \in S
  OBVIOUS

LEMMA FieldsJoined ==
  ASSUME NEW S, NEW e \in S, NEW s \in Seq(S), NEW t \in Seq(S), NEW u \in Seq(S)
  PROVE  <<e>> \o s \o t \o u \in Seq(S)
<1>1. <<e>> \in Seq(S)
  OBVIOUS
<1>2. <<e>> \o s \in Seq(S)
  BY <1>1, ConcatProperties, Zenon
<1>3. (<<e>> \o s) \o t \in Seq(S)
  BY <1>2, ConcatProperties, Zenon
<1> QED
  BY <1>3, ConcatProperties, Zenon

LEMMA Second == ASSUME NEW S, NEW s \in Seq(S), Len(s) > 1 PROVE s[2] \in S
  OBVIOUS

LEMMA ShortText ==
  ASSUME NEW S, NEW s \in Seq(S), Len(s) <= 32
  PROVE  Len(s) \in 0..32 /\ (s # <<>> => Len(s) # 0)
<1>1. Len(s) \in 0..32
  <2>1. Len(s) \in Nat
    OBVIOUS
  <2>2. \A n \in Nat : n <= 32 => n \in 0..32
    OBVIOUS
  <2> QED
    BY Zenon, <2>1, <2>2
<1>2. Len(s) = 0 => s = <<>>
  BY EmptySeq
<1> QED
  BY <1>1, <1>2

LEMMA WithoutZero ==
  ASSUME NEW s \in Seq(0..255), 0 \notin Range(s)
  PROVE  s \in Seq(1..255)
<1>1. PICK n \in Nat : /\ Len(s) = n /\ DOMAIN s = 1..n /\ s = [i \in 1..n |-> s[i]]
                       /\ \A i \in 1..n : s[i] \in 0..255
  BY Zenon, Elements
<1>2. \A i \in 1..n : s[i] \in 0..255
  BY Zenon, <1>1
<1>3. \A i \in 1..n : s[i] # 0
  BY Zenon, <1>1 DEF Range
<1>4. \A i \in 1..n : s[i] \in 1..255
  BY <1>2, <1>3
<1>5. PICK bytes : bytes = 1..255
  OBVIOUS
<1>6. \A i \in 1..n : s[i] \in bytes
  BY Zenon, <1>4, <1>5
<1>7. s = [i \in 1..n |-> s[i]]
  BY <1>1
<1>8. s \in Seq(bytes)
  BY <1>6, <1>7
<1> QED
  BY Zenon, <1>5, <1>8

\* TinyBroker's assumptions on its constants hold of these.
LEMMA BrokerAssumptions ==
  /\ BrokerProofs!MaxSubsTopicAssumption /\ BrokerProofs!MaxConnClientsAssumption
  /\ BrokerProofs!ClientIdsAssumption /\ BrokerProofs!FieldLengthsAssumption
  /\ BrokerProofs!AddrsAssumption
<1>1. BrokerProofs!MaxSubsTopicAssumption /\ BrokerProofs!MaxConnClientsAssumption
  BY TablesAssumption DEF BrokerProofs!MaxSubsTopicAssumption, BrokerProofs!MaxConnClientsAssumption
<1>2. BrokerProofs!FieldLengthsAssumption /\ BrokerProofs!AddrsAssumption
  BY DEF BrokerProofs!FieldLengthsAssumption, BrokerProofs!AddrsAssumption, Peer
<1>3. BrokerProofs!ClientIdsAssumption
  <2>1. \A r \in Requests : r.type = "CONNECT" => r.client_id \in Seq(0..255) /\ 0 \notin Range(r.client_id)
    <3>1. \A r \in Requests : r.type = "CONNECT" => EncodedConnect(r)
      BY Zenon, RequestsAssumption
    <3>2. ASSUME NEW c, EncodedConnect(c) PROVE c.client_id \in Seq(0..255) /\ 0 \notin Range(c.client_id)
      BY <3>2 DEF EncodedConnect
    <3> QED
      BY Zenon, <3>1, <3>2
  <2>2. ASSUME NEW r \in Requests, r.type = "CONNECT" PROVE r.client_id \in Seq(1..255)
    BY <2>1, <2>2, WithoutZero
  <2> QED
    BY <2>2 DEF BrokerProofs!ClientIdsAssumption
<1> QED
  BY <1>1, <1>2, <1>3

\* What TinyBrokerProofs proves, it proves of the same broker: operator by operator.
LEMMA SameInit == Broker!Init => BrokerProofs!Init
  BY Zenon DEF Broker!Init, BrokerProofs!Init, Broker!NoReply, BrokerProofs!NoReply,
               Broker!CONN_ACK_OK, BrokerProofs!CONN_ACK_OK, Broker!ClientSlots,
               BrokerProofs!ClientSlots, Broker!EmptyClient, BrokerProofs!EmptyClient,
               Broker!NOT_FOUND, BrokerProofs!NOT_FOUND, Broker!FirstSlot,
               BrokerProofs!FirstSlot, Broker!EmptyTopicTable, BrokerProofs!EmptyTopicTable,
               Broker!TopicSlots, BrokerProofs!TopicSlots, Broker!FreeTopic,
               BrokerProofs!FreeTopic

LEMMA SameConnect == \A f, a : Broker!Connect(f, a) <=> BrokerProofs!Connect(f, a)
<1>1. \A t, f : Broker!AfterCleanSession(t, f) = BrokerProofs!AfterCleanSession(t, f)
  BY Zenon DEF Broker!AfterCleanSession, BrokerProofs!AfterCleanSession,
               Broker!CleanSessionApplies, BrokerProofs!CleanSessionApplies,
               Broker!is_client_exist, BrokerProofs!is_client_exist,
               Broker!broker_get_client_pos_by_id, BrokerProofs!broker_get_client_pos_by_id,
               Broker!SameId, BrokerProofs!SameId, Broker!broker_remove_client,
               BrokerProofs!broker_remove_client, Broker!ClientSlots, BrokerProofs!ClientSlots,
               Broker!EmptyClient, BrokerProofs!EmptyClient, Broker!NOT_FOUND,
               BrokerProofs!NOT_FOUND, Broker!FirstSlot, BrokerProofs!FirstSlot,
               Broker!EmptyTopicTable, BrokerProofs!EmptyTopicTable, Broker!TopicSlots,
               BrokerProofs!TopicSlots, Broker!FreeTopic, BrokerProofs!FreeTopic
<1>2. \A t, f : Broker!CleanSessionApplies(t, f) = BrokerProofs!CleanSessionApplies(t, f)
  BY Zenon DEF Broker!AfterCleanSession, BrokerProofs!AfterCleanSession,
               Broker!CleanSessionApplies, BrokerProofs!CleanSessionApplies,
               Broker!is_client_exist, BrokerProofs!is_client_exist,
               Broker!broker_get_client_pos_by_id, BrokerProofs!broker_get_client_pos_by_id,
               Broker!SameId, BrokerProofs!SameId, Broker!broker_remove_client,
               BrokerProofs!broker_remove_client, Broker!ClientSlots, BrokerProofs!ClientSlots,
               Broker!EmptyClient, BrokerProofs!EmptyClient, Broker!NOT_FOUND,
               BrokerProofs!NOT_FOUND, Broker!FirstSlot, BrokerProofs!FirstSlot,
               Broker!EmptyTopicTable, BrokerProofs!EmptyTopicTable, Broker!TopicSlots,
               BrokerProofs!TopicSlots, Broker!FreeTopic, BrokerProofs!FreeTopic
<1>3. \A t, f : Broker!broker_validate_conn(t, f) = BrokerProofs!broker_validate_conn(t, f)
  BY Zenon DEF Broker!broker_validate_conn, BrokerProofs!broker_validate_conn,
               Broker!can_broker_accept_next_client, BrokerProofs!can_broker_accept_next_client,
               Broker!FreeClientSlots, BrokerProofs!FreeClientSlots,
               Broker!is_client_authorised, BrokerProofs!is_client_authorised,
               Broker!CONN_ACK_OK, BrokerProofs!CONN_ACK_OK, Broker!CONN_ACK_BAD_PROTO,
               BrokerProofs!CONN_ACK_BAD_PROTO, Broker!CONN_ACK_NOT_AVBL,
               BrokerProofs!CONN_ACK_NOT_AVBL, Broker!CONN_ACK_BAD_AUTH,
               BrokerProofs!CONN_ACK_BAD_AUTH, Broker!PROTO_LEVEL_MQTT311,
               BrokerProofs!PROTO_LEVEL_MQTT311, Broker!ClientSlots, BrokerProofs!ClientSlots,
               Broker!EmptyClient, BrokerProofs!EmptyClient, Broker!NOT_FOUND,
               BrokerProofs!NOT_FOUND, Broker!FirstSlot, BrokerProofs!FirstSlot,
               Broker!EmptyTopicTable, BrokerProofs!EmptyTopicTable, Broker!TopicSlots,
               BrokerProofs!TopicSlots, Broker!FreeTopic, BrokerProofs!FreeTopic
<1>4. \A t, c : Broker!add_client(t, c) = BrokerProofs!add_client(t, c)
  BY Zenon DEF Broker!add_client, BrokerProofs!add_client, Broker!AddClientFaults,
               BrokerProofs!AddClientFaults, Broker!broker_first_free_pos_for_client,
               BrokerProofs!broker_first_free_pos_for_client, Broker!FreeClientSlots,
               BrokerProofs!FreeClientSlots, Broker!ClientSlots, BrokerProofs!ClientSlots,
               Broker!EmptyClient, BrokerProofs!EmptyClient, Broker!NOT_FOUND,
               BrokerProofs!NOT_FOUND, Broker!FirstSlot, BrokerProofs!FirstSlot,
               Broker!EmptyTopicTable, BrokerProofs!EmptyTopicTable, Broker!TopicSlots,
               BrokerProofs!TopicSlots, Broker!FreeTopic, BrokerProofs!FreeTopic
<1>5. \A t : Broker!AddClientFaults(t) = BrokerProofs!AddClientFaults(t)
  BY Zenon DEF Broker!add_client, BrokerProofs!add_client, Broker!AddClientFaults,
               BrokerProofs!AddClientFaults, Broker!broker_first_free_pos_for_client,
               BrokerProofs!broker_first_free_pos_for_client, Broker!FreeClientSlots,
               BrokerProofs!FreeClientSlots, Broker!ClientSlots, BrokerProofs!ClientSlots,
               Broker!EmptyClient, BrokerProofs!EmptyClient, Broker!NOT_FOUND,
               BrokerProofs!NOT_FOUND, Broker!FirstSlot, BrokerProofs!FirstSlot,
               Broker!EmptyTopicTable, BrokerProofs!EmptyTopicTable, Broker!TopicSlots,
               BrokerProofs!TopicSlots, Broker!FreeTopic, BrokerProofs!FreeTopic
<1>6. \A f : Broker!broker_create_new_client(f) = BrokerProofs!broker_create_new_client(f)
  BY Zenon DEF Broker!broker_create_new_client, BrokerProofs!broker_create_new_client,
               Broker!ClientSlots, BrokerProofs!ClientSlots, Broker!EmptyClient,
               BrokerProofs!EmptyClient, Broker!NOT_FOUND, BrokerProofs!NOT_FOUND,
               Broker!FirstSlot, BrokerProofs!FirstSlot, Broker!EmptyTopicTable,
               BrokerProofs!EmptyTopicTable, Broker!TopicSlots, BrokerProofs!TopicSlots,
               Broker!FreeTopic, BrokerProofs!FreeTopic
<1> QED
  BY <1>1, <1>2, <1>3, <1>4, <1>5, <1>6 DEF Broker!Connect, BrokerProofs!Connect

LEMMA SameOthers ==
  /\ \A f, a : Broker!Publish(f, a) => BrokerProofs!Publish(f, a)
  /\ \A f : Broker!PublishFault(f) => BrokerProofs!PublishFault(f)
  /\ \A a : Broker!NullClientFault(a) => BrokerProofs!NullClientFault(a)
  /\ Broker!NoEffect => BrokerProofs!NoEffect
  /\ Broker!SendConnAck => BrokerProofs!SendConnAck
<1>1. \A f, a : Broker!Publish(f, a) => BrokerProofs!Publish(f, a)
  BY Zenon DEF Broker!publish_msg_to_subscribers, BrokerProofs!publish_msg_to_subscribers,
               Broker!ForwardsTo, BrokerProofs!ForwardsTo, Broker!IsPrefix,
               BrokerProofs!IsPrefix, Broker!TopicSlots, BrokerProofs!TopicSlots,
               Broker!ClientSlots, BrokerProofs!ClientSlots, Broker!PubAcks,
               BrokerProofs!PubAcks, Broker!encode_publish_ack, BrokerProofs!encode_publish_ack,
               Broker!Publish, BrokerProofs!Publish
<1>2. \A f : Broker!PublishFault(f) => BrokerProofs!PublishFault(f)
  BY Zenon DEF Broker!publish_msg_to_subscribers, BrokerProofs!publish_msg_to_subscribers,
               Broker!ForwardsTo, BrokerProofs!ForwardsTo, Broker!IsPrefix,
               BrokerProofs!IsPrefix, Broker!TopicSlots, BrokerProofs!TopicSlots,
               Broker!ClientSlots, BrokerProofs!ClientSlots, Broker!PublishFault,
               BrokerProofs!PublishFault
<1>3. \A a : Broker!NullClientFault(a) => BrokerProofs!NullClientFault(a)
  BY Zenon DEF Broker!NullClientFault, BrokerProofs!NullClientFault,
               Broker!broker_get_client_by_socket, BrokerProofs!broker_get_client_by_socket,
               Broker!FirstSlot, BrokerProofs!FirstSlot, Broker!NOT_FOUND,
               BrokerProofs!NOT_FOUND, Broker!ClientSlots, BrokerProofs!ClientSlots
<1>4. Broker!NoEffect => BrokerProofs!NoEffect
  BY Zenon DEF Broker!NoEffect, BrokerProofs!NoEffect
<1>5. Broker!SendConnAck => BrokerProofs!SendConnAck
  BY Zenon DEF Broker!SendConnAck, BrokerProofs!SendConnAck, Broker!NoReply,
               BrokerProofs!NoReply, Broker!CONN_ACK_OK, BrokerProofs!CONN_ACK_OK
<1> QED
  BY <1>1, <1>2, <1>3, <1>4, <1>5

\* What the broker does in a step of this specification.
BrokerStep ==
  \/ \E f \in Broker!ConnectFrames : Broker!Connect(f, Peer)
  \/ Broker!SendConnAck
  \/ \E f \in Broker!PublishFrames : Broker!Publish(f, Peer) \/ Broker!PublishFault(f)
  \/ Broker!NullClientFault(Peer)
  \/ Broker!NoEffect

\* The text behind the client id fits its place in a record.
LEMMA SecondText ==
  ASSUME NEW r \in Requests, r.type = "CONNECT", NEW texts,
         texts = <<r.client_id>> \o r.lwt \o r.username \o r.password, Len(texts) > 1
  PROVE  Len(texts[2]) \in 0..32 /\ (texts[2] # <<>> => Len(texts[2]) # 0)
<1>1. EncodedConnect(r)
  BY Zenon, RequestsAssumption
<1>2. PICK bytes : bytes = 0..255
  OBVIOUS
<1>3. PICK fit : fit = {t \in Seq(bytes) : Len(t) <= 32}
  OBVIOUS
<1>4. \A t \in fit : Len(t) \in 0..32 /\ (t # <<>> => Len(t) # 0)
  <2>1. \A t \in Seq(bytes) : Len(t) <= 32 => Len(t) \in 0..32 /\ (t # <<>> => Len(t) # 0)
    BY Zenon, ShortText
  <2> QED
    BY Zenon, <1>3, <2>1
<1>5. \A l \in Seq(Seq(bytes)) : FieldsFit(l) => l \in Seq(fit)
  <2> TAKE l \in Seq(Seq(bytes))
  <2> HAVE FieldsFit(l)
  <2>1. PICK n \in Nat : Len(l) = n /\ DOMAIN l = 1..n /\ l = [i \in 1..n |-> l[i]]
    OBVIOUS
  <2>2. \A i \in 1..n : l[i] \in Seq(bytes)
    BY <2>1
  <2>3. \A i \in 1..n : l[i] \in fit
    BY Zenon, <1>3, <2>1, <2>2 DEF FieldsFit
  <2> QED
    BY <2>1, <2>3
<1>6. r.lwt \in Seq(fit) /\ r.username \in Seq(fit) /\ r.password \in Seq(fit)
  <2>1. /\ r.lwt \in Seq(Seq(0..255)) /\ FieldsFit(r.lwt)
        /\ r.username \in Seq(Seq(0..255)) /\ FieldsFit(r.username)
        /\ r.password \in Seq(Seq(0..255)) /\ FieldsFit(r.password)
    BY <1>1 DEF EncodedConnect
  <2> QED
    BY Zenon, <1>2, <1>5, <2>1
<1>7. r.client_id \in fit
  <2>1. r.client_id \in Seq(0..255) /\ Len(r.client_id) < 32
    BY <1>1 DEF EncodedConnect
  <2>2. r.client_id \in Seq(bytes)
    BY Zenon, <1>2, <2>1
  <2>3. \A n \in Nat : n < 32 => n <= 32
    OBVIOUS
  <2>4. Len(r.client_id) \in Nat
    BY <2>2
  <2>5. Len(r.client_id) <= 32
    BY Zenon, <2>1, <2>3, <2>4
  <2> QED
    BY Zenon, <1>3, <2>2, <2>5
<1>8. PICK id \in fit, lwt \in Seq(fit), username \in Seq(fit), password \in Seq(fit) :
        texts = <<id>> \o lwt \o username \o password
  BY Zenon, <1>6, <1>7
<1>9. texts \in Seq(fit)
  <2>1. <<id>> \o lwt \o username \o password \in Seq(fit)
    BY Zenon, FieldsJoined
  <2> QED
    BY Zenon, <1>8, <2>1
<1>10. texts[2] \in fit
  BY Zenon, <1>9, Second
<1> QED
  BY Zenon, <1>4, <1>10

\* A CONNECT as decoded is one of the frames TinyBroker knows.
LEMMA ConnectFrameIs ==
  ASSUME NEW r \in Requests, r.type = "CONNECT", NEW d, d = DecodedOf[r]
  PROVE  ConnectFrame(d) \in Broker!ConnectFrames
<1>1. EncodedConnect(r)
  BY RequestsAssumption
<1>2. /\ d.texts = <<r.client_id>> \o r.lwt \o r.username \o r.password
      /\ d.cleans_session = r.clean_session /\ d.proto_level = 4
  BY ConnectIsRead DEF ReadAsWritten
<1>3. d.texts[1] = r.client_id
  <2>1. PICK id \in Seq(Nat) : id = r.client_id
    BY <1>1, TextsAreNumbers DEF EncodedConnect
  <2>2. /\ r.lwt \in Seq(Seq(Nat)) /\ r.username \in Seq(Seq(Nat)) /\ r.password \in Seq(Seq(Nat))
    BY <1>1, ListsOfTexts DEF EncodedConnect
  <2>3. PICK rest \in Seq(Seq(Nat)) : r.lwt \o r.username \o r.password = rest
    BY <2>2, JoinedTexts
  <2>4. PICK one \in Seq(Seq(Nat)) : one = <<id>>
    <3>1. <<id>> \in Seq(Seq(Nat))
      OBVIOUS
    <3> QED
      BY Zenon, <3>1
  <2>5. RegroupsAll(one, r.lwt, r.username, r.password)
    BY Zenon, <2>2, <2>4, RegroupedTexts
  <2>6. (one \o rest)[1] = id
    BY <2>3, <2>4
  <2> QED
    BY Zenon, <1>2, <2>1, <2>3, <2>4, <2>5, <2>6 DEF RegroupsAll
<1>4. d.texts[1] \in ({x.client_id : x \in {x \in Requests : x.type = "CONNECT"}} \ {<<>>}) \cup {<<>>}
  BY <1>3
<1>5. d.cleans_session \in BOOLEAN
  BY <1>1, <1>2 DEF EncodedConnect
<1>6. LengthBehind(d.texts) \in {<<>>} \cup {<<len>> : len \in 1..32}
  <2>1. ASSUME Len(d.texts) > 1 PROVE Len(d.texts[2]) \in 0..32 /\ (d.texts[2] # <<>> => Len(d.texts[2]) # 0)
    BY <1>2, <2>1, SecondText
  <2> QED
    BY <2>1 DEF LengthBehind
<1> QED
  BY <1>2, <1>4, <1>5, <1>6 DEF ConnectFrame, Broker!ConnectFrames, Broker!PROTO_LEVEL_MQTT311

\* What the dispatcher makes of a frame; with nobody connected, a list of topics has no effect.
LEMMA HandledByTheBroker ==
  ASSUME Unconnected, NEW r \in Requests, NEW d, d = DecodedOf[r],
         HandleConnect(r, d) \/ HandlePublish(r, d) \/ HandleSubscribe(r, d)
           \/ HandleUnsubscribe(r, d) \/ HandlePing(r)
  PROVE  BrokerStep
<1>1. CASE HandleConnect(r, d)
  BY Zenon, <1>1, ConnectFrameIs DEF HandleConnect, BrokerStep
<1>2. CASE HandlePublish(r, d)
  <2> DEFINE pub_pck == [name |-> d.name, QoS |-> d.QoS, packet_id |-> d.packet_id]
             f == [name |-> r.topic_name, QoS |-> r.qos, packet_id |-> MqttEncode_Num(r.packet_id)]
  <2>1. r.type = "PUBLISH" /\ (Broker!Publish(pub_pck, Peer) \/ Broker!PublishFault(pub_pck))
    BY <1>2 DEF HandlePublish
  <2>2. d.name = r.topic_name /\ d.QoS = r.qos /\ (r.qos > 0 => d.packet_id = MqttEncode_Num(r.packet_id))
    BY <2>1, PublishIsRead DEF ReadAsWritten
  <2>3. r.topic_name \in Topics /\ r.qos \in 0..2
    BY <2>1, RequestsAssumption DEF EncodedPublish
  <2>4. f \in Broker!PublishFrames
    BY <2>1, <2>3 DEF Broker!PublishFrames
  <2>5. CASE r.qos > 0
    <3>1. pub_pck = f
      BY <2>2, <2>5
    <3> HIDE DEF pub_pck, f
    <3> QED
      BY Zenon, <2>1, <2>4, <3>1 DEF BrokerStep
  <2>6. CASE r.qos = 0
    <3>1. pub_pck.QoS = 0 /\ f.QoS = 0
      BY <2>2, <2>6
    <3> HIDE DEF pub_pck, f
    <3>2. Broker!PubAcks(pub_pck, Peer) = Broker!PubAcks(f, Peer)
      BY <3>1 DEF Broker!PubAcks
    <3>3. Broker!Publish(f, Peer) \/ Broker!PublishFault(f)
      BY <2>1, <3>1, <3>2, NobodyIsFound DEF Broker!Publish, Broker!PublishFault
    <3> QED
      BY Zenon, <2>4, <3>3 DEF BrokerStep
  <2> QED
    BY <2>3, <2>5, <2>6
<1>3. CASE HandleSubscribe(r, d) \/ HandleUnsubscribe(r, d) \/ HandlePing(r)
  <2>1. Broker!NoEffect \/ Broker!NullClientFault(Peer)
    BY <1>3, NobodyIsFound
    DEF HandleSubscribe, HandleUnsubscribe, HandlePing, Broker!Subscribe, Broker!Unsubscribe, Broker!NoEffect
  <2> QED
    BY Zenon, <2>1 DEF BrokerStep
<1> QED
  BY <1>1, <1>2, <1>3

LEMMA NextOfTheBroker == Inv /\ [Next]_cb_vars => BrokerStep \/ UNCHANGED broker_vars
<1> SUFFICES ASSUME Inv, [Next]_cb_vars PROVE BrokerStep \/ UNCHANGED broker_vars
  OBVIOUS
<1>1. CASE Dispatch
  <2>1. PICK r \in Requests : r = Head(up)
    BY <1>1 DEF Inv, Answers, Dispatch
  <2>2. HandleConnect(r, DecodedOf[r]) \/ HandlePublish(r, DecodedOf[r]) \/ HandleSubscribe(r, DecodedOf[r])
          \/ HandleUnsubscribe(r, DecodedOf[r]) \/ HandlePing(r)
    BY <1>1, <2>1 DEF Dispatch
  <2> QED
    BY <2>2, HandledByTheBroker DEF Inv
<1>2. CASE SendConnAck
  BY <1>2 DEF SendConnAck, BrokerStep
<1>3. CASE UNCHANGED broker_vars
  BY <1>3
<1>4. Next => Dispatch \/ SendConnAck \/ UNCHANGED broker_vars
  BY DEF Next, NewRequest, Call, Receive, Timeout
<1> QED
  BY <1>1, <1>2, <1>3, <1>4 DEF cb_vars

LEMMA BrokerSteps == BrokerStep \/ UNCHANGED broker_vars => [BrokerProofs!Next]_(BrokerProofs!vars)
<1>1. Broker!ConnectFrames = BrokerProofs!ConnectFrames
  BY Zenon DEF Broker!ConnectFrames, BrokerProofs!ConnectFrames, Broker!PROTO_LEVEL_MQTT311,
               BrokerProofs!PROTO_LEVEL_MQTT311
<1>2. Broker!PublishFrames = BrokerProofs!PublishFrames
  BY Zenon DEF Broker!PublishFrames, BrokerProofs!PublishFrames
<1>3. BrokerStep => BrokerProofs!Next
  BY <1>1, <1>2, SameConnect, SameOthers DEF BrokerStep, BrokerProofs!Next
<1>4. UNCHANGED broker_vars => UNCHANGED BrokerProofs!vars
  BY DEF broker_vars, BrokerProofs!vars
<1> QED
  BY <1>3, <1>4

LEMMA BrokerKeeps == BrokerProofs!IInv /\ (BrokerStep \/ UNCHANGED broker_vars) => BrokerProofs!IInv'
  BY BrokerSteps, BrokerAssumptions, BrokerProofs!NextIInv

\* The invariant of TinyBrokerProofs, in this specification.
LEMMA BrokerInv == Spec => []BrokerProofs!IInv
<1>1. Init => BrokerProofs!IInv
  BY SameInit, BrokerAssumptions, BrokerProofs!InitIInv DEF Init
<1>2. Inv /\ BrokerProofs!IInv /\ [Next]_cb_vars => BrokerProofs!IInv'
  BY NextOfTheBroker, BrokerKeeps
<1> QED
  BY <1>1, <1>2, AlwaysInv, PTL DEF Spec

LEMMA BrokerTypes == BrokerProofs!IInv => Broker!TypeOK /\ Broker!NothingForwarded
<1> SUFFICES ASSUME BrokerProofs!IInv
             PROVE  Broker!TypeOK /\ Broker!NothingForwarded
  OBVIOUS
<1>1. Broker!ClientSlots = BrokerProofs!ClientSlots /\ Broker!EmptyTopicTable = BrokerProofs!EmptyTopicTable
  BY Zenon DEF Broker!ClientSlots, BrokerProofs!ClientSlots, Broker!EmptyTopicTable, BrokerProofs!EmptyTopicTable,
     Broker!TopicSlots, BrokerProofs!TopicSlots, Broker!FreeTopic, BrokerProofs!FreeTopic
<1>2. Broker!TypeOK
  <2>1. BrokerProofs!TypeOK
    BY DEF BrokerProofs!IInv
  <2> QED
    BY Zenon, <2>1 DEF BrokerProofs!TypeOK, Broker!TypeOK, Broker!ClientType, BrokerProofs!ClientType,
       Broker!PacketType, BrokerProofs!PacketType, Broker!ClientSlots, BrokerProofs!ClientSlots,
       Broker!TopicSlots, BrokerProofs!TopicSlots
<1>3. Broker!NothingForwarded
  BY <1>1 DEF BrokerProofs!IInv, Broker!NothingForwarded, BrokerProofs!TablesEmpty, BrokerProofs!OnlyReplies
<1> QED
  BY <1>2, <1>3

\* Whatever the client asks and the link loses, and however the frames are encoded and read, the
\* broker takes the steps of TinyBroker, and no others: TinyBroker's frames are all there are.
THEOREM BrokerIsTinyBroker == Spec => Broker!Init /\ [][Broker!Next]_broker_vars
<1>1. Init => Broker!Init
  BY DEF Init
<1>2. Inv /\ [Next]_cb_vars => [Broker!Next]_broker_vars
  <2>1. BrokerStep => Broker!Next
    BY DEF BrokerStep, Broker!Next
  <2> QED
    BY <2>1, NextOfTheBroker
<1> QED
  BY <1>1, <1>2, AlwaysInv, PTL DEF Spec

\* So whatever a client asks whose texts fit the broker's records, nothing is ever forwarded
\* or recorded.
THEOREM BrokerTableHolds == Spec => []Broker!NothingForwarded
<1>1. BrokerProofs!IInv => Broker!NothingForwarded
  BY BrokerTypes
<1> QED
  BY <1>1, BrokerInv, PTL

\* And a record is lost only to a clean-session CONNECT by the id it holds, or by that id less
\* its last character, one record to one frame: the frames of the encoder do no more.
THEOREM RecordsHold == Spec => Broker!RecordsAreLostByName
<1> DEFINE lost == {i \in Broker!ClientSlots : clients[i].id # <<>> /\ clients'[i].id # clients[i].id}
           ByName ==
             /\ \A i \in lost : \E f \in Broker!ConnectFrames, a \in {Peer} :
                  /\ Broker!Connect(f, a) /\ f.cleans_session
                  /\ Broker!IsPrefix(f.client_id, clients[i].id) /\ Len(clients[i].id) <= Len(f.client_id) + 1
             /\ \A i, j \in lost : i = j
<1>1. BrokerProofs!IInv /\ (BrokerStep \/ UNCHANGED broker_vars) => ByName
  <2>1. BrokerProofs!IInv /\ (BrokerStep \/ UNCHANGED broker_vars) => BrokerProofs!RecordsLost
    BY BrokerSteps, BrokerAssumptions, BrokerProofs!NextLosesRecords
  <2>2. Broker!ConnectFrames = BrokerProofs!ConnectFrames /\ Broker!ClientSlots = BrokerProofs!ClientSlots
    BY Zenon DEF Broker!ConnectFrames, BrokerProofs!ConnectFrames, Broker!PROTO_LEVEL_MQTT311,
                 BrokerProofs!PROTO_LEVEL_MQTT311, Broker!ClientSlots, BrokerProofs!ClientSlots
  <2>3. lost = BrokerProofs!Lost
    BY Zenon, <2>2 DEF BrokerProofs!Lost
  <2>4. \A s, t : Broker!IsPrefix(s, t) = BrokerProofs!IsPrefix(s, t)
    BY Zenon DEF Broker!IsPrefix, BrokerProofs!IsPrefix
  <2> QED
    BY Zenon, <2>1, <2>2, <2>3, <2>4, SameConnect DEF BrokerProofs!RecordsLost
<1>2. Inv /\ BrokerProofs!IInv /\ [Next]_cb_vars => [ByName]_<<clients, pc, reply, sent>>
  BY <1>1, NextOfTheBroker
<1> QED
  BY <1>2, BrokerInv, AlwaysInv, PTL DEF Spec, Broker!RecordsAreLostByName, Broker!vars

\* No more frames are on their way than the bound allows.
BoundedFlight == Len(up) <= MAX_FLIGHT /\ Len(down) <= MAX_FLIGHT

LEMMA NextBounded == Inv /\ BoundedFlight /\ [Next]_cb_vars => BoundedFlight'
<1> SUFFICES ASSUME up \in Seq(Requests), down \in Seq(Seq(Nat)), BoundedFlight, [Next]_cb_vars
             PROVE  BoundedFlight'
  BY DEF Inv, Answers
<1> USE FlightAssumption
<1>1. up' = up \/ (up # <<>> /\ up' = Tail(up)) \/ (Len(up) < MAX_FLIGHT /\ up' = Append(up, req))
  BY DEF Next, NewRequest, Call, Write, Receive, Timeout, Dispatch, SendConnAck, cb_vars
<1>2. down' = down \/ (down # <<>> /\ down' = Tail(down)) \/ (Len(down) < MAX_FLIGHT /\ \E p : down' = Append(down, p))
  BY DEF Next, NewRequest, Call, Receive, Timeout, Dispatch, SendConnAck, Answered, cb_vars
<1>3. Len(up') <= MAX_FLIGHT
  <2>1. CASE up' = up
    BY <2>1 DEF BoundedFlight
  <2>2. CASE up # <<>> /\ up' = Tail(up)
    BY <2>2, HeadTailProperties DEF BoundedFlight
  <2>3. CASE Len(up) < MAX_FLIGHT /\ up' = Append(up, req)
    BY <2>3
  <2> QED
    BY <1>1, <2>1, <2>2, <2>3
<1>4. Len(down') <= MAX_FLIGHT
  <2>1. CASE down' = down
    BY <2>1 DEF BoundedFlight
  <2>2. CASE down # <<>> /\ down' = Tail(down)
    BY <2>2, HeadTailProperties DEF BoundedFlight
  <2>3. CASE Len(down) < MAX_FLIGHT /\ \E p : down' = Append(down, p)
    BY <2>3
  <2> QED
    BY <1>2, <2>1, <2>2, <2>3
<1> QED
  BY <1>3, <1>4 DEF BoundedFlight

\* The state of client, link and broker keeps its types; a call that runs waits for an answer.
THEOREM TypeCorrect == Spec => []TypeOK
<1>1. Init => BoundedFlight
  BY FlightAssumption DEF Init, BoundedFlight
<1>2. Inv /\ BoundedFlight /\ BrokerProofs!IInv => TypeOK
  <2> SUFFICES ASSUME Inv, BoundedFlight, Broker!TypeOK PROVE TypeOK
    BY BrokerTypes
  <2>1. up \in Seq(Requests) /\ down \in Seq(Seq(Nat))
    BY DEF Inv, Answers
  <2>2. \A i \in DOMAIN up : up[i] \in Requests
    BY <2>1
  <2>3. \A i \in DOMAIN down : FrameType(down[i]) \in {"CONNACK", "PUBACK"}
    <3>1. DOMAIN down = 1..Len(down)
      BY <2>1
    <3>2. \A i \in 1..Len(down) : FrameType(down[i]) = "CONNACK" \/ FrameType(down[i]) = "PUBACK"
      BY Zenon DEF Inv, Answers
    <3> QED
      BY Zenon, <3>1, <3>2
  <2> QED
    BY Zenon, <2>2, <2>3 DEF Inv, Waiting, BoundedFlight, TypeOK
<1> QED
  BY <1>1, <1>2, NextBounded, AlwaysInv, BrokerInv, PTL DEF Spec
=============================================================================
