---------------------------- MODULE Rfm12bProofs ----------------------------
(***************************************************************************)
(* Proofs about Rfm12b for buffers of any bytes and chips of any register  *)
(* and FIFO lengths.                                                       *)
(***************************************************************************)
EXTENDS Rfm12b, SequenceTheorems, TLAPS

Sending == call \in {"sendbuff", "sendbyte"}

\* What is sent with care is sent in transmission, to the end of the call.
SentInTx == Sending /\ ~careless => mode = "tx"

IInv == TypeOK /\ FramesWhole /\ SentInTx

-------------------------------------------------------------------------------
(* Sequences *)

LEMMA TailOf ==
  ASSUME NEW S, NEW s \in Seq(S), s # <<>>
  PROVE  /\ Head(s) \in S /\ Tail(s) \in Seq(S)
         /\ Len(s) \in Nat \ {0} /\ Len(Tail(s)) = Len(s) - 1
         /\ Tail(s) = <<>> <=> Len(s) = 1
<1>1. Head(s) \in S /\ Tail(s) \in Seq(S) /\ Len(Tail(s)) = Len(s) - 1
  BY HeadTailProperties
<1>2. Len(s) \in Nat \ {0} /\ (Tail(s) # <<>> => Len(Tail(s)) \in Nat \ {0}) /\ Len(<<>>) = 0
  BY <1>1, EmptySeq
<1>3. ASSUME Tail(s) = <<>> PROVE Len(s) = 1
  <2>1. Len(Tail(s)) = 0
    BY Zenon, <1>2, <1>3
  <2>2. Len(s) \in Nat
    BY LenProperties
  <2>3. Len(s) - 1 = 0
    BY <1>1, <2>1
  <2> QED
    BY <2>2, <2>3
<1>4. Len(s) = 1 => Tail(s) = <<>>
  BY <1>1, <1>2
<1> QED
  BY <1>1, <1>2, <1>3, <1>4

\* The first byte of the rest goes to the end of what is before it.
LEMMA MoveOne ==
  ASSUME NEW S, NEW s \in Seq(S), NEW t \in Seq(S), t # <<>>
  PROVE  Append(s, Head(t)) \o Tail(t) = s \o t
<1> DEFINE l == Append(s, Head(t)) \o Tail(t)
           r == s \o t
<1>1. /\ Head(t) \in S /\ Tail(t) \in Seq(S) /\ Len(Tail(t)) = Len(t) - 1
      /\ Len(t) \in Nat \ {0} /\ Len(s) \in Nat /\ Head(t) = t[1]
      /\ \A i \in 1 .. Len(t) - 1 : Tail(t)[i] = t[i + 1]
  BY HeadTailProperties, EmptySeq, LenProperties
<1>2. /\ Append(s, Head(t)) \in Seq(S) /\ Len(Append(s, Head(t))) = Len(s) + 1
      /\ \A i \in 1 .. Len(s) : Append(s, Head(t))[i] = s[i]
      /\ Append(s, Head(t))[Len(s) + 1] = t[1]
  BY <1>1, AppendProperties
<1>3. /\ l \in Seq(S) /\ Len(l) = Len(s) + Len(t)
      /\ \A i \in 1 .. Len(s) + Len(t) :
           l[i] = IF i <= Len(s) + 1 THEN Append(s, Head(t))[i] ELSE Tail(t)[i - (Len(s) + 1)]
  BY <1>1, <1>2, ConcatProperties
<1>4. /\ r \in Seq(S) /\ Len(r) = Len(s) + Len(t)
      /\ \A i \in 1 .. Len(s) + Len(t) : r[i] = IF i <= Len(s) THEN s[i] ELSE t[i - Len(s)]
  BY <1>1, ConcatProperties
<1>5. ASSUME NEW i \in 1 .. Len(l) PROVE l[i] = r[i]
  <2>1. CASE i <= Len(s)
    BY <1>1, <1>2, <1>3, <1>4, <2>1
  <2>2. CASE i = Len(s) + 1
    BY <1>1, <1>2, <1>3, <1>4, <2>2
  <2>3. CASE i > Len(s) + 1
    <3>1. i - (Len(s) + 1) \in 1 .. Len(t) - 1 /\ (i - (Len(s) + 1)) + 1 = i - Len(s)
      BY <1>1, <1>3, <2>3
    <3>2. l[i] = Tail(t)[i - (Len(s) + 1)] /\ r[i] = t[i - Len(s)]
      BY <1>1, <1>3, <1>4, <2>3
    <3> QED
      BY <1>1, <3>1, <3>2
  <2> QED
    BY <1>1, <1>3, <2>1, <2>2, <2>3
<1> HIDE DEF l, r
<1>6. l = r
  BY <1>3, <1>4, <1>5, SeqEqual
<1> QED
  BY <1>6 DEF l, r

\* The first byte taken from the front of two sequences.
LEMMA TailOfConcat ==
  ASSUME NEW S, NEW s \in Seq(S), s # <<>>, NEW t \in Seq(S)
  PROVE  Tail(s \o t) = Tail(s) \o t
<1> DEFINE c == s \o t
           l == Tail(c)
           r == Tail(s) \o t
<1>1. /\ Tail(s) \in Seq(S) /\ Len(Tail(s)) = Len(s) - 1
      /\ Len(s) \in Nat \ {0} /\ Len(t) \in Nat
      /\ \A i \in 1 .. Len(s) - 1 : Tail(s)[i] = s[i + 1]
  BY HeadTailProperties, EmptySeq, LenProperties
<1>2. /\ c \in Seq(S) /\ Len(c) = Len(s) + Len(t) /\ c # <<>>
      /\ \A i \in 1 .. Len(s) + Len(t) : c[i] = IF i <= Len(s) THEN s[i] ELSE t[i - Len(s)]
  BY <1>1, ConcatProperties, EmptySeq
<1> HIDE DEF c
<1>3. /\ l \in Seq(S) /\ Len(l) = Len(s) + Len(t) - 1
      /\ \A i \in 1 .. Len(s) + Len(t) - 1 : l[i] = c[i + 1]
  BY <1>1, <1>2, HeadTailProperties
<1>4. /\ r \in Seq(S) /\ Len(r) = Len(s) + Len(t) - 1
      /\ \A i \in 1 .. Len(s) + Len(t) - 1 :
           r[i] = IF i <= Len(s) - 1 THEN Tail(s)[i] ELSE t[i - (Len(s) - 1)]
  BY <1>1, ConcatProperties
<1>5. ASSUME NEW i \in 1 .. Len(l) PROVE l[i] = r[i]
  <2>1. i \in Int /\ 1 <= i /\ i <= Len(s) + Len(t) - 1 /\ i - (Len(s) - 1) = (i + 1) - Len(s)
    BY <1>1, <1>3
  <2>2. l[i] = IF i + 1 <= Len(s) THEN s[i + 1] ELSE t[(i + 1) - Len(s)]
    BY <1>1, <1>2, <1>3, <2>1
  <2>3. r[i] = IF i <= Len(s) - 1 THEN s[i + 1] ELSE t[i - (Len(s) - 1)]
    BY <1>1, <1>4, <2>1
  <2> QED
    BY <1>1, <2>1, <2>2, <2>3
<1> HIDE DEF l, r
<1>6. l = r
  BY <1>3, <1>4, <1>5, SeqEqual
<1> QED
  BY <1>6 DEF l, r, c

LEMMA OnAirIsBytes ==
  ASSUME NEW buff \in Buffers
  PROVE  OnAir(buff) \in Seq(Bytes) /\ OnAir(buff) # <<>>
<1> DEFINE p == <<170, 170, 170, 45, 212>>
<1>1. p \in Seq(Bytes) /\ Len(p) = 5
  BY DEF Bytes
<1>2. buff \in Seq(Bytes) /\ Len(buff) \in Nat
  BY BuffersAssumption DEF Bytes
<1> HIDE DEF p
<1>3. p \o buff \in Seq(Bytes) /\ Len(p \o buff) = Len(p) + Len(buff)
  BY Zenon, <1>1, <1>2, ConcatProperties
<1>4. p \o buff # <<>>
  BY <1>1, <1>2, <1>3, EmptySeq
<1> QED
  BY <1>3, <1>4 DEF OnAir, p

LEMMA PutIsShort ==
  ASSUME tx \in Seq(Bytes), Len(tx) <= TX_LEN, NEW byte \in Bytes
  PROVE  Put(byte) \in Seq(Bytes) /\ Len(Put(byte)) <= TX_LEN
<1>1. Len(tx) \in Nat /\ TX_LEN \in Nat \ {0}
  BY LenProperties, LengthsAssumption
<1>2. CASE Len(tx) < TX_LEN
  <2>1. Append(tx, byte) \in Seq(Bytes) /\ Len(Append(tx, byte)) = Len(tx) + 1
    BY AppendProperties
  <2>2. Len(tx) + 1 <= TX_LEN
    BY <1>1, <1>2
  <2> QED
    BY <1>2, <2>1, <2>2 DEF Put
<1>3. CASE ~(Len(tx) < TX_LEN)
  <2>1. Len(tx) = TX_LEN /\ TX_LEN \in 1 .. Len(tx)
    BY <1>1, <1>3
  <2>2. [tx EXCEPT ![TX_LEN] = byte] \in Seq(Bytes) /\ Len([tx EXCEPT ![TX_LEN] = byte]) = Len(tx)
    BY <2>1, ExceptSeq
  <2> QED
    BY <1>3, <2>1, <2>2 DEF Put
<1> QED
  BY <1>2, <1>3

\* A status with bit 15 is one that came while the chip had something to tell.
LEMMA BitTells ==
  ASSUME NEW status \in Statuses, HasBit15(status)
  PROVE  Bit15
<1> SUFFICES ASSUME ~Bit15 PROVE FALSE
  OBVIOUS
<1>1. status \in {0, 128, 255}
  BY DEF Statuses
<1>2. (status \div 32768) % 2 = 0
  BY <1>1
<1> QED
  BY <1>2 DEF HasBit15

\* In eight bits there is no bit 15.
LEMMA NoBitInByte ==
  ASSUME NEW status \in Statuses
  PROVE  ~HasBit15(RxByte(status))
<1>1. status \in Nat
  BY DEF Statuses
<1>2. status % 256 \in 0..255
  BY <1>1
<1>3. ((status % 256) \div 32768) % 2 = 0
  BY <1>2
<1> QED
  BY <1>3 DEF HasBit15, RxByte

-------------------------------------------------------------------------------
(* The steps *)

\* The written byte moves from `left` to the register, whatever else the step does.
LEMMA WrittenKeepsType ==
  ASSUME TypeOK, Sending, Written
  PROVE  /\ call' \in {"none", "sendbuff", "sendbyte"}
         /\ left' \in Seq(Bytes) /\ (left' # <<>> <=> call' \in {"sendbuff", "sendbyte"})
         /\ tx' \in Seq(Bytes) /\ Len(tx') <= TX_LEN
         /\ left # <<>> /\ Head(left) \in Bytes
<1>1. left \in Seq(Bytes) /\ left # <<>> /\ tx \in Seq(Bytes) /\ Len(tx) <= TX_LEN
  BY DEF TypeOK, Sending, Bytes
<1>2. /\ Head(left) \in Bytes /\ Tail(left) \in Seq(Bytes)
      /\ Tail(left) = <<>> <=> Len(left) = 1
  BY <1>1, TailOf
<1>3. tx' \in Seq(Bytes) /\ Len(tx') <= TX_LEN
  BY <1>1, <1>2, PutIsShort DEF Written
<1>4. left' = Tail(left) /\ call' = IF Len(left) = 1 THEN "none" ELSE call
  BY DEF Written
<1>5. left' # <<>> <=> call' \in {"sendbuff", "sendbyte"}
  BY <1>2, <1>4 DEF Sending
<1> QED
  BY <1>1, <1>2, <1>3, <1>4, <1>5 DEF Sending

LEMMA InitIInv == Init => IInv
<1> SUFFICES ASSUME Init PROVE IInv
  OBVIOUS
<1>1. <<>> \in Seq(Bytes) /\ <<>> \in Seq(Numbers) /\ Len(<<>>) = 0
  BY EmptySeq
<1>2. 0 <= TX_LEN /\ 0 <= FIFO_LEN
  BY LengthsAssumption
<1>3. TypeOK
  <2>1. Len(tx) <= TX_LEN /\ Len(fifo) <= FIFO_LEN
    <3>1. Len(tx) = 0 /\ Len(fifo) = 0
      BY Zenon, <1>1 DEF Init
    <3> QED
      BY <1>2, <3>1
  <2>2. coming \in Numbers /\ want \in Numbers /\ got \in Numbers \cup {NoByte}
    BY DEF Init, Numbers
  <2> QED
    BY Zenon, <1>1, <2>1, <2>2 DEF Init, TypeOK
<1>4. tx \o left = due
  BY <1>1, ConcatEmptySeq DEF Init
<1> QED
  BY <1>3, <1>4 DEF Init, IInv, FramesWhole, SentInTx, Sending

\* Type correctness and care for the steps that do not change the sequences.
LEMMA ShiftStep == ASSUME IInv, Shift PROVE IInv'
<1>1. tx \in Seq(Bytes) /\ left \in Seq(Bytes) /\ due \in Seq(Bytes) /\ tx # <<>> /\ Len(tx) <= TX_LEN
  BY DEF IInv, TypeOK, Shift
<1>2. tx' \in Seq(Bytes) /\ Len(tx') <= TX_LEN
  <2>1. Len(tx) \in Nat \ {0} /\ tx' \in Seq(Bytes) /\ Len(tx') = Len(tx) - 1
    BY <1>1, TailOf DEF Shift
  <2> QED
    BY <1>1, <2>1, LengthsAssumption
<1>3. ~careless => due # <<>> /\ tx' \o left' = due'
  <2> SUFFICES ASSUME ~careless PROVE due # <<>> /\ tx' \o left' = due'
    OBVIOUS
  <2>1. due = tx \o left
    BY DEF IInv, FramesWhole
  <2>2. Tail(tx \o left) = Tail(tx) \o left
    BY <1>1, TailOfConcat
  <2>3. tx \o left # <<>>
    BY <1>1, ConcatEqualIffEmpty
  <2> QED
    BY <2>1, <2>2, <2>3 DEF Shift
<1>4. due' \in Seq(Bytes)
  BY <1>1, <1>3, TailOf DEF Shift
<1>5. TypeOK'
  BY <1>2, <1>4 DEF IInv, TypeOK, Shift, rx_history
<1> QED
  BY <1>3, <1>5 DEF IInv, FramesWhole, SentInTx, Sending, Shift

LEMMA ArriveStep == ASSUME IInv, Arrive PROVE IInv'
<1>1. fifo \in Seq(Numbers) /\ Len(fifo) <= FIFO_LEN /\ coming \in Numbers
  BY DEF IInv, TypeOK
<1>2. After(coming) \in Numbers
  BY <1>1 DEF After, Numbers
<1>3. fifo' \in Seq(Numbers) /\ Len(fifo') <= FIFO_LEN
  <2>1. CASE Len(fifo) < FIFO_LEN
    <3>1. fifo' \in Seq(Numbers) /\ Len(fifo') = Len(fifo) + 1 /\ Len(fifo) \in Nat
      BY <1>1, <2>1, AppendProperties, LenProperties DEF Arrive
    <3> QED
      BY <2>1, <3>1, LengthsAssumption
  <2>2. CASE ~(Len(fifo) < FIFO_LEN)
    BY <1>1, <2>2 DEF Arrive
  <2> QED
    BY <2>1, <2>2
<1>4. TypeOK'
  BY <1>2, <1>3 DEF IInv, TypeOK, Arrive, tx_history
<1> QED
  BY <1>4 DEF IInv, FramesWhole, SentInTx, Sending, Arrive, tx_history

LEMMA BeginStep ==
  ASSUME IInv,
         NEW function \in {"sendbuff", "sendbyte"},
         NEW bytes \in Seq(Bytes), bytes # <<>>,
         Begin(function, bytes)
  PROVE  IInv'
<1>1. left = <<>> /\ tx \in Seq(Bytes) /\ due \in Seq(Bytes)
  BY DEF IInv, TypeOK, Begin, Idle
<1>2. <<>> \in Seq(Bytes) /\ <<>> \o bytes = bytes /\ due \o bytes \in Seq(Bytes)
  BY <1>1, EmptySeq, ConcatEmptySeq, ConcatProperties
<1>3. due' \in Seq(Bytes)
  BY <1>1, <1>2 DEF Begin
<1>4. TypeOK'
  BY <1>3 DEF IInv, TypeOK, Begin, chip_vars, rx_history
<1>5. Clean => tx' \o left' = due'
  <2>1. CASE careless
    BY <1>1, <1>2, <2>1 DEF Begin, Clean, chip_vars
  <2>2. CASE ~careless
    <3>1. tx \o left = tx
      BY <1>1, ConcatEmptySeq
    <3>2. due = tx
      BY <2>2, <3>1 DEF IInv, FramesWhole
    <3> QED
      BY <2>2, <3>2 DEF Begin, chip_vars
  <2> QED
    BY <2>1, <2>2
<1> QED
  BY <1>4, <1>5 DEF IInv, FramesWhole, SentInTx, Sending, Begin, Clean, chip_vars

\* A byte written while there is room for it, or without care.
LEMMA WriteStep ==
  ASSUME IInv, Sending, Written, careless' \in BOOLEAN, due' \in Seq(Bytes),
         ~careless' => ~careless /\ Bit15 /\ due' = due
  PROVE  IInv'
<1>1. /\ call' \in {"none", "sendbuff", "sendbyte"}
      /\ left' \in Seq(Bytes) /\ (left' # <<>> <=> call' \in {"sendbuff", "sendbyte"})
      /\ tx' \in Seq(Bytes) /\ Len(tx') <= TX_LEN
      /\ left # <<>>
  BY WrittenKeepsType DEF IInv
<1>2. TypeOK'
  BY <1>1 DEF IInv, TypeOK, Written, rx_history
<1>3. ~careless' => tx' \o left' = due'
  <2> SUFFICES ASSUME ~careless' PROVE tx' \o left' = due'
    OBVIOUS
  <2>1. mode = "tx" /\ Len(tx) < TX_LEN
    BY DEF IInv, SentInTx, Bit15
  <2>2. tx' = Append(tx, Head(left)) /\ left' = Tail(left)
    BY <2>1 DEF Written, Put
  <2>3. tx \o left = due /\ due' = due
    BY DEF IInv, FramesWhole
  <2>4. tx \in Seq(Bytes) /\ left \in Seq(Bytes)
    BY DEF IInv, TypeOK
  <2> QED
    BY <1>1, <2>2, <2>3, <2>4, MoveOne
<1>4. SentInTx'
  BY DEF IInv, SentInTx, Sending, Written
<1> QED
  BY <1>2, <1>3, <1>4 DEF IInv, FramesWhole

\* The driver leaves transmission between its calls.
LEMMA SwitchStep ==
  ASSUME IInv, call = "none", NEW m \in {"off", "rx"}, Switch(m), UNCHANGED <<call, left>>,
         fifo' \in Seq(Numbers), Len(fifo') <= FIFO_LEN, filling' \in BOOLEAN,
         got' \in Numbers \cup {NoByte},
         coming' \in Numbers, want' \in Numbers, waited' \in BOOLEAN, gap' \in BOOLEAN
  PROVE  IInv'
<1>1. left = <<>> /\ tx \in Seq(Bytes) /\ due \in Seq(Bytes)
  BY DEF IInv, TypeOK
<1>2. <<>> \in Seq(Bytes) /\ Len(<<>>) = 0 /\ 0 <= TX_LEN
  BY EmptySeq, LengthsAssumption
<1>3. TypeOK'
  <2>1. due' \in Seq(Bytes) /\ careless' \in BOOLEAN
    BY <1>1, <1>2 DEF Switch, IInv, TypeOK
  <2> QED
    BY <1>2, <2>1 DEF IInv, TypeOK, Switch
<1>4. ~careless' => tx' \o left' = due'
  <2> SUFFICES ASSUME ~careless' PROVE tx' \o left' = due'
    OBVIOUS
  <2>1. tx = <<>> /\ ~careless /\ due' = due
    BY DEF Switch
  <2> QED
    BY <1>1, <2>1 DEF Switch, IInv, FramesWhole
<1> QED
  BY <1>3, <1>4 DEF IInv, FramesWhole, SentInTx, Sending

LEMMA NextIInv == IInv /\ [Next]_vars => IInv'
<1> SUFFICES ASSUME IInv, [Next]_vars PROVE IInv'
  OBVIOUS
<1> USE DEF IInv
<1>t. TypeOK
  OBVIOUS
<1>1. CASE Shift
  BY <1>1, ShiftStep
<1>2. CASE Arrive
  BY <1>2, ArriveStep
<1>3. CASE rfSend
  <2>1. Sending /\ Written /\ Bit15
    BY <1>3, BitTells DEF rfSend, Sending
  <2>2. careless' = careless /\ due' = due
    BY <1>3 DEF rfSend, tx_history
  <2> QED
    BY <2>1, <2>2, WriteStep DEF TypeOK
<1>4. CASE SendByteWritten
  <2>1. /\ Sending /\ Written
        /\ careless' = (careless \/ ~Bit15)
        /\ due' = IF careless' THEN <<>> ELSE due
    BY <1>4 DEF SendByteWritten, Sending
  <2>2. careless' \in BOOLEAN /\ due' \in Seq(Bytes)
    BY <2>1, EmptySeq DEF TypeOK
  <2> QED
    BY <2>1, <2>2, WriteStep
<1>5. CASE WaitEnds
  <2>1. TypeOK'
    BY <1>5 DEF WaitEnds, TypeOK, chip_vars, tx_history
  <2> QED
    BY <1>5, <2>1 DEF WaitEnds, FramesWhole, SentInTx, Sending, chip_vars, tx_history
<1>6. CASE RecvPolls
  <2>1. TypeOK'
    BY <1>6 DEF RecvPolls, TypeOK, chip_vars, tx_history, rx_history
  <2> QED
    BY <1>6, <2>1 DEF RecvPolls, FramesWhole, SentInTx, Sending, chip_vars, tx_history
<1>7. CASE Rfm12bInit
  <2>1. <<>> \in Seq(Numbers) /\ Len(<<>>) = 0 /\ 0 <= FIFO_LEN
    BY EmptySeq, LengthsAssumption
  <2>2. call = "none" /\ Switch("off")
    BY <1>7 DEF Rfm12bInit
  <2>3. fifo' = <<>> /\ filling' = FALSE /\ UNCHANGED <<call, left>> /\ got' = got
    BY <1>7 DEF Rfm12bInit
  <2>4. coming' = coming /\ want' = coming /\ waited' = FALSE /\ gap' = FALSE
    BY <1>7 DEF Rfm12bInit
  <2> QED
    BY <2>1, <2>2, <2>3, <2>4, SwitchStep DEF TypeOK
<1>8. CASE Rfm12bSendBuff
  <2>1. PICK buff \in Buffers : Begin("sendbuff", OnAir(buff))
    BY <1>8 DEF Rfm12bSendBuff
  <2> QED
    BY <2>1, OnAirIsBytes, BeginStep
<1>9. CASE Rfm12bSendByte
  <2>1. Begin("sendbyte", <<1>>)
    BY <1>9 DEF Rfm12bSendByte
  <2>2. <<1>> \in Seq(Bytes) /\ <<1>> # <<>>
    BY DEF Bytes
  <2> QED
    BY <2>1, <2>2, BeginStep
<1>10. CASE rfm12bSwitchTx
  <2>1. TypeOK'
    BY <1>10 DEF rfm12bSwitchTx, TypeOK, tx_history, rx_history
  <2> QED
    BY <1>10, <2>1 DEF rfm12bSwitchTx, Idle, FramesWhole, SentInTx, Sending, tx_history
<1>11. CASE rfm12bSwitchRx
  <2>1. call = "none" /\ Switch("rx") /\ UNCHANGED <<call, left, fifo, filling, got, rx_history>>
    BY <1>11 DEF rfm12bSwitchRx, Idle
  <2> QED
    BY <2>1, SwitchStep DEF TypeOK, rx_history
<1>12. CASE rfm12bFifoReset
  <2>1. <<>> \in Seq(Numbers) /\ Len(<<>>) = 0 /\ 0 <= FIFO_LEN
    BY EmptySeq, LengthsAssumption
  <2>2. fifo' \in Seq(Numbers) /\ Len(fifo') <= FIFO_LEN
    BY <1>12, <2>1 DEF rfm12bFifoReset
  <2>3. TypeOK'
    BY <1>12, <2>2 DEF rfm12bFifoReset, TypeOK, tx_history
  <2> QED
    BY <1>12, <2>3 DEF rfm12bFifoReset, FramesWhole, SentInTx, Sending, tx_history
<1>13. CASE rfm12bReadFifo
  <2>1. fifo \in Seq(Numbers) /\ Len(fifo) <= FIFO_LEN /\ want \in Numbers
    BY DEF TypeOK
  <2>2. After(want) \in Numbers
    BY <2>1 DEF After, Numbers
  <2>3. CASE fifo = <<>>
    <3>1. TypeOK'
      BY <1>13, <2>1, <2>2, <2>3 DEF rfm12bReadFifo, TypeOK, tx_history
    <3> QED
      BY <1>13, <3>1 DEF rfm12bReadFifo, FramesWhole, SentInTx, Sending, tx_history
  <2>4. CASE fifo # <<>>
    <3>1. /\ Head(fifo) \in Numbers /\ Tail(fifo) \in Seq(Numbers)
          /\ Len(fifo) \in Nat \ {0} /\ Len(Tail(fifo)) = Len(fifo) - 1
      BY <2>1, <2>4, TailOf
    <3>2. Len(Tail(fifo)) <= FIFO_LEN
      BY <2>1, <3>1, LengthsAssumption
    <3>3. TypeOK'
      BY <1>13, <2>2, <2>4, <3>1, <3>2 DEF rfm12bReadFifo, TypeOK, tx_history
    <3> QED
      BY <1>13, <3>3 DEF rfm12bReadFifo, FramesWhole, SentInTx, Sending, tx_history
  <2> QED
    BY <2>3, <2>4
<1>14. CASE rfm12bWaitForData
  <2>1. TypeOK'
    BY <1>14 DEF rfm12bWaitForData, Idle, TypeOK, chip_vars, tx_history, rx_history
  <2> QED
    BY <1>14, <2>1 DEF rfm12bWaitForData, FramesWhole, SentInTx, Sending, chip_vars, tx_history
<1>15. CASE rfm12bRecv
  <2>1. TypeOK'
    BY <1>15 DEF rfm12bRecv, Idle, TypeOK, chip_vars, tx_history, rx_history
  <2> QED
    BY <1>15, <2>1 DEF rfm12bRecv, FramesWhole, SentInTx, Sending, chip_vars, tx_history
<1>16. CASE UNCHANGED vars
  BY <1>16 DEF vars, TypeOK, FramesWhole, SentInTx, Sending, chip_vars, tx_history, rx_history
<1> QED
  BY <1>1, <1>2, <1>3, <1>4, <1>5, <1>6, <1>7, <1>8, <1>9, <1>10, <1>11, <1>12, <1>13, <1>14,
     <1>15, <1>16 DEF Next, Driver, Calls

-------------------------------------------------------------------------------
(* The order of what is received *)

\* The bytes in the FIFO are numbered one after the other, from the one the next read should
\* return to the last one received.
Numbered ==
  ~gap => IF fifo = <<>> THEN coming = want
          ELSE /\ fifo[1] = want
               /\ \A i \in 1 .. Len(fifo) - 1 : fifo[i + 1] = After(fifo[i])
               /\ coming = After(fifo[Len(fifo)])

\* A byte rfm12bWaitForData told of is still there.
AwaitedIsThere == waited => fifo # <<>>

InOrder == Numbered /\ AwaitedIsThere

LEMMA ArriveInOrder == ASSUME TypeOK, InOrder, Arrive PROVE InOrder'
<1>1. fifo \in Seq(Numbers) /\ Len(fifo) \in Nat /\ FIFO_LEN \in Nat /\ coming \in Numbers
  BY LenProperties, LengthsAssumption DEF TypeOK
<1>2. CASE Len(fifo) < FIFO_LEN
  <2>1. fifo' = Append(fifo, coming) /\ coming' = After(coming) /\ gap' = gap /\ UNCHANGED <<want, waited>>
    BY <1>1, <1>2 DEF Arrive, TypeOK
  <2>2. /\ fifo' # <<>> /\ Len(fifo') = Len(fifo) + 1 /\ fifo'[Len(fifo) + 1] = coming
        /\ \A i \in 1 .. Len(fifo) : fifo'[i] = fifo[i]
    BY <1>1, <2>1, AppendProperties
  <2>3. Numbered'
    <3> SUFFICES ASSUME ~gap
                 PROVE  /\ fifo'[1] = want
                        /\ \A i \in 1 .. Len(fifo) : fifo'[i + 1] = After(fifo'[i])
                        /\ After(coming) = After(fifo'[Len(fifo) + 1])
      BY <1>1, <2>1, <2>2 DEF Numbered
    <3>1. CASE fifo = <<>>
      BY <2>2, <3>1, EmptySeq DEF InOrder, Numbered
    <3>2. CASE fifo # <<>>
      <4>1. Len(fifo) \in Nat \ {0}
        BY <1>1, <3>2, EmptySeq
      <4>2. /\ fifo[1] = want /\ coming = After(fifo[Len(fifo)])
            /\ \A i \in 1 .. Len(fifo) - 1 : fifo[i + 1] = After(fifo[i])
        BY <3>2 DEF InOrder, Numbered
      <4>3. ASSUME NEW i \in 1 .. Len(fifo) PROVE fifo'[i + 1] = After(fifo'[i])
        <5>1. CASE i = Len(fifo)
          BY <2>2, <4>2, <5>1
        <5>2. CASE i # Len(fifo)
          <6>1. i \in 1 .. Len(fifo) - 1 /\ i + 1 \in 1 .. Len(fifo)
            BY <4>1, <5>2
          <6> QED
            BY <2>2, <4>2, <6>1
        <5> QED
          BY <5>1, <5>2
      <4> QED
        BY <2>2, <4>1, <4>2, <4>3
    <3> QED
      BY <3>1, <3>2
  <2> QED
    BY <2>2, <2>3 DEF InOrder, AwaitedIsThere
<1>3. CASE ~(Len(fifo) < FIFO_LEN)
  <2>1. Len(fifo) = FIFO_LEN
    BY <1>1, <1>3 DEF TypeOK
  <2>2. gap' /\ fifo' = fifo /\ waited' = waited
    BY <2>1, <1>3 DEF Arrive
  <2> QED
    BY <2>2 DEF InOrder, Numbered, AwaitedIsThere
<1> QED
  BY <1>2, <1>3

LEMMA ReadInOrder == ASSUME TypeOK, InOrder, rfm12bReadFifo PROVE InOrder'
<1>1. /\ want' = After(want) /\ waited' = FALSE /\ gap' = (gap \/ ~waited) /\ coming' = coming
      /\ fifo' = IF fifo = <<>> THEN fifo ELSE Tail(fifo)
  BY DEF rfm12bReadFifo
<1>2. ASSUME ~gap' PROVE Numbered'
  <2>1. ~gap /\ fifo # <<>> /\ fifo' = Tail(fifo)
    BY <1>1, <1>2 DEF InOrder, AwaitedIsThere
  <2>2. fifo \in Seq(Numbers) /\ Len(fifo) \in Nat \ {0}
    BY <2>1, EmptySeq, LenProperties DEF TypeOK
  <2>3. /\ Len(fifo') = Len(fifo) - 1 /\ (fifo' = <<>> <=> Len(fifo) = 1)
        /\ \A i \in 1 .. Len(fifo) - 1 : fifo'[i] = fifo[i + 1]
    BY <2>1, <2>2, TailOf, HeadTailProperties
  <2>4. /\ fifo[1] = want /\ coming = After(fifo[Len(fifo)])
        /\ \A i \in 1 .. Len(fifo) - 1 : fifo[i + 1] = After(fifo[i])
    BY <2>1 DEF InOrder, Numbered
  <2>5. CASE fifo' = <<>>
    BY <1>1, <2>3, <2>4, <2>5 DEF Numbered
  <2>6. CASE fifo' # <<>>
    <3>1. Len(fifo) - 1 \in Nat \ {0}
      BY <2>2, <2>3, <2>6
    <3>2. fifo'[1] = want'
      BY <1>1, <2>3, <2>4, <3>1
    <3>3. ASSUME NEW i \in 1 .. Len(fifo') - 1 PROVE fifo'[i + 1] = After(fifo'[i])
      <4>1. i \in 1 .. Len(fifo) - 1 /\ i + 1 \in 1 .. Len(fifo) - 1
        BY <2>2, <2>3
      <4> QED
        BY <2>3, <2>4, <4>1
    <3>4. coming' = After(fifo'[Len(fifo')])
      BY <1>1, <2>2, <2>3, <2>4, <3>1
    <3> QED
      BY <2>6, <3>2, <3>3, <3>4 DEF Numbered
  <2> QED
    BY <2>5, <2>6
<1> QED
  BY <1>1, <1>2 DEF InOrder, Numbered, AwaitedIsThere

LEMMA NextInOrder == TypeOK /\ InOrder /\ [Next]_vars => InOrder'
<1> SUFFICES ASSUME TypeOK, InOrder, [Next]_vars PROVE InOrder'
  OBVIOUS
<1>1. CASE Arrive
  BY <1>1, ArriveInOrder
<1>2. CASE rfm12bReadFifo
  BY <1>2, ReadInOrder
<1>3. CASE Rfm12bInit \/ rfm12bFifoReset
  BY <1>3 DEF Rfm12bInit, rfm12bFifoReset, InOrder, Numbered, AwaitedIsThere
<1>4. CASE WaitEnds
  <2>1. Bit15 /\ waited' = (mode = "rx") /\ UNCHANGED <<fifo, coming, want, gap>>
    BY <1>4, BitTells DEF WaitEnds, chip_vars
  <2>2. AwaitedIsThere'
    BY <2>1 DEF AwaitedIsThere, Bit15
  <2> QED
    BY <2>1, <2>2 DEF InOrder, Numbered
<1>5. ASSUME UNCHANGED <<fifo, rx_history>> PROVE InOrder'
  BY <1>5 DEF rx_history, InOrder, Numbered, AwaitedIsThere
<1>6. CASE Shift \/ rfSend \/ SendByteWritten \/ RecvPolls
  BY <1>5, <1>6 DEF Shift, rfSend, SendByteWritten, Written, RecvPolls, chip_vars
<1>7. CASE Rfm12bSendBuff \/ Rfm12bSendByte \/ rfm12bSwitchTx \/ rfm12bSwitchRx
             \/ rfm12bWaitForData \/ rfm12bRecv
  BY <1>5, <1>7 DEF Rfm12bSendBuff, Rfm12bSendByte, Begin, rfm12bSwitchTx, rfm12bSwitchRx,
       rfm12bWaitForData, rfm12bRecv, chip_vars
<1>8. CASE UNCHANGED vars
  BY <1>5, <1>8 DEF vars, chip_vars
<1> QED
  BY <1>1, <1>2, <1>3, <1>4, <1>6, <1>7, <1>8 DEF Next, Driver, Calls

-------------------------------------------------------------------------------
(* Theorems *)

\* The type invariant, for any buffers and lengths.
THEOREM TypeIsSafe == Spec => []TypeOK
<1>1. IInv => TypeOK
  BY DEF IInv
<1> QED
  BY <1>1, InitIInv, NextIInv, PTL DEF Spec

\* rfSend and Rfm12bSendBuff put every frame on the air whole, unless the caller spoils it.
THEOREM FramesAreWhole == Spec => []FramesWhole
<1>1. IInv => FramesWhole
  BY DEF IInv
<1> QED
  BY <1>1, InitIInv, NextIInv, PTL DEF Spec

\* The bit rfm12bRecv tests is never in its rxByte: whoever calls it is never heard of again.
THEOREM RecvNeverReturns == Spec => RecvIsForGood
<1>1. ASSUME [Next]_vars, call = "recv" PROVE call' = "recv" /\ got' = got
  <2>1. CASE Shift
    BY <1>1, <2>1 DEF Shift
  <2>2. CASE Arrive
    BY <1>1, <2>2 DEF Arrive
  <2>3. CASE RecvPolls
    BY <1>1, <2>3, NoBitInByte DEF RecvPolls
  <2>4. CASE UNCHANGED vars
    BY <1>1, <2>4 DEF vars
  <2>5. CASE rfSend \/ SendByteWritten \/ WaitEnds \/ Calls
    BY <1>1, <2>5 DEF rfSend, SendByteWritten, WaitEnds, Calls, Rfm12bInit, Rfm12bSendBuff,
         Rfm12bSendByte, Begin, rfm12bSwitchTx, rfm12bSwitchRx, rfm12bFifoReset, rfm12bReadFifo,
         rfm12bWaitForData, rfm12bRecv, Idle
  <2> QED
    BY <1>1, <2>1, <2>2, <2>3, <2>4, <2>5 DEF Next, Driver
<1> QED
  BY <1>1, PTL DEF Spec, RecvIsForGood
\* Bytes read after rfm12bWaitForData come in the order they were received, from the reset of
\* the FIFO on, for a FIFO of any length, unless one was lost or read unawaited.
THEOREM ReadsAreInOrder == Spec => ReadsInOrder
<1>1. Init => InOrder
  BY DEF Init, InOrder, Numbered, AwaitedIsThere
<1>2. TypeOK /\ InOrder => [rfm12bReadFifo /\ waited /\ ~gap => got' = want]_vars
  <2> SUFFICES ASSUME TypeOK, InOrder, rfm12bReadFifo, waited, ~gap PROVE got' = want
    OBVIOUS
  <2>1. fifo # <<>> /\ fifo[1] = want
    BY DEF InOrder, Numbered, AwaitedIsThere
  <2>2. Head(fifo) = fifo[1]
    BY <2>1, HeadTailProperties DEF TypeOK
  <2> QED
    BY <2>1, <2>2 DEF rfm12bReadFifo
<1> QED
  BY <1>1, <1>2, TypeIsSafe, NextInOrder, PTL DEF Spec, ReadsInOrder

=============================================================================
