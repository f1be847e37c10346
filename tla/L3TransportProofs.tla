--------------------------- MODULE L3TransportProofs ---------------------------
(***************************************************************************)
(* Proofs about L3Transport, for any senders, packets and sizes.           *)
(***************************************************************************)
EXTENDS L3Transport, TLAPS

\* Arithmetic of the frames, for a frame size D, a frame number n and a length l.
LEMMA FrameStartsInside ==
  ASSUME NEW D \in Nat \ {0}, NEW l \in Nat, NEW n \in Nat, n < (l + (D - 1)) \div D
  PROVE  D * n < l
<1> DEFINE q == (l + (D - 1)) \div D
<1>1. q \in Int /\ D * q <= l + (D - 1)
  OBVIOUS
<1>2. D * (n + 1) <= D * q
  <2>1. n + 1 <= q
    BY <1>1
  <2> HIDE DEF q
  <2> QED  BY <1>1, <2>1
<1>3. D * (n + 1) = D * n + D
  OBVIOUS
<1> HIDE DEF q
<1> QED  BY <1>1, <1>2, <1>3

LEMMA SizesType ==
  /\ L2_DATA_SIZE \in Nat \ {0}
  /\ LOCAL_BUFF_SIZE \in Nat \ {0}
  /\ BuffBytes = 0 .. LOCAL_BUFF_SIZE - 1
  BY SizesAssumption DEF BuffBytes

LEMMA TotalFramesType ==
  ASSUME NEW p \in Packets  PROVE  TotalFrames(p) \in Nat /\ PacketLen[p] \in 0..255
<1>1. PacketLen[p] \in 0..255
  BY PacketLenAssumption
<1>2. ASSUME NEW D \in Nat \ {0}, NEW l \in Nat  PROVE (l + (D - 1)) \div D \in Nat
  OBVIOUS
<1>3. L2_DATA_SIZE \in Nat \ {0}
  BY SizesAssumption
<1>4. (PacketLen[p] + (L2_DATA_SIZE - 1)) \div L2_DATA_SIZE \in Nat
  <2>1. PacketLen[p] \in Nat
    BY <1>1
  <2> QED  BY <2>1, <1>2, <1>3
<1> QED  BY <1>1, <1>4 DEF TotalFrames

LEMMA SamePlaceSameFrame ==
  ASSUME NEW D \in Nat \ {0}, NEW m \in Nat, NEW n \in Nat,
         D * m <= D * n, D * n <= D * m + (D - 1)
  PROVE  m = n
<1>1. ASSUME m < n  PROVE FALSE
  <2>1. D * (m + 1) <= D * n
    BY <1>1
  <2>2. D * (m + 1) = D * m + D
    OBVIOUS
  <2> QED  BY <2>1, <2>2
<1>2. ASSUME n < m  PROVE FALSE
  <2>1. D * (n + 1) <= D * m
    BY <1>2
  <2>2. D * (n + 1) = D * n + D
    OBVIOUS
  <2> QED  BY <2>1, <2>2
<1> QED  BY <1>1, <1>2

LEMMA BeyondIsLate ==
  ASSUME NEW D \in Nat \ {0}, NEW B \in Nat, NEW n \in Nat, D * n + (D - 1) >= B
  PROVE  n + 1 > B \div D
<1> DEFINE q == B \div D
<1>1. q \in Int /\ D * q <= B
  OBVIOUS
<1> HIDE DEF q
<1>2. D * (n + 1) = D * n + D
  OBVIOUS
<1>3. ASSUME n + 1 <= q  PROVE FALSE
  <2>1. D * (n + 1) <= D * q
    BY <1>1, <1>3
  <2> QED  BY <1>1, <1>2, <2>1
<1>4. n + 1 > q
  BY <1>1, <1>3
<1> QED  BY <1>4 DEF q
-------------------------------------------------------------------------------

\* A frame that the receiver's chip waits to acknowledge is still in its sender's FIFO.
LastIsKept == \A s \in Senders : last = s => txFifo[s] # <<>>

\* Every byte of a packet found in localBuff is in its place and was in a frame heard
\* since the last first frame.
BytesHeard ==
  pc = "running" =>
    \A p \in Packets, j \in Nat, k \in BuffBytes :
      localBuff[k] = <<p, j>> =>
        j = k /\ \E f \in heard : f.pkt = p /\ k \in FramePlaces(f)

\* The inductive invariant.
IInv ==
  /\ TypeOK
  /\ LastIsKept
  /\ BytesHeard
  /\ OverrunOnlyByLong

LEMMA FrameType ==
  ASSUME NEW f \in Frames
  PROVE  /\ f.pkt \in Packets
         /\ f.frm \in Nat
         /\ f.frm < H_TOTAL(f)
         /\ f = Frame(f.pkt, f.frm)
         /\ H_TOTAL(f) \in Nat
         /\ PacketLen[f.pkt] \in 0..255
  BY TotalFramesType DEF Frames, Frame, H_TOTAL

\* Marks of no packet.
LEMMA NoByteOfAPacket ==
  ASSUME NEW p \in Packets, NEW j  PROVE  <<p, j>> # ZERO /\ <<p, j>> # STACK
<1>1. p # "zero" /\ p # "stack"
  BY PacketsAssumption
<1> QED  BY <1>1 DEF ZERO, STACK

LEMMA IsPacketByte ==
  ASSUME NEW p \in Packets, NEW k \in 0 .. PacketLen[p] - 1  PROVE <<p, k>> \in PacketBytes
  BY DEF PacketBytes

\* localBuff with a frame in it has the type of localBuff.
LEMMA WithFrameType ==
  ASSUME TypeOK, NEW f \in Frames, NEW depth
  PROVE  WithFrame(f, depth) \in [BuffBytes -> PacketBytes \cup {ZERO, STACK}]
<1>1. ASSUME NEW k \in FramePlaces(f)  PROVE FrameByte(f, k) \in PacketBytes \cup {ZERO, STACK}
  <2>1. k \in Nat
    BY <1>1, FrameType, SizesType DEF FramePlaces
  <2>2. CASE k < PacketLen[f.pkt]
    <3>1. f.pkt \in Packets /\ k \in 0 .. PacketLen[f.pkt] - 1
      BY <2>1, <2>2, FrameType
    <3>2. <<f.pkt, k>> \in PacketBytes
      BY <3>1, IsPacketByte
    <3> QED  BY <2>2, <3>2 DEF FrameByte
  <2>3. CASE ~(k < PacketLen[f.pkt])
    BY <2>3 DEF FrameByte
  <2> QED  BY <2>2, <2>3
<1>2. ZeroBuff \in [BuffBytes -> PacketBytes \cup {ZERO, STACK}]
  BY DEF ZeroBuff
<1>3. Found(depth) \in [BuffBytes -> PacketBytes \cup {ZERO, STACK}]
  BY DEF Found, TypeOK
<1> DEFINE buff == IF f.frm = 0 THEN ZeroBuff ELSE Found(depth)
<1>4. buff \in [BuffBytes -> PacketBytes \cup {ZERO, STACK}]
  BY <1>2, <1>3
<1>5. WithFrame(f, depth) = [k \in BuffBytes |-> IF k \in FramePlaces(f) THEN FrameByte(f, k) ELSE buff[k]]
  BY DEF WithFrame
<1> HIDE DEF buff
<1> QED  BY <1>1, <1>4, <1>5

\* ... and its bytes are heard, the frame counted.
LEMMA WithFrameHeard ==
  ASSUME TypeOK, BytesHeard, pc = "running", NEW f \in Frames, NEW depth,
         NEW p \in Packets, NEW j \in Nat, NEW k \in BuffBytes,
         WithFrame(f, depth)[k] = <<p, j>>
  PROVE  j = k /\ \E g \in Heard(f) : g.pkt = p /\ k \in FramePlaces(g)
<1> USE NoByteOfAPacket
<1>1. CASE k \in FramePlaces(f)
  <2>1. FrameByte(f, k) = <<p, j>>
    BY <1>1 DEF WithFrame
  <2>2. <<f.pkt, k>> = <<p, j>>
    BY <2>1 DEF FrameByte
  <2>3. f \in Heard(f)
    BY DEF Heard
  <2> QED  BY <1>1, <2>2, <2>3
<1>2. CASE k \notin FramePlaces(f) /\ f.frm = 0
  BY <1>2 DEF WithFrame, ZeroBuff
<1>3. CASE k \notin FramePlaces(f) /\ f.frm # 0
  <2>1. Found(depth)[k] = <<p, j>>
    BY <1>3 DEF WithFrame
  <2>2. localBuff[k] = <<p, j>>
    BY <2>1 DEF Found
  <2>3. j = k /\ \E g \in heard : g.pkt = p /\ k \in FramePlaces(g)
    BY <2>2 DEF BytesHeard
  <2> QED  BY <1>3, <2>3 DEF Heard
<1> QED  BY <1>1, <1>2, <1>3

\* When a packet is complete, each of its frames is among those heard.
LEMMA CompleteIsHeard ==
  ASSUME TypeOK, BytesHeard, pc = "running", NEW f \in Frames, NEW depth,
         Completes(f, WithFrame(f, depth)), NEW n \in 0 .. H_TOTAL(f) - 1
  PROVE  Frame(f.pkt, n) \in Heard(f)
<1> DEFINE k == L2_DATA_SIZE * n
           p == f.pkt
<1>1. L2_DATA_SIZE \in Nat \ {0} /\ n \in Nat /\ p \in Packets /\ PacketLen[p] \in Nat
  <2>1. n \in Nat
    OBVIOUS
  <2>2. f.pkt \in Packets
    BY FrameType
  <2>3. PacketLen[f.pkt] \in Nat
    <3>1. PacketLen[f.pkt] \in 0..255
      BY FrameType
    <3> QED  BY <3>1
  <2>4. L2_DATA_SIZE \in Nat \ {0}
    BY SizesType
  <2> QED  BY <2>1, <2>2, <2>3, <2>4
<1>2. k < PacketLen[p]
  <2>1. n < (PacketLen[p] + (L2_DATA_SIZE - 1)) \div L2_DATA_SIZE
    BY FrameType DEF H_TOTAL, TotalFrames
  <2> HIDE DEF p
  <2> QED  BY <1>1, <2>1, FrameStartsInside
<1>3. k \in 0 .. PacketLen[p] - 1 /\ k \in Nat
  BY <1>1, <1>2
<1>4. k \in BuffBytes /\ WithFrame(f, depth)[k] = <<p, k>>
  BY <1>3 DEF Completes, CrcMatches
<1>5. PICK g \in Heard(f) : g.pkt = p /\ k \in FramePlaces(g)
  BY <1>1, <1>3, <1>4, WithFrameHeard
<1>6. g \in Frames
  BY <1>5 DEF Heard, TypeOK
<1>7. g.frm \in Nat /\ g = Frame(g.pkt, g.frm)
  BY <1>6, FrameType
<1>8. g.frm = n
  <2>1. L2_DATA_SIZE * g.frm <= L2_DATA_SIZE * n /\ L2_DATA_SIZE * n <= L2_DATA_SIZE * g.frm + (L2_DATA_SIZE - 1)
    BY <1>1, <1>5, <1>7 DEF FramePlaces
  <2> QED  BY <1>1, <1>7, <2>1, SamePlaceSameFrame
<1> QED  BY <1>5, <1>7, <1>8

\* Only a long packet has a frame that leaves the buffer.
LEMMA LongFrameOverruns ==
  ASSUME NEW f \in Frames, Overruns(f)
  PROVE  H_TOTAL(f) > LOCAL_BUFF_SIZE \div L2_DATA_SIZE
<1>1. PICK k \in FramePlaces(f) : k \notin BuffBytes
  BY DEF Overruns
<1>2. f.frm \in Nat /\ f.frm < H_TOTAL(f) /\ H_TOTAL(f) \in Nat
  BY FrameType
<1>3. L2_DATA_SIZE * f.frm \in Nat
  BY <1>2, SizesType
<1>4. L2_DATA_SIZE * f.frm + (L2_DATA_SIZE - 1) >= LOCAL_BUFF_SIZE
  BY <1>1, <1>3, SizesType DEF FramePlaces
<1>5. f.frm + 1 > LOCAL_BUFF_SIZE \div L2_DATA_SIZE
  BY <1>2, <1>4, SizesType, BeyondIsLate
<1>6. LOCAL_BUFF_SIZE \div L2_DATA_SIZE \in Int
  BY SizesType
<1> QED  BY <1>2, <1>5, <1>6

LEMMA InitIInv == Init => IInv
<1> SUFFICES ASSUME Init PROVE IInv
  OBVIOUS
<1>1. TypeOK
  BY DEF Init, TypeOK, ZeroBuff
<1>2. LastIsKept
  BY SendersAssumption DEF Init, LastIsKept
<1>3. BytesHeard
  BY NoByteOfAPacket DEF Init, BytesHeard
<1>4. OverrunOnlyByLong
  BY DEF Init, OverrunOnlyByLong
<1> QED  BY <1>1, <1>2, <1>3, <1>4 DEF IInv

\* The senders and the chips leave the receiver alone.
ReceiverRests == UNCHANGED <<localBuff, packet_buff, ret, pc, heard>>

LEMMA ReceiverRestsKeeps ==
  ASSUME IInv, ReceiverRests, TypeOK', LastIsKept'  PROVE IInv'
<1>1. BytesHeard'
  BY DEF IInv, BytesHeard, ReceiverRests
<1>2. OverrunOnlyByLong'
  BY DEF IInv, OverrunOnlyByLong, ReceiverRests
<1> QED  BY <1>1, <1>2 DEF IInv

LEMMA SendKeeps ==
  ASSUME IInv, NEW s \in Senders, NEW p \in Packets, l3_send_packet(s, p)  PROVE IInv'
<1>1. Frame(p, 0) \in Frames
  <2>1. PacketLen[p] \in Nat /\ PacketLen[p] > 0
    BY TotalFramesType DEF l3_send_packet
  <2>2. ASSUME NEW D \in Nat \ {0}, NEW l \in Nat, l > 0  PROVE 0 < (l + (D - 1)) \div D
    BY <2>2
  <2>3. 0 < TotalFrames(p)
    BY <2>1, <2>2, SizesType DEF TotalFrames
  <2> QED  BY <2>3 DEF Frames, Frame
<1>2. TypeOK'
  BY <1>1 DEF IInv, TypeOK, l3_send_packet
<1>3. LastIsKept' /\ ReceiverRests
  BY DEF IInv, LastIsKept, l3_send_packet, ReceiverRests
<1> QED  BY <1>2, <1>3, ReceiverRestsKeeps

LEMMA NrfSendKeeps ==
  ASSUME IInv, NEW s \in Senders, nrf24_send(s)  PROVE IInv'
<1> DEFINE f == Frame(tx[s].pkt, tx[s].frm_nb)
<1>1. f \in Frames /\ tx[s].pkt \in Packets /\ tx[s].frm_nb \in Nat
  BY DEF IInv, TypeOK, nrf24_send
<1>2. f.pkt = tx[s].pkt /\ f.frm = tx[s].frm_nb
  BY DEF Frame
<1>3. txFifo[s] \in Seq(Frames) /\ Append(txFifo[s], f) \in Seq(Frames)
  BY <1>1 DEF IInv, TypeOK
<1>4. txFifo' \in [Senders -> Seq(Frames)]
  BY <1>3 DEF IInv, TypeOK, nrf24_send
<1>5. ASSUME f.frm + 1 < H_TOTAL(f)
      PROVE  Frame(tx[s].pkt, f.frm + 1) \in Frames
  BY <1>1, <1>2, <1>5 DEF Frame, Frames, H_TOTAL
<1>6. tx' \in [Senders -> {Idle} \cup {t \in [pkt : Packets, frm_nb : Nat] :
                                       Frame(t.pkt, t.frm_nb) \in Frames}]
  <2> DEFINE t2 == [tx[s] EXCEPT !.frm_nb = f.frm + 1]
             T == {Idle} \cup {t \in [pkt : Packets, frm_nb : Nat] : Frame(t.pkt, t.frm_nb) \in Frames}
  <2>1. tx \in [Senders -> T] /\ tx[s] \in [pkt : Packets, frm_nb : Nat]
    BY DEF IInv, TypeOK, nrf24_send
  <2>2. ASSUME f.frm + 1 < H_TOTAL(f) PROVE t2 \in T
    <3>1. t2.pkt = tx[s].pkt /\ t2.frm_nb = f.frm + 1 /\ t2 \in [pkt : Packets, frm_nb : Nat]
      BY <2>1, <1>1, <1>2
    <3> QED  BY <3>1, <2>2, <1>5
  <2>3. Idle \in T
    OBVIOUS
  <2>4. tx' = [tx EXCEPT ![s] = IF f.frm + 1 < H_TOTAL(f) THEN t2 ELSE Idle]
    BY DEF nrf24_send
  <2> HIDE DEF T, t2, f
  <2>5. tx' \in [Senders -> T]
    BY <2>1, <2>2, <2>3, <2>4
  <2> QED  BY <2>5 DEF T
<1>7. TypeOK'
  BY <1>4, <1>6 DEF IInv, TypeOK, nrf24_send
<1>8. LastIsKept'
  <2>1. ASSUME NEW r \in Senders, last' = r  PROVE txFifo'[r] # <<>>
    <3>1. last = r /\ txFifo[r] # <<>>
      BY <2>1 DEF IInv, LastIsKept, nrf24_send
    <3>2. CASE r = s
      <4>1. txFifo'[s] = txFifo[s] \/ txFifo'[s] = Append(txFifo[s], f)
        BY DEF IInv, TypeOK, nrf24_send
      <4> HIDE DEF f
      <4> QED  BY <3>1, <3>2, <4>1, <1>3
    <3>3. CASE r # s
      BY <3>1, <3>3 DEF IInv, TypeOK, nrf24_send
    <3> QED  BY <3>2, <3>3
  <2> QED  BY <2>1 DEF LastIsKept
<1>9. ReceiverRests
  BY DEF nrf24_send, ReceiverRests
<1> QED  BY <1>7, <1>8, <1>9, ReceiverRestsKeeps

LEMMA HearsKeeps ==
  ASSUME IInv, NEW s \in Senders, ChipHears(s)  PROVE IInv'
<1>1. txFifo[s] \in Seq(Frames) /\ txFifo[s] # <<>>
  BY DEF IInv, TypeOK, ChipHears
<1>2. Head(txFifo[s]) \in Frames
  BY <1>1
<1>3. TypeOK'
  BY <1>2 DEF IInv, TypeOK, ChipHears
<1>4. LastIsKept'
  BY <1>1 DEF LastIsKept, ChipHears
<1>5. ReceiverRests
  BY DEF ChipHears, ReceiverRests
<1> QED  BY <1>3, <1>4, <1>5, ReceiverRestsKeeps

LEMMA AckedKeeps ==
  ASSUME IInv, NEW s \in Senders, ChipAcked(s)  PROVE IInv'
<1>1. txFifo[s] \in Seq(Frames) /\ txFifo[s] # <<>>
  BY DEF IInv, TypeOK, LastIsKept, ChipAcked
<1>2. Tail(txFifo[s]) \in Seq(Frames)
  BY <1>1
<1>3. TypeOK'
  BY <1>2 DEF IInv, TypeOK, ChipAcked
<1>4. LastIsKept'
  BY SendersAssumption DEF LastIsKept, ChipAcked
<1>5. ReceiverRests
  BY DEF ChipAcked, ReceiverRests
<1> QED  BY <1>3, <1>4, <1>5, ReceiverRestsKeeps

\* The frame read, and what is left in the RX FIFO.
LEMMA ReadFrame ==
  ASSUME IInv, Read
  PROVE  /\ Head(rxFifo) \in Frames
         /\ rxFifo' \in Seq(Frames)
         /\ pc = "running"
<1>1. rxFifo \in Seq(Frames) /\ rxFifo # <<>>
  BY DEF IInv, TypeOK, Read
<1>2. Head(rxFifo) \in Frames /\ Tail(rxFifo) \in Seq(Frames)
  BY <1>1
<1> QED  BY <1>2 DEF Read

LEMMA HeardType ==
  ASSUME TypeOK, NEW f \in Frames  PROVE Heard(f) \subseteq Frames
  BY DEF TypeOK, Heard

LEMMA CollectKeeps ==
  ASSUME IInv, NEW depth, Collect(depth)  PROVE IInv'
<1> DEFINE f == Head(rxFifo)
           buff == WithFrame(f, depth)
<1>1. f \in Frames /\ rxFifo' \in Seq(Frames) /\ pc = "running"
  BY ReadFrame DEF Collect
<1>2. buff \in [BuffBytes -> PacketBytes \cup {ZERO, STACK}] /\ Heard(f) \subseteq Frames
  BY <1>1, WithFrameType, HeardType DEF IInv
<1>3. ASSUME NEW p \in Packets, NEW j \in Nat, NEW k \in BuffBytes, buff[k] = <<p, j>>
      PROVE  j = k /\ \E g \in Heard(f) : g.pkt = p /\ k \in FramePlaces(g)
  BY <1>1, <1>3, WithFrameHeard DEF IInv
<1>4. /\ localBuff' = buff
      /\ packet_buff' = IF f.frm = 0 THEN ZeroBuff ELSE packet_buff
      /\ heard' = Heard(f)
      /\ ret' = 0
      /\ tx' = tx /\ txFifo' = txFifo /\ last' = last /\ pc' = pc
  BY DEF Collect
<1> HIDE DEF buff, f
<1>5. packet_buff' \in [BuffBytes -> PacketBytes \cup {ZERO, STACK}]
  BY <1>4 DEF IInv, TypeOK, ZeroBuff
<1>6. TypeOK'
  BY <1>1, <1>2, <1>4, <1>5 DEF IInv, TypeOK
<1>7. LastIsKept'
  BY <1>4 DEF IInv, LastIsKept
<1>8. BytesHeard'
  BY <1>3, <1>4 DEF BytesHeard
<1>9. OverrunOnlyByLong'
  BY <1>1, <1>4 DEF OverrunOnlyByLong
<1> QED  BY <1>6, <1>7, <1>8, <1>9 DEF IInv

LEMMA DeliverKeeps ==
  ASSUME IInv, NEW depth, Deliver(depth)  PROVE IInv'
<1> DEFINE f == Head(rxFifo)
           buff == WithFrame(f, depth)
<1>1. f \in Frames /\ rxFifo' \in Seq(Frames) /\ pc = "running"
  BY ReadFrame DEF Deliver
<1>2. buff \in [BuffBytes -> PacketBytes \cup {ZERO, STACK}]
  BY <1>1, WithFrameType DEF IInv
<1>3. /\ localBuff' = ZeroBuff
      /\ packet_buff' = buff
      /\ heard' = {}
      /\ ret' = PacketLen[f.pkt]
      /\ tx' = tx /\ txFifo' = txFifo /\ last' = last /\ pc' = pc
      /\ CrcMatches(f, buff)
  BY DEF Deliver, Completes
<1>4. f.pkt \in Packets /\ PacketLen[f.pkt] \in 0..255
  BY <1>1, FrameType
<1> HIDE DEF buff, f
<1>5. ZeroBuff \in [BuffBytes -> PacketBytes \cup {ZERO, STACK}]
  BY DEF ZeroBuff
<1>6. TypeOK'
  BY <1>1, <1>2, <1>3, <1>4, <1>5 DEF IInv, TypeOK
<1>7. LastIsKept'
  BY <1>3 DEF IInv, LastIsKept
<1>8. BytesHeard'
  BY <1>3, NoByteOfAPacket DEF BytesHeard, ZeroBuff
<1>9. OverrunOnlyByLong'
  BY <1>1, <1>3 DEF OverrunOnlyByLong
<1> QED  BY <1>6, <1>7, <1>8, <1>9 DEF IInv

LEMMA OverrunKeeps == ASSUME IInv, Overrun  PROVE IInv'
<1> DEFINE f == Head(rxFifo)
<1>1. f \in Frames /\ rxFifo' \in Seq(Frames) /\ Overruns(f)
  BY ReadFrame DEF Overrun
<1>2. /\ heard' = Heard(f) /\ f \in Heard(f) /\ Heard(f) \subseteq Frames
      /\ pc' = "overrun"
      /\ tx' = tx /\ txFifo' = txFifo /\ last' = last /\ localBuff' = localBuff
      /\ packet_buff' = packet_buff /\ ret' = ret
  BY <1>1, HeardType DEF Overrun, Heard, IInv
<1>3. H_TOTAL(f) > LOCAL_BUFF_SIZE \div L2_DATA_SIZE
  BY <1>1, LongFrameOverruns
<1> HIDE DEF f
<1>4. TypeOK'
  BY <1>1, <1>2 DEF IInv, TypeOK
<1>5. LastIsKept' /\ BytesHeard'
  BY <1>2 DEF IInv, LastIsKept, BytesHeard
<1>6. OverrunOnlyByLong'
  BY <1>2, <1>3 DEF OverrunOnlyByLong, H_TOTAL, TotalFrames
<1> QED  BY <1>4, <1>5, <1>6 DEF IInv

LEMMA StutterKeeps == ASSUME IInv, UNCHANGED vars  PROVE IInv'
<1>1. /\ tx' = tx /\ txFifo' = txFifo /\ last' = last /\ rxFifo' = rxFifo
      /\ localBuff' = localBuff /\ packet_buff' = packet_buff /\ ret' = ret
      /\ pc' = pc /\ heard' = heard
  BY DEF vars
<1>2. TypeOK' /\ LastIsKept'
  BY <1>1 DEF IInv, TypeOK, LastIsKept
<1> QED  BY <1>1, <1>2, ReceiverRestsKeeps DEF ReceiverRests

LEMMA NextKeeps == IInv /\ [Next]_vars => IInv'
<1> SUFFICES ASSUME IInv, [Next]_vars  PROVE IInv'
  OBVIOUS
<1>1. CASE \E s \in Senders, p \in Packets : l3_send_packet(s, p)
  BY <1>1, SendKeeps
<1>2. CASE \E s \in Senders : nrf24_send(s)
  BY <1>2, NrfSendKeeps
<1>3. CASE \E s \in Senders : ChipHears(s)
  BY <1>3, HearsKeeps
<1>4. CASE \E s \in Senders : ChipAcked(s)
  BY <1>4, AckedKeeps
<1>5. CASE \E depth \in 0 .. LOCAL_BUFF_SIZE : Collect(depth)
  BY <1>5, CollectKeeps
<1>6. CASE \E depth \in 0 .. LOCAL_BUFF_SIZE : Deliver(depth)
  BY <1>6, DeliverKeeps
<1>7. CASE Overrun
  BY <1>7, OverrunKeeps
<1>8. CASE UNCHANGED vars
  BY <1>8, StutterKeeps
<1> QED
  BY <1>1, <1>2, <1>3, <1>4, <1>5, <1>6, <1>7, <1>8 DEF Next

-------------------------------------------------------------------------------

\* The inductive invariant holds in every reachable state.
THEOREM SpecIInv == Spec => []IInv
  BY InitIInv, NextKeeps, PTL DEF Spec

\* Type correctness of senders, FIFOs and buffers.
THEOREM TypeCorrect == Spec => []TypeOK
<1>1. IInv => TypeOK
  BY DEF IInv
<1> QED  BY <1>1, SpecIInv, PTL

\* Packets of at most LOCAL_BUFF_SIZE \div L2_DATA_SIZE frames never overrun the buffer.
THEOREM OverrunOnlyByLongHolds == Spec => []OverrunOnlyByLong
<1>1. IInv => OverrunOnlyByLong
  BY DEF IInv
<1> QED  BY <1>1, SpecIInv, PTL

\* No frame counts for two deliveries and none from before the packet's own first frame.
THEOREM DeliveredAnewHolds == Spec => DeliveredAnew
<1> DEFINE A == \A depth \in 0 .. LOCAL_BUFF_SIZE :
       Deliver(depth) => LET f == Head(rxFifo)
                         IN  \A n \in 0 .. H_TOTAL(f) - 1 : Frame(f.pkt, n) \in Heard(f)
<1>1. IInv /\ [Next]_vars => [A]_vars
  <2>1. ASSUME IInv, NEW depth \in 0 .. LOCAL_BUFF_SIZE, Deliver(depth),
               NEW n \in 0 .. H_TOTAL(Head(rxFifo)) - 1
        PROVE  Frame(Head(rxFifo).pkt, n) \in Heard(Head(rxFifo))
    <3>1. Head(rxFifo) \in Frames /\ pc = "running" /\ TypeOK /\ BytesHeard
      BY <2>1, ReadFrame DEF Deliver, IInv
    <3>2. Completes(Head(rxFifo), WithFrame(Head(rxFifo), depth))
      BY <2>1 DEF Deliver
    <3> QED  BY <2>1, <3>1, <3>2, CompleteIsHeard
  <2> QED  BY <2>1
<1> QED  BY <1>1, SpecIInv, PTL DEF Spec, DeliveredAnew

\* A packet of one frame is no longer than a frame.
LEMMA OneFrameLength ==
  ASSUME NEW p \in Packets, TotalFrames(p) = 1  PROVE PacketLen[p] <= L2_DATA_SIZE
<1>1. ASSUME NEW D \in Nat \ {0}, NEW l \in Nat, (l + (D - 1)) \div D = 1  PROVE l <= D
  BY <1>1
<1>2. PacketLen[p] \in 0..255 /\ L2_DATA_SIZE \in Nat \ {0}
  BY TotalFramesType, SizesType
<1>3. PacketLen[p] \in Nat
  BY <1>2
<1> QED  BY <1>1, <1>2, <1>3 DEF TotalFrames

LEMMA OneFrameCompletes ==
  ASSUME NEW f \in Frames, H_TOTAL(f) = 1, ~Overruns(f), NEW depth
  PROVE  Completes(f, WithFrame(f, depth))
<1>1. f.frm = 0 /\ f.pkt \in Packets /\ PacketLen[f.pkt] \in Nat
  <2>1. PacketLen[f.pkt] \in 0..255
    BY FrameType
  <2>2. PacketLen[f.pkt] \in Nat
    BY <2>1
  <2>3. f.frm = 0 /\ f.pkt \in Packets
    BY FrameType
  <2> QED  BY <2>2, <2>3
<1>2. PacketLen[f.pkt] <= L2_DATA_SIZE
  BY <1>1, OneFrameLength DEF H_TOTAL
<1>3. L2_DATA_SIZE * 0 = 0
  BY SizesType
<1>4. ASSUME NEW k \in 0 .. PacketLen[f.pkt] - 1
      PROVE  k \in BuffBytes /\ WithFrame(f, depth)[k] = <<f.pkt, k>>
  <2>1. k \in FramePlaces(f)
    BY <1>1, <1>2, <1>3, SizesType DEF FramePlaces
  <2>2. k \in BuffBytes
    BY <2>1 DEF Overruns
  <2>3. k < PacketLen[f.pkt]
    BY <1>1
  <2> QED  BY <2>1, <2>2, <2>3 DEF WithFrame, FrameByte
<1> QED  BY <1>1, <1>4 DEF Completes, CrcMatches

\* Only the receiver's steps shorten the RX FIFO.
LEMMA ReadIsCall ==
  ASSUME IInv, [Next]_vars, Read
  PROVE  (\E depth \in 0 .. LOCAL_BUFF_SIZE : Collect(depth) \/ Deliver(depth)) \/ Overrun
<1>1. rxFifo \in Seq(Frames) /\ rxFifo # <<>> /\ rxFifo' = Tail(rxFifo)
  BY DEF IInv, TypeOK, Read
<1>2. Len(rxFifo') = Len(rxFifo) - 1 /\ Len(rxFifo) \in Nat
  BY <1>1
<1>3. rxFifo' # rxFifo
  BY <1>2
<1>4. ASSUME NEW s \in Senders, ChipHears(s)  PROVE FALSE
  <2>1. Len(rxFifo') = Len(rxFifo) + 1
    BY <1>1, <1>4 DEF ChipHears
  <2> QED  BY <1>2, <2>1
<1>5. ASSUME NEW s \in Senders, NEW p \in Packets, l3_send_packet(s, p)  PROVE FALSE
  BY <1>3, <1>5 DEF l3_send_packet
<1>6. ASSUME NEW s \in Senders, nrf24_send(s) \/ ChipAcked(s)  PROVE FALSE
  BY <1>3, <1>6 DEF nrf24_send, ChipAcked
<1>7. ~(UNCHANGED vars)
  BY <1>3 DEF vars
<1> QED  BY <1>4, <1>5, <1>6, <1>7 DEF Next

\* A packet of one frame is delivered as soon as its frame is read.
THEOREM OneFrameIsDeliveredHolds == Spec => OneFrameIsDelivered
<1> DEFINE A == Read /\ H_TOTAL(Head(rxFifo)) = 1 /\ pc' = "running" =>
       LET p == Head(rxFifo).pkt
       IN  ret' = PacketLen[p] /\ \A k \in 0 .. PacketLen[p] - 1 : packet_buff'[k] = <<p, k>>
<1>1. IInv /\ [Next]_vars => [A]_vars
  <2>1. ASSUME IInv, [Next]_vars, Read, H_TOTAL(Head(rxFifo)) = 1, pc' = "running"
        PROVE  /\ ret' = PacketLen[Head(rxFifo).pkt]
               /\ \A k \in 0 .. PacketLen[Head(rxFifo).pkt] - 1 :
                    packet_buff'[k] = <<Head(rxFifo).pkt, k>>
    <3>1. Head(rxFifo) \in Frames
      BY <2>1, ReadFrame
    <3>2. ~Overrun
      BY <2>1 DEF Overrun
    <3>3. PICK depth \in 0 .. LOCAL_BUFF_SIZE : Collect(depth) \/ Deliver(depth)
      BY <2>1, <3>2, ReadIsCall
    <3>4. ~Collect(depth)
      BY <2>1, <3>1, OneFrameCompletes DEF Collect
    <3>5. Deliver(depth)
      BY <3>3, <3>4
    <3> QED  BY <3>5 DEF Deliver, Completes, CrcMatches
  <2> QED  BY <2>1
<1> QED  BY <1>1, SpecIInv, PTL DEF Spec, OneFrameIsDelivered
===============================================================================
