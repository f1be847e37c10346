----------------------------- MODULE L3Transport -----------------------------
(***************************************************************************)
(* Layer 3 of nrf24.c: l3_send_packet cuts a packet into numbered frames,  *)
(* l3_receive_packet puts it together again and checks its CRC.  Several   *)
(* senders share the receiver.  Between them are the nRF24 chips: a frame  *)
(* stays in the sender's TX FIFO until its acknowledgement came back, so   *)
(* frames are lost to a full FIFO, delayed past MAX_RT, and heard twice.   *)
(*                                                                         *)
(* The buffer of l3_receive_packet is an automatic variable, never         *)
(* initialised, that the function expects to find as its last call left    *)
(* it.  The calls in between use the same stack from its upper end down,   *)
(* and a frame beyond its end is written all the same.                     *)
(*                                                                         *)
(* A byte of a packet is known by its place: byte k of packet p is         *)
(* <<p, k>>.  The CRC is taken to tell different contents apart.           *)
(***************************************************************************)
EXTENDS Integers, Sequences

CONSTANTS
  Senders,
  Packets,          \* what the senders may send
  PacketLen,        \* the length of each, an uint8_t
  L2_DATA_SIZE,     \* 26: data bytes of a frame
  LOCAL_BUFF_SIZE,  \* 240: bytes of localBuff
  TX_FIFO_DEPTH,    \* 3: frames in the TX FIFO of a chip
  RX_FIFO_DEPTH     \* 3: frames in the RX FIFO of a chip

ASSUME PacketLenAssumption == PacketLen \in [Packets -> 0..255]
ASSUME SizesAssumption ==
  {L2_DATA_SIZE, LOCAL_BUFF_SIZE, TX_FIFO_DEPTH, RX_FIFO_DEPTH} \subseteq Nat \ {0}
ASSUME PacketsAssumption == {"zero", "stack", "none"} \cap Packets = {}
ASSUME SendersAssumption == "none" \notin Senders

VARIABLES
  tx,           \* l3_send_packet of each sender: its packet and frm_nb; Idle
  txFifo,       \* TX FIFO of each sender's chip
  last,         \* the sender whose oldest frame is the last the receiver's chip heard
  rxFifo,       \* RX FIFO of the receiver's chip
  localBuff,    \* the stack where l3_receive_packet has its buffer
  packet_buff,  \* the caller's buffer
  ret,          \* what l3_receive_packet returned last
  pc,           \* "running", or "overrun" when the stack beyond localBuff is written
  heard         \* the frames heard since the last first frame and not delivered (history)

vars == <<tx, txFifo, last, rxFifo, localBuff, packet_buff, ret, pc, heard>>

-------------------------------------------------------------------------------

ZERO == <<"zero", 0>>
STACK == <<"stack", 0>>     \* a byte some other function left on the stack

BuffBytes == 0 .. LOCAL_BUFF_SIZE - 1
ZeroBuff == [k \in BuffBytes |-> ZERO]

Idle == [pkt |-> "none", frm_nb |-> 0]

TotalFrames(p) == (PacketLen[p] + (L2_DATA_SIZE - 1)) \div L2_DATA_SIZE

\* A frame: H_FRM, and the packet, which gives H_TOTAL, the length, the CRC and the data.
Frame(p, n) == [pkt |-> p, frm |-> n]
Frames == {f \in [pkt : Packets, frm : Nat] : f.frm < TotalFrames(f.pkt)}
H_TOTAL(f) == TotalFrames(f.pkt)

\* Mutant: frames are counted from one.
FramePlacesFromOne(f) ==
  L2_DATA_SIZE * (f.frm + 1) .. L2_DATA_SIZE * (f.frm + 1) + (L2_DATA_SIZE - 1)

\* The places in the packet of the 26 bytes of a frame; the last frame is filled with zeros.
FramePlaces(f) == L2_DATA_SIZE * f.frm .. L2_DATA_SIZE * f.frm + (L2_DATA_SIZE - 1)
FrameByte(f, k) == IF k < PacketLen[f.pkt] THEN <<f.pkt, k>> ELSE ZERO

-------------------------------------------------------------------------------
(* Sender *)

l3_send_packet(s, p) ==
  /\ tx[s] = Idle
  /\ PacketLen[p] > 0
  /\ tx' = [tx EXCEPT ![s] = [pkt |-> p, frm_nb |-> 0]]
  /\ UNCHANGED <<txFifo, last, rxFifo, localBuff, packet_buff, ret, pc, heard>>

\* Mutant: the loop runs once more.
nrf24_send_once_more(s) ==
  /\ tx[s] # Idle
  /\ LET f == Frame(tx[s].pkt, tx[s].frm_nb)
     IN  /\ txFifo' = [txFifo EXCEPT ![s] = IF Len(@) < TX_FIFO_DEPTH THEN Append(@, f) ELSE @]
         /\ tx' = [tx EXCEPT ![s] = IF f.frm < H_TOTAL(f)
                                    THEN [@ EXCEPT !.frm_nb = f.frm + 1] ELSE Idle]
  /\ UNCHANGED <<last, rxFifo, localBuff, packet_buff, ret, pc, heard>>

\* One pass of its loop.  A full TX FIFO ignores the payload; nrf24_send returns on TX_DS,
\* which may be that of an older frame, or on MAX_RT, which leaves the frame in the FIFO.
nrf24_send(s) ==
  /\ tx[s] # Idle
  /\ LET f == Frame(tx[s].pkt, tx[s].frm_nb)
     IN  /\ txFifo' = [txFifo EXCEPT ![s] = IF Len(@) < TX_FIFO_DEPTH THEN Append(@, f) ELSE @]
         /\ tx' = [tx EXCEPT ![s] = IF f.frm + 1 < H_TOTAL(f)
                                    THEN [@ EXCEPT !.frm_nb = f.frm + 1] ELSE Idle]
  /\ UNCHANGED <<last, rxFifo, localBuff, packet_buff, ret, pc, heard>>

-------------------------------------------------------------------------------
(* Chips: the oldest frame of a TX FIFO is sent until it is acknowledged.  The receiver's *)
(* chip drops a frame it knows for a repetition, the one it heard last.                   *)

ChipHears(s) ==
  /\ txFifo[s] # <<>>
  /\ last # s
  /\ Len(rxFifo) < RX_FIFO_DEPTH
  /\ rxFifo' = Append(rxFifo, Head(txFifo[s]))
  /\ last' = s
  /\ UNCHANGED <<tx, txFifo, localBuff, packet_buff, ret, pc, heard>>

ChipAcked(s) ==
  /\ last = s
  /\ txFifo' = [txFifo EXCEPT ![s] = Tail(@)]
  /\ last' = "none"
  /\ UNCHANGED <<tx, rxFifo, localBuff, packet_buff, ret, pc, heard>>

-------------------------------------------------------------------------------
(* Receiver: broker_rec reads a frame with nrf24_getData, then calls l3_receive_packet *)

\* What the call finds in localBuff: from some place on, the calls since the last one have
\* used the stack.
Found(depth) == [k \in BuffBytes |-> IF k < depth THEN localBuff[k] ELSE STACK]

Overruns(f) == \E k \in FramePlaces(f) : k \notin BuffBytes

\* localBuff once the frame is in.
WithFrame(f, depth) ==
  LET buff == IF f.frm = 0 THEN ZeroBuff ELSE Found(depth)
  IN  [k \in BuffBytes |-> IF k \in FramePlaces(f) THEN FrameByte(f, k) ELSE buff[k]]

\* Mutant: the CRC is taken over the whole buffer.
CrcOfWholeBuffer(f, buff) == \A k \in BuffBytes : buff[k] = <<f.pkt, k>>

\* calculateCRC16 over the length of the packet gives the CRC of the packet.
CrcMatches(f, buff) ==
  \A k \in 0 .. PacketLen[f.pkt] - 1 : k \in BuffBytes /\ buff[k] = <<f.pkt, k>>

Completes(f, buff) == f.frm + 1 = H_TOTAL(f) /\ CrcMatches(f, buff)

Heard(f) == IF f.frm = 0 THEN {f} ELSE heard \cup {f}

Read == pc = "running" /\ rxFifo # <<>> /\ rxFifo' = Tail(rxFifo)

Collect(depth) ==
  /\ Read
  /\ LET f == Head(rxFifo)
         buff == WithFrame(f, depth)
     IN  /\ ~Overruns(f)
         /\ ~Completes(f, buff)
         /\ localBuff' = buff
         /\ packet_buff' = IF f.frm = 0 THEN ZeroBuff ELSE packet_buff
         /\ heard' = Heard(f)
  /\ ret' = 0
  /\ UNCHANGED <<tx, txFifo, last, pc>>

\* Mutant: localBuff is not cleared.
DeliverAndKeep(depth) ==
  /\ Read
  /\ LET f == Head(rxFifo)
         buff == WithFrame(f, depth)
     IN  /\ ~Overruns(f)
         /\ Completes(f, buff)
         /\ packet_buff' = buff
         /\ ret' = PacketLen[f.pkt]
         /\ localBuff' = buff
  /\ heard' = {}
  /\ UNCHANGED <<tx, txFifo, last, pc>>

Deliver(depth) ==
  /\ Read
  /\ LET f == Head(rxFifo)
         buff == WithFrame(f, depth)
     IN  /\ ~Overruns(f)
         /\ Completes(f, buff)
         /\ packet_buff' = buff
         /\ ret' = PacketLen[f.pkt]
  /\ localBuff' = ZeroBuff
  /\ heard' = {}
  /\ UNCHANGED <<tx, txFifo, last, pc>>

\* What follows localBuff on the stack, the return address among it, is gone.
Overrun ==
  /\ Read
  /\ LET f == Head(rxFifo)
     IN  Overruns(f) /\ heard' = Heard(f)
  /\ pc' = "overrun"
  /\ UNCHANGED <<tx, txFifo, last, localBuff, packet_buff, ret>>

-------------------------------------------------------------------------------
(* Specification *)

Init ==
  /\ tx = [s \in Senders |-> Idle]
  /\ txFifo = [s \in Senders |-> <<>>]
  /\ last = "none"
  /\ rxFifo = <<>>
  /\ localBuff = [k \in BuffBytes |-> STACK]
  /\ packet_buff = ZeroBuff
  /\ ret = 0
  /\ pc = "running"
  /\ heard = {}

Next ==
  \/ \E s \in Senders :
       \/ \E p \in Packets : l3_send_packet(s, p)
       \/ nrf24_send(s)
       \/ ChipHears(s)
       \/ ChipAcked(s)
  \/ \E depth \in 0 .. LOCAL_BUFF_SIZE : Collect(depth) \/ Deliver(depth)
  \/ Overrun

Spec == Init /\ [][Next]_vars

-------------------------------------------------------------------------------
(* Properties *)

PacketBytes == UNION {{<<p, k>> : k \in 0 .. PacketLen[p] - 1} : p \in Packets}

\* Type invariant of the senders, the FIFOs and the receiver's buffers.
TypeOK ==
  /\ tx \in [Senders -> {Idle} \cup {t \in [pkt : Packets, frm_nb : Nat] :
                                       Frame(t.pkt, t.frm_nb) \in Frames}]
  /\ txFifo \in [Senders -> Seq(Frames)]
  /\ last \in Senders \cup {"none"}
  /\ rxFifo \in Seq(Frames)
  /\ localBuff \in [BuffBytes -> PacketBytes \cup {ZERO, STACK}]
  /\ packet_buff \in [BuffBytes -> PacketBytes \cup {ZERO, STACK}]
  /\ ret \in 0..255
  /\ pc \in {"running", "overrun"}
  /\ heard \subseteq Frames

\* A packet is delivered only if the last first frame heard is its own and all its frames
\* have been heard since then, none of them counted for an earlier delivery: a repeated
\* or late frame never brings a packet back, since nothing of it is left in localBuff.
DeliveredAnew ==
  [][\A depth \in 0 .. LOCAL_BUFF_SIZE :
       Deliver(depth) => LET f == Head(rxFifo)
                         IN  \A n \in 0 .. H_TOTAL(f) - 1 : Frame(f.pkt, n) \in Heard(f)]_vars

\* A packet of one frame is delivered whenever its frame is read, whatever was collected
\* before and whatever is on the stack.
OneFrameIsDelivered ==
  [][Read /\ H_TOTAL(Head(rxFifo)) = 1 /\ pc' = "running" =>
       LET p == Head(rxFifo).pkt
       IN  ret' = PacketLen[p] /\ \A k \in 0 .. PacketLen[p] - 1 : packet_buff'[k] = <<p, k>>]_vars

\* The stack is overrun only while a packet with more frames than fit localBuff is being
\* collected: shorter ones stay inside, however their frames mix.
OverrunOnlyByLong ==
  pc = "overrun" =>
    \E f \in heard : H_TOTAL(f) > LOCAL_BUFF_SIZE \div L2_DATA_SIZE

\* tiny_broker.h: MAX_FRAME_SIZE is 240, the size of localBuff; a packet no longer than that
\* is collected without harm.  (Refuted: its last frame is copied with all its 26 bytes.)
FittingNeverOverruns ==
  pc = "overrun" => \E f \in heard : PacketLen[f.pkt] > LOCAL_BUFF_SIZE
===============================================================================
