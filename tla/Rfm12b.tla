------------------------------- MODULE Rfm12b -------------------------------
(***************************************************************************)
(* The driver of the RFM12B radio, __rfm12b.c, and as much of the chip as  *)
(* its commands reach: the register transmitted bytes wait in, the FIFO of *)
(* received ones, and the bit 15 of the status that tells of both.         *)
(*                                                                         *)
(* A call of the driver either is one action or, where it polls the status *)
(* in a loop, one action for the call and one for the turn of the loop     *)
(* that ends it: between them the chip moves on.  main keeps sending; the  *)
(* other calls of the header come in any order.                            *)
(***************************************************************************)
EXTENDS Integers, Sequences

Bytes == 0..255

CONSTANTS
  Buffers,   \* what Rfm12bSendBuff may be given
  TX_LEN,    \* bytes in the transmit register
  FIFO_LEN   \* bytes in the receive FIFO

ASSUME LengthsAssumption == TX_LEN \in Nat \ {0} /\ FIFO_LEN \in Nat \ {0}
ASSUME BuffersAssumption == \A b \in Buffers : b \in Seq(Bytes)

VARIABLES
  call,      \* the driver's function that polls, or "none"
  left,      \* the bytes it still has to send
  mode,      \* of the chip: "reset", "off", "rx" or "tx"
  tx,        \* the bytes in the transmit register
  fifo,      \* the bytes in the receive FIFO
  filling,   \* may received bytes enter the FIFO?
  got,       \* the byte rfm12bReadFifo returned
  due,       \* bytes still to go on the air for all that was asked (history)
  careless,  \* was something sent in a way that spoils it? (history)
  coming,    \* the next byte to be received: they are numbered (history)
  want,      \* the number of the byte the next read should return (history)
  waited,    \* has rfm12bWaitForData told of a byte not yet read? (history)
  gap        \* was a byte lost, or read that was not there? (history)

chip_vars == <<mode, tx, fifo, filling>>
tx_history == <<due, careless>>
rx_history == <<coming, want, waited, gap>>
vars == <<call, left, chip_vars, got, tx_history, rx_history>>

Numbers == 0..2
After(n) == (n + 1) % 3
NoByte == 255    \* what a read of an empty FIFO gives

Idle == call = "none" /\ mode # "reset"

\* Status bit 15: RGIT in transmission, FFIT in reception.
Bit15 == (mode = "tx" /\ Len(tx) < TX_LEN) \/ (mode = "rx" /\ fifo # <<>>)

\* The 16 bits that come back while a command goes out; the lower ones are any.
Statuses == {(IF Bit15 THEN 32768 ELSE 0) + low : low \in {0, 128, 255}}
HasBit15(word) == (word \div 32768) % 2 = 1

-------------------------------------------------------------------------------
(* The chip *)

\* 0xB8xx: with no room the byte takes the place of the last one.
Put(byte) ==
  IF Len(tx) < TX_LEN THEN Append(tx, byte) ELSE [tx EXCEPT ![TX_LEN] = byte]

\* A byte goes on the air.
Shift ==
  /\ mode = "tx" /\ tx # <<>>
  /\ tx' = Tail(tx)
  /\ due' = IF careless THEN due ELSE Tail(due)
  /\ UNCHANGED <<call, left, mode, fifo, filling, got, careless, rx_history>>

\* A byte is received; it is lost in a full FIFO.
Arrive ==
  /\ mode = "rx" /\ filling
  /\ coming' = After(coming)
  /\ fifo' = IF Len(fifo) < FIFO_LEN THEN Append(fifo, coming) ELSE fifo
  /\ gap' = (gap \/ Len(fifo) = FIFO_LEN)
  /\ UNCHANGED <<call, left, mode, tx, filling, got, tx_history, want, waited>>

\* The chip leaves or enters transmission: bytes still in the register are not sent.
Switch(m) ==
  /\ mode' = m
  /\ tx' = <<>>
  /\ careless' = (careless \/ (m # "tx" /\ tx # <<>>))
  /\ due' = IF careless' THEN <<>> ELSE due

-------------------------------------------------------------------------------
(* Sending *)

\* Three bytes of preamble and the two the receiver synchronises to, 0x2DD4, come first.
OnAir(buff) == <<170, 170, 170, 45, 212>> \o buff

\* Is the transmitter free to take up a new frame?
Clean == mode = "tx" /\ (careless => tx = <<>>)

Begin(function, bytes) ==
  /\ Idle
  /\ call' = function /\ left' = bytes
  /\ careless' = ~Clean
  /\ due' = IF ~Clean THEN <<>> ELSE (IF careless THEN <<>> ELSE due) \o bytes
  /\ UNCHANGED <<chip_vars, got, rx_history>>

Rfm12bSendBuff == \E buff \in Buffers : Begin("sendbuff", OnAir(buff))

Rfm12bSendByte == \E byte \in {1} : Begin("sendbyte", <<byte>>)

\* Mutant: the loop over the buffer runs one turn too many.
WrittenOnceMore ==
  /\ tx' = Put(Head(left))
  /\ left' = Tail(left)
  /\ call' = IF left = <<>> THEN "none" ELSE call
  /\ UNCHANGED <<mode, fifo, filling, got, rx_history>>

Written ==
  /\ tx' = Put(Head(left))
  /\ left' = Tail(left)
  /\ call' = IF Len(left) = 1 THEN "none" ELSE call
  /\ UNCHANGED <<mode, fifo, filling, got, rx_history>>

\* Mutant: the loop is left whatever the status.
rfSendBlindly ==
  /\ call = "sendbuff"
  /\ Written
  /\ UNCHANGED tx_history

\* Mutant: the status is kept in a uint8_t.
rfSendCut ==
  /\ call = "sendbuff"
  /\ \E status \in Statuses : HasBit15(status % 256)
  /\ Written
  /\ UNCHANGED tx_history

\* The loop of rfSend ends, the byte is written.
rfSend ==
  /\ call = "sendbuff"
  /\ \E status \in Statuses : HasBit15(status)
  /\ Written
  /\ UNCHANGED tx_history

\* The status Rfm12bSendByte tests first is not initialised: the loop may be left at once.
SendByteWritten ==
  /\ call = "sendbyte"
  /\ Written
  /\ careless' = (careless \/ ~Bit15)
  /\ due' = IF careless' THEN <<>> ELSE due

rfm12bSwitchTx ==
  /\ Idle
  /\ mode' = "tx"
  /\ UNCHANGED <<call, left, tx, fifo, filling, got, tx_history, rx_history>>

-------------------------------------------------------------------------------
(* Receiving *)

rfm12bSwitchRx ==
  /\ Idle
  /\ Switch("rx")
  /\ UNCHANGED <<call, left, fifo, filling, got, rx_history>>

\* Mutant: the FIFO is stopped and not cleared.
FifoResetKeeps ==
  /\ Idle
  /\ filling' = TRUE
  /\ want' = coming /\ waited' = FALSE /\ gap' = FALSE
  /\ UNCHANGED <<call, left, mode, tx, fifo, got, tx_history, coming>>

\* 0xCA81 stops and clears the FIFO, 0xCA83 lets it fill.
rfm12bFifoReset ==
  /\ Idle
  /\ fifo' = <<>> /\ filling' = TRUE
  /\ want' = coming /\ waited' = FALSE /\ gap' = FALSE
  /\ UNCHANGED <<call, left, mode, tx, got, tx_history, coming>>

\* 0xB000 takes a byte out of the FIFO.
rfm12bReadFifo ==
  /\ Idle
  /\ got' = IF fifo = <<>> THEN NoByte ELSE Head(fifo)
  /\ fifo' = IF fifo = <<>> THEN fifo ELSE Tail(fifo)
  /\ want' = After(want)
  /\ waited' = FALSE
  /\ gap' = (gap \/ ~waited)
  /\ UNCHANGED <<call, left, mode, tx, filling, tx_history, coming>>

rfm12bWaitForData ==
  /\ Idle
  /\ call' = "wait"
  /\ UNCHANGED <<left, chip_vars, got, tx_history, rx_history>>

\* In transmission the same bit ends the wait, with nothing received.
WaitEnds ==
  /\ call = "wait"
  /\ \E status \in Statuses : HasBit15(status)
  /\ call' = "none"
  /\ waited' = (mode = "rx")
  /\ UNCHANGED <<left, chip_vars, got, tx_history, coming, want, gap>>

rfm12bRecv ==
  /\ Idle
  /\ call' = "recv"
  /\ UNCHANGED <<left, chip_vars, got, tx_history, rx_history>>

\* Mutant: the status is kept in all its bits.
RxWord(status) == status

\* rxByte is a uint8_t.
RxByte(status) == status % 256

\* One turn of the loop of rfm12bRecv.
RecvPolls ==
  /\ call = "recv"
  /\ \E status \in Statuses :
       call' = IF HasBit15(RxByte(status)) THEN "none" ELSE "recv"
  /\ UNCHANGED <<left, chip_vars, got, tx_history, rx_history>>

-------------------------------------------------------------------------------

\* Its commands end with the transmitter and the receiver off and the FIFO stopped.
Rfm12bInit ==
  /\ call = "none"
  /\ Switch("off")
  /\ fifo' = <<>> /\ filling' = FALSE
  /\ want' = coming /\ waited' = FALSE /\ gap' = FALSE
  /\ UNCHANGED <<call, left, got, coming>>

Init ==
  /\ call = "none" /\ left = <<>>
  /\ mode = "reset" /\ tx = <<>> /\ fifo = <<>> /\ filling = FALSE
  /\ got = NoByte
  /\ due = <<>> /\ careless = FALSE
  /\ coming = 0 /\ want = 0 /\ waited = FALSE /\ gap = FALSE

Driver == rfSend \/ SendByteWritten \/ WaitEnds \/ RecvPolls
Calls ==
  \/ Rfm12bInit \/ Rfm12bSendBuff \/ Rfm12bSendByte \/ rfm12bSwitchTx \/ rfm12bSwitchRx
  \/ rfm12bFifoReset \/ rfm12bReadFifo \/ rfm12bWaitForData \/ rfm12bRecv

Next == Shift \/ Arrive \/ Driver \/ Calls

\* The processor runs on, and a transmitter that is on transmits what it has.
Spec == Init /\ [][Next]_vars /\ WF_vars(Driver) /\ WF_vars(Shift)

-------------------------------------------------------------------------------
(* Properties *)

\* Type invariant; only the functions that send have bytes left.
TypeOK ==
  /\ call \in {"none", "sendbuff", "sendbyte", "wait", "recv"}
  /\ left \in Seq(Bytes) /\ (left # <<>> <=> call \in {"sendbuff", "sendbyte"})
  /\ mode \in {"reset", "off", "rx", "tx"}
  /\ tx \in Seq(Bytes) /\ Len(tx) <= TX_LEN
  /\ fifo \in Seq(Numbers) /\ Len(fifo) <= FIFO_LEN
  /\ filling \in BOOLEAN
  /\ got \in Numbers \cup {NoByte}
  /\ due \in Seq(Bytes) /\ careless \in BOOLEAN
  /\ coming \in Numbers /\ want \in Numbers /\ waited \in BOOLEAN /\ gap \in BOOLEAN

\* What is in the register and what the driver has left are the bytes the callers still wait
\* to be sent, each once and in order: a byte in the register is never written over, also not
\* by the next frame.  Frames are spoilt only by their callers, who send outside transmission
\* or leave it while bytes are in the register (the driver returns before they are sent), or
\* by Rfm12bSendByte.
FramesWhole == ~careless => tx \o left = due

\* A frame sent with the transmitter on is sent to its end.
SendsEnd == (call = "sendbuff" /\ mode = "tx") ~> call = "none"

\* A byte read after rfm12bWaitForData is the one that follows the byte read before, or the
\* first since the reset of the FIFO, unless one was lost in a full FIFO or read unawaited.
ReadsInOrder == [][rfm12bReadFifo /\ waited /\ ~gap => got' = want]_vars

\* rfm12bRecv never returns and never takes a byte out of the FIFO, whatever is received.
RecvIsForGood == [][call = "recv" => call' = "recv" /\ got' = got]_vars
=============================================================================
