-------------------------------- MODULE Nrf24 --------------------------------
(***************************************************************************)
(* The nRF24 driver of nrf24.c with its chip.  The driver is one thread;   *)
(* every SPI access or turn of CE is a step, and the chip works between    *)
(* them: it sends the oldest frame of its TX FIFO until that one is        *)
(* acknowledged (TX_DS) or the retries run out (MAX_RT, which stops it),   *)
(* and receives into its RX FIFO (RX_DR).                                  *)
(*                                                                         *)
(* pc names the driver's next access.  What frames hold does not matter,   *)
(* only which of those in the TX FIFO is that of the latest nrf24_send;    *)
(* of the RX FIFO the number of frames is enough.                          *)
(***************************************************************************)
EXTENDS Integers, Sequences

CONSTANTS
  TX_FIFO_DEPTH,    \* 3
  RX_FIFO_DEPTH     \* 3

ASSUME DepthsAssumption == {TX_FIFO_DEPTH, RX_FIFO_DEPTH} \subseteq Nat \ {0}

VARIABLES
  mode,     \* CONFIG: "off", "tx" (PWR_UP) or "rx" (PWR_UP and PRIM_RX)
  ce,       \* the CE line
  flags,    \* STATUS: RX_DR, TX_DS, MAX_RT
  txFifo,   \* of each frame whether it is the "latest" written or an "earlier" one
  onAir,    \* the oldest frame of txFifo is being transmitted
  rxFifo,   \* number of frames received and not read
  pc,
  clean,    \* the TX FIFO was empty when the latest nrf24_send began (history)
  acked,    \* the frame of the latest nrf24_send has been acknowledged (history)
  answered, \* nrf24_send was called since the radio last began to listen (history)
  reads     \* frames read since then (history)

chip == <<mode, ce, flags, txFifo, onAir, rxFifo>>
history == <<clean, acked, answered, reads>>
vars == <<chip, pc, history>>

Flags == {"RX_DR", "TX_DS", "MAX_RT"}
TxEnd == {"TX_DS", "MAX_RT"}

Goto(from, to) == pc = from /\ pc' = to

-------------------------------------------------------------------------------
(* Chip *)

ChipStarts ==
  /\ mode = "tx" /\ ce /\ ~onAir
  /\ txFifo # <<>>
  /\ "MAX_RT" \notin flags
  /\ onAir' = TRUE
  /\ UNCHANGED <<mode, ce, flags, txFifo, rxFifo, pc, history>>

ChipAcked ==
  /\ onAir
  /\ onAir' = FALSE
  /\ flags' = flags \cup {"TX_DS"}
  /\ acked' = (acked \/ Head(txFifo) = "latest")
  /\ txFifo' = Tail(txFifo)
  /\ UNCHANGED <<mode, ce, rxFifo, pc, clean, answered, reads>>

ChipGivesUp ==
  /\ onAir
  /\ onAir' = FALSE
  /\ flags' = flags \cup {"MAX_RT"}
  /\ UNCHANGED <<mode, ce, txFifo, rxFifo, pc, history>>

\* With CE low or in another mode the chip may also leave the frame, without a flag.
ChipStops ==
  /\ onAir
  /\ ~ce \/ mode # "tx"
  /\ onAir' = FALSE
  /\ UNCHANGED <<mode, ce, flags, txFifo, rxFifo, pc, history>>

ChipReceives ==
  /\ mode = "rx" /\ ce
  /\ rxFifo < RX_FIFO_DEPTH
  /\ rxFifo' = rxFifo + 1
  /\ flags' = flags \cup {"RX_DR"}
  /\ UNCHANGED <<mode, ce, txFifo, onAir, pc, history>>

-------------------------------------------------------------------------------
(* nrf24_send *)

\* Mutant: the TX FIFO is flushed when the call begins.
nrf24_send_flushing ==
  /\ Goto("idle", "tx_clear")
  /\ ce' = FALSE
  /\ clean' = (txFifo = <<>>)
  /\ acked' = FALSE
  /\ answered' = TRUE
  /\ txFifo' = <<>>
  /\ UNCHANGED <<mode, flags, onAir, rxFifo, reads>>

nrf24_send ==
  /\ Goto("idle", "tx_clear")
  /\ ce' = FALSE
  /\ clean' = (txFifo = <<>>)
  /\ acked' = FALSE
  /\ answered' = TRUE
  /\ txFifo' = [k \in DOMAIN txFifo |-> "earlier"]
  /\ UNCHANGED <<mode, flags, onAir, rxFifo, reads>>

\* Mutant: only RX_DR is cleared.
TxClearRxOnly ==
  /\ Goto("tx_clear", "tx_config")
  /\ flags' = flags \ {"RX_DR"}
  /\ UNCHANGED <<mode, ce, txFifo, onAir, rxFifo, history>>

\* nrf24_powerUpTx: STATUS, then CONFIG.
TxClear ==
  /\ Goto("tx_clear", "tx_config")
  /\ flags' = {}
  /\ UNCHANGED <<mode, ce, txFifo, onAir, rxFifo, history>>

TxConfig ==
  /\ Goto("tx_config", "tx_payload")
  /\ mode' = "tx"
  /\ UNCHANGED <<ce, flags, txFifo, onAir, rxFifo, history>>

\* The FIFO is not flushed; a full one ignores the payload.
TxPayload ==
  /\ Goto("tx_payload", "tx_start")
  /\ txFifo' = IF Len(txFifo) < TX_FIFO_DEPTH THEN Append(txFifo, "latest") ELSE txFifo
  /\ UNCHANGED <<mode, ce, flags, onAir, rxFifo, history>>

TxStart ==
  /\ Goto("tx_start", "tx_poll")
  /\ ce' = TRUE
  /\ UNCHANGED <<mode, flags, txFifo, onAir, rxFifo, history>>

\* Mutant: the end of the retries is not looked for.
isSendingUntilAck == "TX_DS" \notin flags

nrf24_isSending == flags \cap TxEnd = {}

\* Mutant: the radio goes back to receiving.
SendReturnListening ==
  /\ Goto("tx_poll", "idle")
  /\ ~nrf24_isSending
  /\ mode' = "rx"
  /\ UNCHANGED <<ce, flags, txFifo, onAir, rxFifo, history>>

SendReturn ==
  /\ Goto("tx_poll", "idle")
  /\ ~nrf24_isSending
  /\ UNCHANGED <<chip, history>>

nrf24_lastMessageStatus ==
  IF "TX_DS" \in flags THEN "NRF24_TRANSMISSON_OK"
  ELSE IF "MAX_RT" \in flags THEN "NRF24_MESSAGE_LOST"
  ELSE "sending"

-------------------------------------------------------------------------------
(* nrf24_dataReady and nrf24_getData, as broker_rec calls them *)

nrf24_dataReady ==
  /\ pc = "idle"
  /\ pc' = IF "RX_DR" \in flags THEN "rx_payload" ELSE "rx_fifo"
  /\ UNCHANGED <<chip, history>>

nrf24_rxFifoEmpty == rxFifo = 0

DataReadyByFifo ==
  /\ pc = "rx_fifo"
  /\ pc' = IF nrf24_rxFifoEmpty THEN "idle" ELSE "rx_payload"
  /\ UNCHANGED <<chip, history>>

nrf24_getData ==
  /\ Goto("rx_payload", "rx_clear")
  /\ rxFifo' = IF rxFifo > 0 THEN rxFifo - 1 ELSE 0
  /\ reads' = IF answered THEN reads + 1 ELSE 0
  /\ UNCHANGED <<mode, ce, flags, txFifo, onAir, clean, acked, answered>>

RxClear ==
  /\ Goto("rx_clear", "idle")
  /\ flags' = flags \ {"RX_DR"}
  /\ UNCHANGED <<mode, ce, txFifo, onAir, rxFifo, history>>

-------------------------------------------------------------------------------
(* nrf24_config, nrf24_powerUpRx, nrf24_powerDown, nRF24_restore_defaults *)

nrf24_config ==
  /\ Goto("idle", "up_flush")
  /\ mode' = "off"
  /\ UNCHANGED <<ce, flags, txFifo, onAir, rxFifo, history>>

nrf24_powerUpRx ==
  /\ Goto("idle", "up_flush")
  /\ UNCHANGED <<chip, history>>

UpFlush ==
  /\ Goto("up_flush", "up_clear")
  /\ rxFifo' = 0
  /\ UNCHANGED <<mode, ce, flags, txFifo, onAir, history>>

\* Mutant: the flags are not cleared.
UpWithoutClear ==
  /\ Goto("up_clear", "up_listen")
  /\ UNCHANGED <<chip, history>>

UpClear ==
  /\ Goto("up_clear", "up_listen")
  /\ flags' = {}
  /\ UNCHANGED <<mode, ce, txFifo, onAir, rxFifo, history>>

\* CE low, CONFIG, CE high.
UpListen ==
  /\ Goto("up_listen", "idle")
  /\ mode' = "rx"
  /\ ce' = TRUE
  /\ answered' = FALSE
  /\ reads' = 0
  /\ UNCHANGED <<flags, txFifo, onAir, rxFifo, clean, acked>>

nrf24_powerDown ==
  /\ pc = "idle"
  /\ mode' = "off"
  /\ ce' = FALSE
  /\ UNCHANGED <<flags, txFifo, onAir, rxFifo, pc, history>>

\* FLUSH_RX and FLUSH_TX are sent while CSN is high: the chip does not hear them.
nRF24_restore_defaults ==
  /\ Goto("idle", "restore_clear")
  /\ mode' = "off"
  /\ UNCHANGED <<ce, flags, txFifo, onAir, rxFifo, history>>

RestoreClear ==
  /\ Goto("restore_clear", "idle")
  /\ flags' = {}
  /\ UNCHANGED <<mode, ce, txFifo, onAir, rxFifo, history>>

-------------------------------------------------------------------------------
(* Specification *)

Init ==
  /\ mode = "off" /\ ce = FALSE /\ flags = {}
  /\ txFifo = <<>> /\ onAir = FALSE /\ rxFifo = 0
  /\ pc = "idle"
  /\ clean = TRUE /\ acked = FALSE /\ answered = FALSE /\ reads = 0

Chip == ChipStarts \/ ChipAcked \/ ChipGivesUp \/ ChipStops \/ ChipReceives

Call ==
  \/ nrf24_send
  \/ nrf24_dataReady
  \/ nrf24_config
  \/ nrf24_powerUpRx
  \/ nrf24_powerDown
  \/ nRF24_restore_defaults

Access ==
  \/ TxClear \/ TxConfig \/ TxPayload \/ TxStart \/ SendReturn
  \/ DataReadyByFifo \/ nrf24_getData \/ RxClear
  \/ UpFlush \/ UpClear \/ UpListen
  \/ RestoreClear

Next == Chip \/ Call \/ Access

\* The thread goes on with the call it is in; a chip told to send does, and its retries end.
Fairness ==
  /\ WF_vars(Access)
  /\ WF_vars(ChipStarts)
  /\ WF_vars(ChipAcked \/ ChipGivesUp)

Spec == Init /\ [][Next]_vars /\ Fairness

-------------------------------------------------------------------------------
(* Properties *)

SendPcs == {"tx_clear", "tx_config", "tx_payload", "tx_start", "tx_poll"}
Pcs == SendPcs \cup {"idle", "rx_fifo", "rx_payload", "rx_clear",
                     "up_flush", "up_clear", "up_listen", "restore_clear"}

\* Type invariant of chip, driver and histories; what is on the air is in the FIFO.
TypeOK ==
  /\ mode \in {"off", "tx", "rx"}
  /\ ce \in BOOLEAN
  /\ flags \subseteq Flags
  /\ txFifo \in Seq({"latest", "earlier"}) /\ Len(txFifo) <= TX_FIFO_DEPTH
  /\ onAir \in BOOLEAN /\ (onAir => txFifo # <<>>)
  /\ rxFifo \in 0 .. RX_FIFO_DEPTH
  /\ pc \in Pcs
  /\ {clean, acked, answered} \subseteq BOOLEAN
  /\ reads \in Nat

\* nrf24_dataReady is right whenever it answers, although it reads flag and FIFO one after
\* the other and the flag is cleared by other calls at other times: 1 means that getData
\* will find a frame, 0 that none waits.
DataReadyIsExact ==
  [][/\ pc' = "rx_payload" => rxFifo' > 0
     /\ pc = "rx_fifo" /\ pc' = "idle" => rxFifo = 0]_vars

\* What nrf24_lastMessageStatus tells when nrf24_send returns.  A message reported lost was
\* not acknowledged; one reported OK was, if no older frame was left in the FIFO, whatever
\* the chip was doing when the call began.
ReportIsTrueFromEmpty ==
  [][pc = "tx_poll" /\ pc' = "idle" =>
       /\ nrf24_lastMessageStatus = "NRF24_MESSAGE_LOST" => ~acked
       /\ nrf24_lastMessageStatus = "NRF24_TRANSMISSON_OK" /\ clean => acked]_vars

\* Once nrf24_send was called the radio is deaf: until someone calls nrf24_powerUpRx (which
\* broker_rec and broker_send do not), only frames that waited already are read.
DeafOnceAnswered == reads <= RX_FIFO_DEPTH

\* Every call returns, in particular the polling loop of nrf24_send: a flag it could wait for
\* is never cleared, nor is the chip left with nothing to send.
CallsReturn == pc # "idle" ~> pc = "idle"

\* nrf24.c:342, "Transmission went OK": so the message sent last was.  (Refuted: a frame left
\* by an earlier call is acknowledged first.)
OkMeansSent ==
  [][pc = "tx_poll" /\ pc' = "idle" /\ nrf24_lastMessageStatus = "NRF24_TRANSMISSON_OK"
       => acked]_vars
===============================================================================
