----------------------------- MODULE Nrf24Proofs -----------------------------
(***************************************************************************)
(* Proofs about Nrf24 for FIFOs of any depth.                              *)
(***************************************************************************)
EXTENDS Nrf24, TLAPS

AllEarlier == \A k \in DOMAIN txFifo : txFifo[k] = "earlier"

\* RX_DR tells of a frame, but for the moment between the access that takes the last one
\* away and the one that clears the flag.
FlagHasFrame ==
  /\ "RX_DR" \in flags /\ pc \notin {"rx_clear", "up_clear"} => rxFifo > 0
  /\ pc = "rx_payload" => rxFifo > 0

\* Until the payload is written the FIFO holds older frames only; from then on an
\* acknowledgement of it shows in TX_DS.
AckedShows ==
  /\ pc \in {"tx_clear", "tx_config", "tx_payload"} => ~acked /\ AllEarlier
  /\ pc \in {"tx_start", "tx_poll"} /\ acked => "TX_DS" \in flags

\* A call that found the FIFO empty has it to itself.
CleanIsAlone ==
  /\ pc \in {"tx_clear", "tx_config", "tx_payload"} /\ clean => txFifo = <<>>
  /\ pc \in {"tx_config", "tx_payload"} /\ clean => "TX_DS" \notin flags
  /\ pc \in {"tx_start", "tx_poll"} /\ clean =>
       acked \/ ("TX_DS" \notin flags /\ Len(txFifo) = 1 /\ txFifo[1] = "latest")

\* Who answered does not listen, and what is read was there.
Deaf ==
  /\ pc \in {"tx_clear", "tx_config", "tx_payload", "tx_start"} => ~ce /\ answered
  /\ pc \in {"tx_payload", "tx_start"} => mode = "tx"
  /\ mode = "rx" /\ ce => ~answered
  /\ answered => reads + rxFifo <= RX_FIFO_DEPTH
  /\ ~answered => reads = 0

IInv == TypeOK /\ FlagHasFrame /\ AckedShows /\ CleanIsAlone /\ Deaf

-------------------------------------------------------------------------------

LEMMA TailOf ==
  ASSUME NEW S, NEW s \in Seq(S), s # <<>>
  PROVE  /\ Head(s) = s[1]
         /\ Tail(s) \in Seq(S) /\ Len(Tail(s)) = Len(s) - 1
         /\ \A k \in DOMAIN Tail(s) : k + 1 \in DOMAIN s /\ Tail(s)[k] = s[k + 1]
<1>1. Len(s) \in Nat \ {0} /\ DOMAIN s = 1 .. Len(s)
  OBVIOUS
<1>2. Head(s) = s[1] /\ Tail(s) \in Seq(S) /\ Len(Tail(s)) = Len(s) - 1
  OBVIOUS
<1>3. DOMAIN Tail(s) = 1 .. Len(s) - 1
  BY <1>1, <1>2
<1>4. ASSUME NEW k \in 1 .. Len(s) - 1 PROVE k + 1 \in DOMAIN s /\ Tail(s)[k] = s[k + 1]
  BY <1>1
<1> QED BY <1>2, <1>3, <1>4

LEMMA InitIInv == Init => IInv
<1> SUFFICES ASSUME Init PROVE IInv
  OBVIOUS
<1>1. TypeOK
  <2>1. TX_FIFO_DEPTH \in Nat /\ RX_FIFO_DEPTH \in Nat
    BY DepthsAssumption
  <2>2. txFifo \in Seq({"latest", "earlier"}) /\ Len(txFifo) <= TX_FIFO_DEPTH
    BY <2>1 DEF Init
  <2>3. {clean, acked, answered} \subseteq BOOLEAN /\ flags \subseteq Flags
    BY DEF Init
  <2>4. rxFifo \in 0 .. RX_FIFO_DEPTH /\ reads \in Nat
    BY <2>1 DEF Init
  <2>5. mode \in {"off", "tx", "rx"} /\ ce \in BOOLEAN /\ onAir \in BOOLEAN /\ ~onAir /\ pc \in Pcs
    BY DEF Init, Pcs
  <2> QED BY <2>2, <2>3, <2>4, <2>5 DEF TypeOK
<1>2. FlagHasFrame /\ AckedShows /\ CleanIsAlone
  BY DEF Init, FlagHasFrame, AckedShows, CleanIsAlone
<1>3. Deaf
  BY DepthsAssumption DEF Init, Deaf
<1> QED BY <1>1, <1>2, <1>3 DEF IInv

LEMMA NextIInv == IInv /\ [Next]_vars => IInv'
<1> SUFFICES ASSUME IInv, [Next]_vars PROVE IInv'
  OBVIOUS
<1> USE DepthsAssumption
<1> USE DEF IInv, TypeOK, FlagHasFrame, AckedShows, CleanIsAlone, Deaf, AllEarlier, Pcs, SendPcs, Flags,
    history, chip, Goto
<1>1. CASE ChipStarts
  BY <1>1 DEF ChipStarts
<1>2. CASE ChipAcked
  <2>1. /\ txFifo # <<>> /\ Head(txFifo) = txFifo[1]
        /\ Tail(txFifo) \in Seq({"latest", "earlier"}) /\ Len(Tail(txFifo)) = Len(txFifo) - 1
        /\ \A k \in DOMAIN Tail(txFifo) : k + 1 \in DOMAIN txFifo /\ Tail(txFifo)[k] = txFifo[k + 1]
    <3>1. txFifo \in Seq({"latest", "earlier"}) /\ txFifo # <<>>
      BY <1>2 DEF ChipAcked
    <3> QED BY <3>1, TailOf
  <2>2. TypeOK'
    <3>1. txFifo' \in Seq({"latest", "earlier"}) /\ Len(txFifo') <= TX_FIFO_DEPTH
      BY <1>2, <2>1 DEF ChipAcked
    <3>2. onAir' = FALSE /\ flags' \subseteq Flags /\ acked' \in BOOLEAN
      BY <1>2 DEF ChipAcked
    <3> QED BY <1>2, <3>1, <3>2 DEF ChipAcked
  <2>5. FlagHasFrame' /\ Deaf'
    BY <1>2 DEF ChipAcked
  <2>3. AckedShows'
    BY <1>2, <2>1 DEF ChipAcked
  <2>4. CleanIsAlone'
    BY <1>2, <2>1 DEF ChipAcked
  <2> QED BY <2>2, <2>3, <2>4, <2>5
<1>3. CASE ChipGivesUp
  <2>1. UNCHANGED <<mode, ce, txFifo, rxFifo, pc, history>> /\ onAir' = FALSE
    BY <1>3 DEF ChipGivesUp
  <2>2. TypeOK'
    BY <1>3, <2>1 DEF ChipGivesUp
  <2>3. FlagHasFrame' /\ AckedShows'
    BY <1>3, <2>1 DEF ChipGivesUp
  <2>4. CleanIsAlone' /\ Deaf'
    BY <1>3, <2>1 DEF ChipGivesUp
  <2> QED BY <2>2, <2>3, <2>4
<1>4. CASE ChipStops
  <2>1. UNCHANGED <<mode, ce, flags, txFifo, rxFifo, pc, history>> /\ onAir' = FALSE
    BY <1>4 DEF ChipStops
  <2>2. TypeOK'
    BY <2>1
  <2>3. FlagHasFrame' /\ AckedShows'
    BY <2>1
  <2>4. CleanIsAlone' /\ Deaf'
    BY <2>1
  <2> QED BY <2>2, <2>3, <2>4
<1>5. CASE ChipReceives
  BY <1>5 DEF ChipReceives
<1>6. CASE nrf24_send
  <2>1. /\ txFifo' \in Seq({"latest", "earlier"}) /\ Len(txFifo') = Len(txFifo)
        /\ AllEarlier' /\ (txFifo = <<>> => txFifo' = <<>>) /\ (txFifo # <<>> => txFifo' # <<>>)
    BY <1>6 DEF nrf24_send
  <2>2. TypeOK'
    BY <1>6, <2>1 DEF nrf24_send
  <2>3. FlagHasFrame' /\ AckedShows' /\ Deaf'
    BY <1>6, <2>1 DEF nrf24_send
  <2>4. CleanIsAlone'
    <3>1. clean' => txFifo = <<>>
      BY <1>6 DEF nrf24_send
    <3>2. pc' = "tx_clear"
      BY <1>6 DEF nrf24_send
    <3> QED BY <3>1, <3>2, <2>1
  <2> QED BY <2>2, <2>3, <2>4
<1>7. CASE TxClear
  BY <1>7 DEF TxClear
<1>8. CASE TxConfig
  BY <1>8 DEF TxConfig
<1>9. CASE TxPayload
  <2>1. /\ txFifo' \in Seq({"latest", "earlier"}) /\ Len(txFifo') <= TX_FIFO_DEPTH
        /\ txFifo' # <<>>
        /\ txFifo = <<>> => Len(txFifo') = 1 /\ txFifo'[1] = "latest"
    BY <1>9 DEF TxPayload
  <2> QED BY <1>9, <2>1 DEF TxPayload
<1>10. CASE TxStart
  BY <1>10 DEF TxStart
<1>11. CASE SendReturn
  BY <1>11 DEF SendReturn
<1>12. CASE nrf24_dataReady
  BY <1>12 DEF nrf24_dataReady
<1>13. CASE DataReadyByFifo
  BY <1>13 DEF DataReadyByFifo, nrf24_rxFifoEmpty
<1>14. CASE nrf24_getData
  BY <1>14 DEF nrf24_getData
<1>15. CASE RxClear
  BY <1>15 DEF RxClear
<1>16. CASE nrf24_config
  BY <1>16 DEF nrf24_config
<1>17. CASE nrf24_powerUpRx
  BY <1>17 DEF nrf24_powerUpRx
<1>18. CASE UpFlush
  BY <1>18 DEF UpFlush
<1>19. CASE UpClear
  BY <1>19 DEF UpClear
<1>20. CASE UpListen
  BY <1>20 DEF UpListen
<1>21. CASE nrf24_powerDown
  BY <1>21 DEF nrf24_powerDown
<1>22. CASE nRF24_restore_defaults
  BY <1>22 DEF nRF24_restore_defaults
<1>23. CASE RestoreClear
  BY <1>23 DEF RestoreClear
<1>24. CASE UNCHANGED vars
  BY <1>24 DEF vars
<1> QED
  BY <1>1, <1>2, <1>3, <1>4, <1>5, <1>6, <1>7, <1>8, <1>9, <1>10, <1>11, <1>12, <1>13, <1>14, <1>15,
     <1>16, <1>17, <1>18, <1>19, <1>20, <1>21, <1>22, <1>23, <1>24 DEF Next, Chip, Call, Access

THEOREM SpecIInv == Spec => []IInv
<1>1. Init => IInv
  BY InitIInv
<1>2. IInv /\ [Next]_vars => IInv'
  BY NextIInv
<1> QED BY <1>1, <1>2, PTL DEF Spec

\* The chip, the driver and the histories are well typed, whatever the FIFOs' depths.
THEOREM TypeCorrect == Spec => []TypeOK
<1>1. IInv => TypeOK
  BY DEF IInv
<1> QED BY <1>1, SpecIInv, PTL

\* Once it has answered, the radio gives the broker no more frames than a FIFO holds.
THEOREM DeafOnceAnsweredHolds == Spec => []DeafOnceAnswered
<1>1. IInv => DeafOnceAnswered
  BY DepthsAssumption DEF IInv, TypeOK, Deaf, DeafOnceAnswered
<1> QED BY <1>1, SpecIInv, PTL

\* nrf24_dataReady never lies: getData finds a frame, and a 0 means that none waits.
THEOREM DataReadyIsExactHolds == Spec => DataReadyIsExact
<1>1. IInv /\ IInv' /\ [Next]_vars =>
        [/\ pc' = "rx_payload" => rxFifo' > 0
         /\ pc = "rx_fifo" /\ pc' = "idle" => rxFifo = 0]_vars
  <2> SUFFICES ASSUME IInv, IInv', Next
               PROVE  /\ pc' = "rx_payload" => rxFifo' > 0
                      /\ pc = "rx_fifo" /\ pc' = "idle" => rxFifo = 0
    OBVIOUS
  <2>1. pc' = "rx_payload" => rxFifo' > 0
    BY DEF IInv, FlagHasFrame
  <2>2. pc = "rx_fifo" /\ pc' = "idle" => rxFifo = 0
    BY DEF Next, Chip, Call, Access, Goto, history, ChipStarts, ChipAcked, ChipGivesUp, ChipStops,
       ChipReceives, nrf24_send, TxClear, TxConfig, TxPayload, TxStart, SendReturn, nrf24_dataReady,
       DataReadyByFifo, nrf24_rxFifoEmpty, nrf24_getData, RxClear, nrf24_config, nrf24_powerUpRx,
       UpFlush, UpClear, UpListen, nrf24_powerDown, nRF24_restore_defaults, RestoreClear
  <2> QED BY <2>1, <2>2
<1> QED BY <1>1, SpecIInv, PTL DEF Spec, DataReadyIsExact

\* What is reported lost was not acknowledged; what is reported OK by a call that found the
\* FIFO empty was.
THEOREM ReportIsTrueFromEmptyHolds == Spec => ReportIsTrueFromEmpty
<1>1. IInv /\ [Next]_vars =>
        [pc = "tx_poll" /\ pc' = "idle" =>
           /\ nrf24_lastMessageStatus = "NRF24_MESSAGE_LOST" => ~acked
           /\ nrf24_lastMessageStatus = "NRF24_TRANSMISSON_OK" /\ clean => acked]_vars
  BY DEF IInv, AckedShows, CleanIsAlone, nrf24_lastMessageStatus
<1> QED BY <1>1, SpecIInv, PTL DEF Spec, ReportIsTrueFromEmpty
===============================================================================
