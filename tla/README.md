# Verification of home_control_center_cpp

TLA+ models of the firmware of a small home control centre (STM32F103, nRF24L01 and RFM12B
radios, an MQTT broker written by the project's author and a copy of the wolfMQTT client), the
TLC runs that check them, and TLAPS proofs of what they promise. Line numbers are those of
the sources beside this directory; `PROJECT.json` maps every definition to them.

## 1. The system

### Components

| component | source | state | operations |
|---|---|---|---|
| Broker dispatcher and client table | `tiny_broker/tiny_broker.c` | `broker_t.clients`: 8 records `{id, sockaddr, connected, keepalive, subs_topic[], ...}` | `broker_packets_dispatcher`: CONNECT, PUBLISH, SUBSCRIBE, UNSUBSCRIBE, PINGREQ; every other type has no case |
| Subscription table | `tiny_broker/tiny_broker.c` 406-548 | `subs_topic[8]` of one record: name, QoS; `name[0] == 0` is a free slot | `add_subscriptions_from_list`, `delete_listed_subscriptions` |
| Packet decoders and encoders | `tiny_broker/tiny_broker.c` | none | `decode_pck_len`, `broker_decode_*`, `encode_*` |
| Layer 3 transport | `src/nrf24.c` 43-108 | none of its own: the reassembly buffer is an uninitialised automatic variable | `l3_send_packet`, `l3_receive_packet` |
| nRF24 driver | `src/nrf24.c`, `src/nrf24_hal.c` | the chip: mode, TX and RX FIFO, RX_DR, TX_DS, MAX_RT | `nrf24_send`, `nrf24_isSending`, `nrf24_dataReady`, `nrf24_getData`, power modes |
| Broker callbacks and main loop | `src/main.cpp` | `data_array` | `broker_conn/send/rec/discon`; `main` itself only transmits a test text over the RFM12B |
| RFM12B driver | `src/__rfm12b.c` | the chip: mode, transmit register, receive FIFO, status bit 15 | `Rfm12bInit`, `Rfm12bSendBuff`, `Rfm12bSendByte`, `rfm12bRecv`, ...: busy waits on the status word |
| MQTT client | `src/mqtt_client.c` | `msg->stat` of each message, `packet.stat`, buffers | connect, publish, subscribe, unsubscribe, ping, wait; each may return in the middle and be called again |
| MQTT packet codec | `src/mqtt_packet.c` | `packet.stat`, `header_len`, `remain_len` | encoders, decoders, the resumable `MqttPacket_Read` |
| MQTT socket | `src/mqtt_socket.c` | `read.pos`, `write.pos`, flags | partial reads and writes |
| UART, printf, GPIO, sensors, display, FreeRTOS, start-up | `src/`, `FreeRTOS/`, `Libraries/` | - | output, register writes, third-party code the program does not call |

### How they interact

A remote node's client encodes an MQTT packet; its layer 3 cuts it into numbered frames of 26 data
bytes and hands each to `nrf24_send`, which polls the chip. At the centre `broker_rec` polls
`nrf24_dataReady`, reads one frame with `nrf24_getData` and calls `l3_receive_packet`, which
gives back a length once a packet is complete. The broker's dispatcher decodes it, changes the
client table, and answers through `broker_send`, which is `l3_send_packet` the other way. All
calls are synchronous on one thread; what runs concurrently are the nodes and the chips.

### What is hard about it

- several senders share one reassembly buffer, whose contents survive between two calls only
  as long as no other function uses the same stack;
- radio frames are lost, delayed past the maximum of retries and heard twice;
- a record of the client table is removed before its replacement is stored, and the answer is
  computed in between; which record that is, `strcmp` decides beyond the end of the client id;
- names are compared over the length of the *requested* name, so topics that begin with one
  another meet in the subscription table;
- bounded tables that are met full in the middle of a list, with an early return;
- a packet that fits a buffer by its length but not by its padding;
- the resumable client: a timeout ends a call in the middle of a packet, and what the next call
  finds is spread over five records (`msg->stat`, `packet.stat`, `read.pos`, `write.pos`, `tx_buf`);
- client and broker agree on few of the packets they exchange, so a client may wait for ever;
- busy waits without a timeout, and integers too narrow for what is kept in them.

`PROJECT.json`, "hazards", lists them one by one, each at its line, with the property that covers
it, or the reason why none does.

### What makes each component correct

- *Client table*: it is known who can cost a client its record, and what hole that leaves; the answer
  agrees with what happened to the table; nobody is ever counted as connected.
- *Subscription table*: it implements a bounded set of topics; no topic is stored twice; what
  was granted is covered; only a full table refuses; unsubscribing removes exactly what is named.
- *Layer 3*: each delivery used frames of its own, of one packet and since its first; a one-frame packet is delivered whatever came before; the buffer is not overrun.
- *Driver*: a frame reported as sent was this frame; a received frame is read; the polling ends.
- *Client*: a call that is repeated after a timeout sends its packet once and succeeds only with the
  answer to it, or where the network gave or took nothing; payloads reach the callback once and in order; positions stay in the buffers.
- *Codec*: decoding what the client encodes gives it back, or it is known when it does not.
- *Client with broker*: a request that is kept up succeeds, or it is known which ones cannot.
- *RFM12B driver*: no byte of a frame is written over; a frame is sent to its end; received bytes
  are read in order.

## 2. Modules

| module | what it is |
|---|---|
| `TopicTable` | the subscription table as pure operators: free slots, hits, one pass of the add loop, the fold over a list, deletion |
| `TopicFilters` | abstract specification: a bounded set of topics under grant, regrant, drop |
| `Subscriptions` | the two list functions of one client's table, one action per pass of their loops |
| `TinyBroker` | the client table and the dispatcher, one action per packet type; uses `TopicTable` for the tables in its records |
| `L3Transport` | senders, chips and the receiver with its stack-resident buffer |
| `Nrf24` | the nRF24 driver, one action per access to the chip, and the chip's modes, flags and FIFOs |
| `MqttCall` | abstract specification: a request is sent once and answered, however often it is called |
| `MqttClient` | the client's calls, packet reader and socket, down to single reads and writes of the network |
| `RemainLen` | the remaining length of a frame, encoded and decoded by both sides |
| `Frames` | the other encoders and decoders of client and broker, on bytes |
| `ClientBroker` | client, lossy link and broker: `INSTANCE`s `TinyBroker`, extends `Frames` |
| `Rfm12b` | the RFM12B driver and chip |
| `MC*` | values for the constants |
| `*Proofs` | theorems about the module of that name; `ClientBrokerProofs` also those about `RemainLen` and `Frames` |

Operators whose comment begins with "Mutant:" are wrong variants of the definition
after them. They are used by no specification; each makes one property fail when it takes
the place of that definition, which shows that the property depends on it.

### TinyBroker

`clients` is `broker_t.clients`, restricted to the fields some handler reads again: `id`, a sequence
of bytes (`<<>>` for `id[0] == 0`), `sockaddr`, `connected`, `subs`. `Connect` is the CONNECT case up to the
`_delay_ms(5000)` (clean session, add, validate, in this order: the record is added whatever
the verdict) and `SendConnAck` is the rest; every other handler is one action because nothing
interrupts the dispatcher. `sent` holds the packets the current frame was answered with.

- `broker_get_client_pos_by_id` compares with `strcmp`, but the identifier in the frame is not
  terminated there: the comparison goes on up to the next zero byte. If a will topic, user name or
  password follows, its length stands there, which `X_HTONS` has turned with its low byte
  first; the high byte is zero in a frame of 240 bytes. So a stored id is equal to the one in
  the frame *and that length*: `behind` in `ConnectFrames` is the one byte of it, or nothing when the
  following field is empty or there is none (`l3_receive_packet` has cleared the rest of the
  buffer). A client `a` with a user name of 32 bytes puts out the record of a client `a` with a
  space behind it, and never its own; the run's ids are chosen for that.
- `broker_create_new_client` copies texts by the length they were sent with. The models have ids
  shorter than `MAX_ID_SIZE` and other texts of at most their 32 bytes (`ClientIdsAssumption`,
  `FieldLengthsAssumption`, `EncodedConnect`); a longer one runs into the fields behind it, up to the
  subscriptions, and nothing is claimed of the table then.
- `broker_create_new_client` copies the address from its parameter's own bytes: the record holds
  `"stack"`, never the peer's address; and nothing sets `connected`.
- Address space: the program has 20 kB of RAM. `clients[NOT_FOUND]` lies beyond it: the write
  ends in `HardFault_Handler`. Reading or writing a table through a NULL client touches flash or
  faults: both outcomes are there (`Subscribe` without effect, `NullClientFault`). A QoS 0
  PUBLISH reads its packet identifier through an uninitialised pointer: both outcomes again.
- Frames are legal ones of QoS 0 to 2 with names and identifiers that fit; what the decoders make of
  bytes is in `Frames`, and `ClientBroker` hands it to these actions.

### Subscriptions

`Call` starts a loop over a list (any list of up to `MAX_SUBS_TOPIC` requests), each pass is
one action chosen by what the searches find (`ActualizeQos`, `AddNewSubscription`, `RefuseRest`,
`DeleteSubscribedTopic`), `Return` ends it. `RefuseRest` is the early return that answers all
remaining topics with the failure code. `before` is a history variable: the table as the
call found it.

In the composed broker nobody is ever connected (`NothingForwarded`), so the SUBSCRIBE handler
never reaches a table. The table's functions are therefore checked on their own, called directly
with arbitrary lists, as their declarations in `tiny_broker.h` allow.

### L3Transport

Byte `k` of packet `p` is the pair `<<p, k>>`; zero and "left by somebody else" are values of their
own, so what a buffer holds is known exactly. The 16-bit CRC is taken to distinguish different
contents (a collision is not modelled).

- *Senders*: `l3_send_packet` starts a packet, `nrf24_send` is one pass of its loop. The TX FIFO is
  not flushed: a frame whose retries ran out stays in it, a full FIFO swallows the next frame,
  and `nrf24_send` goes on in every case.
- *Chips* (external): the oldest frame of a FIFO is repeated until acknowledged. The receiving
  chip drops a repetition of the frame it heard last, so a frame is heard twice when another
  sender's comes between it and its late acknowledgement.
- *Receiver*: `Read` takes a frame as `broker_rec` does; `Collect`, `Deliver` and `Overrun` are the
  outcomes of `l3_receive_packet`. The buffer is found as the last call left it, except that
  the calls in between have used the stack from its upper end down: `depth` says how far, and
  every depth is possible at every call. The build in `Debug/` is not optimised, so the `memset`
  before the return (line 96) is executed and the buffer really is the same stack area.

### Nrf24

`pc` names the driver's next SPI access or turn of CE, so `nrf24_send` is `nrf24_send` (CE low),
`TxClear`, `TxConfig` (`nrf24_powerUpTx`), `TxPayload`, `TxStart` (CE high), `SendReturn` (the end of the
polling loop); `nrf24_dataReady` reads the flag and then, in `DataReadyByFifo`, the FIFO status;
`nrf24_getData` takes a frame and then, in `RxClear`, clears the flag; `UpFlush`, `UpClear`,
`UpListen` are `nrf24_powerUpRx`. The chip (external) works between any two of them: it transmits
the oldest frame while it is in transmit mode with CE high and MAX_RT clear, ends with TX_DS or
MAX_RT, and receives while it listens. A transmission under way when CE falls may end in
any of the ways the data sheet leaves open: with either flag or with none. Frames in the TX FIFO
are told apart only as that of the latest call and earlier ones, which is all that the
status report is about.

`L3Transport` keeps of this what the transport sees: a frame leaves the TX FIFO only by its
acknowledgement, a full FIFO swallows a payload, and `nrf24_send` returns whatever became of its frame.

### MqttClient

`pc` says where the running call is: writing its packet (`write`), writing an answer of its own
(`ack`), reading a packet (`read`) or the rest of a payload (`payload`), looking at what it read
(`handle`). One action is one call of `net->read` or `net->write` that moves any number of bytes, with
all the code up to the next one; `NetFails`, `OutOfBuffer` and `ReadsNothing` are the ways a call ends
early, `WritesNothing` is a write of 0. What a call leaves behind (`stat`, `part`, `packet`, `read`, `write`, `txbuf`, `msg`) is where
the next call goes on, whichever it is. `MqttClient_WaitType` is `EnterWait`, `PacketRead`,
`HandlePublish`/`HandleOther` and `Check`.

- *Bytes by their place.* The network holds whole packets and how many bytes of the first are read;
  `txbuf` says whose bytes, and from which on, the transmit buffer holds. A byte read or written
  anywhere else than at its own place ends the run in `pc = "astray"`, out of which only
  `MqttClient_Init` leads: what the code makes of misplaced bytes is not followed.
- *`cut`* is a history variable: set when the client gives up something half done (another packet
  encoded over a half-written one, `packet.stat` reset in the middle of a packet, the connection
  replaced, or the next part of a PUBLISH put over one that was not written).
  `TroubleOnlyAfterCut` says that this is the only way to go astray.
- *Nothing read or written.* 0 is `MQTT_CODE_SUCCESS`, so what `net->read` and `net->write` return for
  "nothing" is taken for success in some places. A write of 0 keeps `write.pos`; most calls return
  the 0 (`ReturnsNothing`), `MqttClient_Publish` asks for an error only and goes on with its next
  part or its wait (`PublishGoesOn`), an answer of the client's own counts as sent. A read of 0 is an
  error in the header, success in the rest of a packet, and in the payload loop it is made
  again, for as long as it takes: there the model may stutter for ever. `skipped` is the
  history of the requests whose answer, or rest, was passed over that way.
- *Network* (external): gives or takes any number of bytes, 0 included, or fails. The server answers a
  request or never does, and may send messages at any time.
- *Assumed*: arguments are valid, packets without their payload fit the buffers, the callback returns
  success, `WOLFMQTT_NONBLOCK` and TLS are off (as in this build).

### RemainLen and Frames

Pure operators on sequences of bytes: `MqttEncode_*` of the client, `broker_decode_*` and the two
encoders of the broker whose result is sent. `decode_pck_len` and `MqttDecode_RemainLen` share one loop and differ in the
width of the multiplier; positions of the topic lists are cut to a `uint8_t` (`Byte`); a read beyond
the frame or a write beyond `pld_topics` makes the list `astray`. The QoS byte an UNSUBSCRIBE does
not have is skipped as in the code (`AfterTopic`); the positions of a CONNECT and a PUBLISH are cut alike.

### ClientBroker

The client makes one request at a time, and its call again until it succeeds or the application gives
it up (`NewRequest`). Its calls are those of `MqttClient` with whole packets: `Call` sends what is not yet
sent, `Receive` takes a frame, `Timeout` ends the call. The frame on the link is the client's encoding;
`Dispatch` hands what the broker's decoder makes of it to the handlers of `TinyBroker` and puts
the bytes of the answer on the link back. Either link loses any frame.
The decoding depends on the request alone and is written as a function of it (`DecodedOf`).
`RequestsAssumption` says what a request is: texts and numbers the encoders take (`Encoded*`; a PUBLISH
with the identifier 0 is refused when its QoS is above 0), a frame of at most the broker's
`MAX_FRAME_SIZE` of 240 bytes, and in a CONNECT texts that fit their fields in a record, since the
broker copies them by the length they were sent with. `ConnectFrame` takes from the decoder's result what
`strcmp` sees behind the id (`LengthBehind`).

### Rfm12b

A function that polls the status is one action for the call and one for the turn of the loop that
ends it; the chip (`Shift`, `Arrive`; external) moves on in between. Bit 15 of the status tells of
room in the transmit register or of bytes in the FIFO, depending on the mode; the lower bits are any.
`careless` is a history variable: the caller sent outside transmission or left it with bytes in the
register, or `Rfm12bSendByte`, which first tests an uninitialised variable, did not wait for room.

## 3. Runs

| run | instance | question |
|---|---|---|
| `broker` | 3 records, 3 ids and the empty one (`a`, `a` and byte 32, byte 32 alone), a field of 32 bytes or none behind them, 1 peer, 1 topic | who loses a record to whom, which holes stay, what do the answers tell of it, under every sequence of frames? |
| `subscriptions` | 2 slots, lists of up to 2 of 4 names (the empty one, a topic, one that extends it, another), QoS 0 and 1 | do the loops implement the bounded set of topics, with codes that agree with it? |
| `l3_transport` | 2 senders, frames of 2 bytes, packets of 1 and 3 bytes, a buffer of 4, FIFOs of 2 | is what is delivered new, and a packet of one frame always delivered? |
| `l3_overrun` | as above with packets of 3 and 5 bytes, a buffer of 5, FIFOs of 1 | what overruns the buffer? |
| `nrf24` | FIFOs of 3, as in the chip; all calls in any order | are the driver's answers true? does the polling loop end? what can still be heard after an answer? |
| `client` | a CONNECT, a QoS 2 PUBLISH of 5 bytes in a `tx_buf` of 4, a message of 7 bytes in an `rx_buf` of 6, 2 packets on the network, 3 calls | is what a call leaves half done taken up where it stopped? |
| `client_broker` | 2 CONNECTs, PUBLISHes of every QoS, SUBSCRIBEs and UNSUBSCRIBEs of 1 to 3 topics, PINGREQ; 2 places for topics, 1 record, 1 frame on each link | which frames are read as written, which calls can succeed, which do? |
| `rfm12b` | frames of 0 to 2 bytes behind the preamble, register and FIFO of 2 | are frames sent whole and to their end, and bytes read in order? |
| `l3_fitting` | as `l3_overrun` | refuted: a packet no longer than the buffer never overruns it |
| `granted_name` | as `subscriptions` | refuted: a granted name is stored |
| `full_table` | as `broker` | refuted: a CONNECT to a full table is refused |
| `message_ok` | as `nrf24` | refuted: a message whose transmission "went OK" was sent |

**What the properties say.** Broker: `RecordsAreLostByName` says whom a CONNECT can cost a record:
the holder of its id, or of its id and one character more, one client at most;
`HolesOnlyByTheNameless` that the hole is filled by the same handler, but for clients without an id;
`SessionPresentMeansReplaced` that the flag tells of a record thrown away, not whose;
`AnswersFitTheTable` relates the code to the table. `NothingForwarded` says what the missing assignment of `connected`
amounts to: a correct-looking broker that never forwards anything. Subscriptions: `NoTopicTwice`,
`GrantedIsCovered`, `RefusedOnlyWhenFull`, `SubscribeKeepsTopics` hold between any two passes;
`AddIsTheFold` and `DeleteIsExact` compare the loops with the operators of `TopicTable` (which
`TinyBroker` uses); `ImplementsFilters` is refinement of `TopicFilters`. Layer 3:
`DeliveredAnew`, `OneFrameIsDelivered`, `OverrunOnlyByLong` (that a delivered packet is whole follows
from the exact CRC of the model and is no property here). Driver:
`DataReadyIsExact` (flag and FIFO are read and cleared at different moments, and the answer is right
all the same), `ReportIsTrueFromEmpty` (what is true about the status report: LOST always, OK when
no older frame was left), `CallsReturn` (no flag the loop waits for is cleared by anybody, nor is
the chip left with nothing to send), `DeafOnceAnswered` (after the first `nrf24_send` at most three
frames more are read, unless somebody calls `nrf24_powerUpRx`; in this program only
`nrf24_config` does, so a broker built on `broker_rec` and `broker_send` hears nothing after its
first answer).

Client: `KeepsPromise` is refinement of `MqttCall`: whatever is called in between, a request is sent
at most once, and its call succeeds only after its own answer was read or where the network gave or
took nothing for it (`Skip`: 0 is `MQTT_CODE_SUCCESS`, `mqtt_client.c:268` and `387`).
`TroubleOnlyAfterCut` is the claim behind "call it again": timeouts alone never lose a byte's place. `PayloadOnceInOrder` follows a
payload through all the calls that read a part of it. `DeafUntilInit` says what a timeout in the
middle of a packet ends in: `msg->stat` is still `MQTT_MSG_BEGIN` (`mqtt_client.c:264`), so the next
call resets `packet.stat` and not `read.pos`, and every read from then on is out of its buffer.
`CallsReturn`: only messages that keep coming keep a call waiting (`mqtt_client.c:311`), or a payload
loop whose reads give 0 for ever (`mqtt_client.c:110`).
Client with broker: `ReadsWhatFits` says exactly which frames the broker reads as they were written;
`SuccessIsExplained` which calls can succeed (the broker sends no SUBACK, UNSUBACK, PINGRESP or
PUBCOMP, and a PUBACK with the identifier's bytes swapped); `StrandedForGood` that a lost frame is never
sent again; `KeptUpSucceeds` is the liveness that is left. RFM12B: `FramesWhole` across two frames
sent one after the other, `ReadsInOrder` across a reset of the FIFO, `SendsEnd`, and `RecvIsForGood`
(`rxByte` is a `uint8_t`, the bit tested is 15).

**Findings.** Four runs refute what a comment, a constant or a header says:

1. `l3_fitting` - the last frame is copied with all its 26 bytes: a packet of 235 to 240 bytes has a
   tenth frame that ends at byte 259 of a buffer of 240 (`nrf24.c:89`).
2. `full_table` - `add_client` stores before the refusal is sent, at index 255 of a full table
   (`tiny_broker.c:211`).
3. `granted_name` - a stored longer name swallows a request (`tiny_broker.c:423`).
4. `message_ok` - the acknowledgement of a frame left over from an earlier call is reported as that
   of the latest (`nrf24.c:342`).

The models hold more that deviates from MQTT or from a comment and has no run of its own, since the
properties of the passing runs already say what follows from it: a refused topic is answered with 80
where MQTT has 0x80 (`SUB_ACK_FAIL`); QoS 2 is answered with a PUBACK; the flush commands of
`nRF24_restore_defaults` are sent with CSN high, so both FIFOs survive it (`RestoreClear`).

### Bounds, and why they are enough

- Three records: the table is filled by clients that connect again without a clean session, is met
  full, and has a record before and one behind the one that is thrown away. Of the ids one is another
  one and the length byte behind it, one is that byte alone, and the empty one, which frees the record
  it is stored in as far as the search is concerned, is among them.
- Two slots and lists of two: a list meets the last free slot in its middle, repeats a name, hits
  two slots at once, leaves a hole in front of a stored topic. Prefix order is all that matters
  about names: four of them give every relation.
- Two senders are enough for a frame to come between a frame and its acknowledgement; a packet of
  two frames with a half-filled last one has first, last and padding. The FIFOs bound the run:
  nothing else grows. Senders are interchangeable (no constant or property names one),
  hence `SYMMETRY`; no liveness is checked there.
- `client`: the header read alone, a rest of two bytes and a payload in two parts on the way in, and
  on the way out a payload that does not fit with its header, are the places a call can stop at, and
  each occurs. Three calls are one that stops, one that disturbs what it left and one that meets the
  result; a queue of two holds a message in front of an answer. The bound `MAX_CALLS` counts the
  calls that carry a request, ping, disconnect or wait; structures can be cleared and the
  connection replaced between them.
- `client_broker`: the broker's table is explored in `broker`; here one record is enough to be taken,
  replaced (one id is the other with the length behind it) and met full. Requests are chosen by what the decoders branch on: every optional part of a
  CONNECT, a length of two bytes, lists that fit, fill and overflow, identifiers with equal bytes
  and two whose bytes swap to one another. With one frame on each link, a frame can still be late
  for the request it answers, as the application may go on to the next request meanwhile.
- `rfm12b`: the register and FIFO of 2 are the chip's; received bytes are numbered modulo 3, one
  more than the FIFO holds.
- The proofs (section 5) hold for every value of these constants, so the bounds matter only for
  what is model-checked alone.

## 4. Fairness

`WF_vars(SendConnAck)` in `TinyBroker` and `WF_vars(Access)` in `Nrf24`: a function that runs on
the only thread runs on. `Nrf24` also assumes that the chip does what it is told: it starts when it
is in transmit mode with a frame to send (`WF_vars(ChipStarts)`), and its transmissions end, one way
or the other, since the retries are bounded by 15 (`WF_vars(ChipAcked \/ ChipGivesUp)`); that a
frame is ever acknowledged is not assumed. `MqttClient`: a running call goes on until
it returns, `WF` of `Client` outside the payload loop; `NetFails` is among its steps, since a read or
write of the network ends by its timeout if by nothing else. In the payload loop nothing is owed: on
a connection closed inside a message `net->read` gives 0 at once, every time, and the loop reads again. `Rfm12b`: `WF_vars(Driver)` for the polling loops and `WF_vars(Shift)`, a transmitter that is
on transmits. `ClientBroker` assumes of the application what its one liveness property is about: that it calls
again (`WF(Call)`), and that of the many calls it makes some find the answer before their timeout
(`SF(Receive)`; calls do not wait for ever: `WF(Timeout)`); and of the broker that it handles what
it received (`WF(Dispatch)`, `WF(SendConnAck)`). That a frame survives the link is not assumed.
Nowhere else is fairness assumed of callers or packets. `L3Transport` has none: frames may stay lost for ever, and no liveness is
claimed. Deadlock is checked in every run but `rfm12b`: there a send or wait with the radio
switched off polls for ever, which is what the code does. `HardFault_Handler` is the endless loop of the
source. `Overrun` ends the receiver; the senders of the model can always go on, with frames that a
full FIFO swallows.

## 5. Proofs

All theorems hold for any value of the constants that meets the assumptions stated in the modules:
tables of 1 to 254 slots (the index type is `uint8_t` and 255 is `NOT_FOUND`), any sets of names,
ids, addresses and packets, positive buffer and FIFO sizes, packet lengths of 0 to 255.

- `TopicTableProofs`: what `FirstSlot` and the searches return: `NOT_FOUND` exactly for the empty
  set, otherwise the least member. The least element exists by well-foundedness.
- `TinyBrokerProofs`: the inductive invariant is `IInv` = `TypeOK`, `NobodyConnected`, the emptiness of all subscription tables, that a waiting CONNECT has an
  addressee, and the kinds of packets sent. `NothingForwarded` is not inductive by itself: it needs
  `NobodyConnected`, because the handlers look for connected clients. The action properties
  follow from `IInv` and `ConnectSlots`: a CONNECT touches the first free record, and if a clean session
  applies the one `strcmp` found, whose id is that of the frame with at most a byte behind
  (`SeenTexts`). With a prefix occupied these two are the same record unless the one found counted as
  free before, which an id of the frame that is not empty excludes.
- `SubscriptionsProofs`: `TypeOK`; `NoTopicTwice` (a name stored twice would have been hit,
  since a name begins with itself); `GrantedIsCovered` together with `SubscribeKeepsTopics`, one
  invariant because neither is inductive without the other: a granted topic stays covered only
  since no pass renames a slot; `RefusedOnlyWhenFull`; `DeleteIsExact`, from the invariant that the
  slots freed so far are those the names done so far hit in `before`; and the refinement
  `TableImplementsFilters`: each pass is a grant, a regrant, a drop or a stutter of `TopicFilters`, where
  `NoTopicTwice` makes the slots a function of names.
- `L3TransportProofs`: `IInv` = `TypeOK`, that the receiver's chip remembers a frame still in its
  sender's FIFO, that every byte of a packet in the buffer comes from a frame in `heard`, and
  `OverrunOnlyByLong`. `DeliveredAnew` rests on the third: if the CRC
  matches, all bytes are there, so all their frames were heard since the buffer was cleared.
- `Nrf24Proofs`: `IInv` = `TypeOK`, `FlagHasFrame` (RX_DR tells of a frame, but for the moment between
  the access that takes the last one and the one that clears the flag), `AckedShows` (from the
  payload on, an acknowledgement of it shows in TX_DS; before, the FIFO holds older frames only),
  `CleanIsAlone` (a call that found the FIFO empty has it to itself) and `Deaf`.
- `MqttClientProofs`: `IInv` = `Shapes` (what is in flight and in `msg` is a packet), `InStep` (the state of
  `msg` agrees with `pc`: a payload is only read on for a message that has one left) and `GivenBytes`
  (the bytes the callback was given are those before `buffer_pos`; between a read and its
  callback, the `buffer_len` bytes just read are still to come). `PayloadOnceInOrder` alone is not
  inductive: it says nothing of a part that is read and not yet handed over. `DeafUntilInit` is an action
  property: each action keeps `Deaf`, because all that would reset `read.pos` is behind a read that fits.
  `TroubleOnlyAfterCut` needs to know, for every `pc`, where the client is in its packets: `Running` (what
  call runs, with which buffers), `Reading` and `Writing` (how `part`, `read` and the first packet of the
  network, and how `txbuf`, `write` and the bytes taken so far, agree) and `Kept`: as long as `cut` is
  false, `ReadsOn` and `WritesOn` hold, that is, the next byte read or written is at its own place. Every
  step that breaks one of them sets `cut`, and `cut` stays set until `MqttClient_Init`. `TypeOK` follows from
  the same invariant. `PromiseIsKept` is the refinement of `MqttCall`: `Promised` relates the numbers of
  sendings and answers to `msg->stat`, says that a request that waits without having been sent is in
  `skipped`, and each action is a step of the promise or a stutter.
- `Rfm12bProofs`: `IInv` = `TypeOK`, `FramesWhole` and `SentInTx` (a frame that is not spoilt is being sent in
  transmission mode, so that `rfSend` meets the status bit only with room in the register). `ReadsInOrder`
  follows from `InOrder`: the bytes in the FIFO are numbered on from the one read last, and a
  wait that saw the status bit still finds a byte. `RecvIsForGood` rests on arithmetic: no `uint8_t`
  has bit 15.
- `ClientBrokerProofs`, on bytes: the client decodes every length below 2^28 as it was encoded; the broker
  decodes it modulo 16384, so exactly the lengths of one or two bytes right. The broker reads every
  CONNECT and PUBLISH that fits its buffer as it was written; a SUBSCRIBE exactly if it has
  no more topics than there are places (`SubscribeIsRead`), an UNSUBSCRIBE exactly if it has one at most
  (`UnsubscribeIsRead`). A frame is first laid out (`Headed`, `Lined`, `Ends`: where each text stands), then
  the loop of the decoder is followed from one text to the next. The library's induction
  theorems cannot be used here; `FromEachToTheNext` is proved in their place from the well-foundedness of
  `<`, with a set for a predicate. That a list is *not* read as written rests on `InChain`: the decoder
  skips one byte behind each topic, which an UNSUBSCRIBE does not have, so the last of n topics would end
  n - 1 bytes behind the frame.
- `ClientBrokerProofs`, on behaviours: `Inv` = `Unconnected` (nobody counts as connected), `Waiting` (the client
  waits only for an answer that is due), `Answers` (what is on its way back is a CONNACK or the
  PUBACK of a message the broker has handled, with its identifier's bytes swapped) and
  `SuccessIsExplained`, which alone says nothing of the frames that will make a call succeed. From it
  follow `SuccessExplained`, `StrandedForGoodHolds`, `ReadsWhatFitsHolds` and `BrokerIsTinyBroker`: what the
  broker does with the frames it gets is a step of `TinyBroker`, whose frames are therefore all that
  need be considered there. `BrokerProofs`, an instance of `TinyBrokerProofs`, then carries the broker's
  own invariant over (`TypeCorrect`, `BrokerTableHolds`, `RecordsHold`).

For `SubscriptionsProofs` the same set induction gives `AddIsTheFold`: `FoldIsTheLastPass` unfolds `FoldLeft`
into the state after each pass, and the early return is shown to answer what the passes it leaves out
would answer.

Every safety invariant, action property and refinement of a passing run is thus a theorem. Only
model-checked is the liveness: `CallsReturn` (of the driver and of the client), `SendsEnd`,
`KeptUpSucceeds`; it needs ENABLED, which is out of the provers' reach. The four refuted properties have
their counterexamples from TLC. The proofs assume what the modules assume, no more; TLC evaluates these
assumptions in every run.

## 6. Not modelled, and why

- *Most of the repository's lines* are third-party: CMSIS, the StdPeriph library, FreeRTOS, the Bosch
  sensor drivers and the display library are linked and not called, or are register accesses.
  UART, printf and GPIO are output without state; start-up code and interrupt handlers are
  vendor templates with empty bodies, apart from the fault handler. What the models cover is the
  program's own logic, a small share of those lines.
- *Broker over the radio.* `main` never starts the broker, and `DeafOnceAnswered` says what the
  composition would do: after its first answer the centre hears at most a FIFO of frames. A module
  of its own would repeat that property. `broker_conn` and `broker_discon` only return 1.
- *Texts of a CONNECT longer than their fields* (`tiny_broker.c:293`, `303`-`313`): the copies run into the
  fields behind, a will message of more than 34 bytes into the subscriptions. The models assume that
  they fit, and the theorems about the broker's table hold for such requests only.
- *Topic names longer than a slot* (`tiny_broker.c:459`): the copy runs into the next slot. The tables
  are modelled with names that are told apart only by which begins with which, so what a slot
  holds then cannot be said.
- *Fields the broker stores and never reads*: will, user name, password, keep-alive; and
  `encode_subscribe_ack`, whose result nobody sends.
- *The client's decoders* beyond type and identifier: the calls look at nothing else. A callback that
  fails, TLS and the non-blocking mode are left out as said in section 2.
- *Registers that only tune a link*: addresses, channel, rates, baud, gain.

## 7. Plan

What a continuation would take up, most useful first:

1. *Radio*: that the accesses of `Nrf24` implement the chips of `L3Transport`.
2. *Slots with over-long names*, with slots as bytes of one array instead of a sequence of names.
3. *Client and link*: that `Call`, `Receive` and `Timeout` of `ClientBroker` are what `MqttClient` does with
   whole packets, as a refinement.
4. *Action properties inside the composition*: `SessionPresentMeansReplaced` and `AnswersFitTheTable` of the
   broker, which hold there as `RecordsHold` does.
