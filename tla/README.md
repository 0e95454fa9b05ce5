# Verification of communication_lib

TLA+ models of the C++ library in `src/lib/ipc` (links over UART, RS-485 and CAN for STM32 and ESP32),
the TLC runs that check them on small instances, and TLAPS proofs of what matters most for every instance.
`PROJECT.json` maps every definition to the lines it stands for; paths below are relative to `src/lib/ipc`.

## 1. The system

    application        send(), send_async(), receive(), process()
        |                    main loop
    MasterNode / SlaveNode, *Communication          src/core/transport_layer.cpp, src/transport/*/..._communication.cpp
        |                    send(), receive callback
    IPCLink            queues | fragmentation | CRC | COBS or length prefix     include/ipc.hpp, src/core/cobs.cpp
        |                    adapter->send(), adapter->poll(), handler of a received byte
    adapters           STM32 UART | ESP32 UART | RS-485 | CAN                   src/transport/*/*_adapter.cpp
        |                    HAL calls; interrupts call back
    HAL, wire          (not part of the library: modelled from its use)

There are no threads: a main loop calls `process()`, which polls the adapter, hands over what is queued and
flushes what is to be sent; interrupts of the HAL run in between, at any instruction. On the ESP32 the interrupt and
the loop may run on two cores. What they share are plain or `volatile` fields, without locks.

| Component | State | Operations | Hard about it | What makes it correct | Module |
|---|---|---|---|---|---|
| STM32 / ESP32 UART receive ring | `rx_buffer_`, `rx_head_`, `rx_tail_`, `rx_overruns_` | push (interrupt), pop (`poll()`) | interrupt against loop, full against empty | a bounded FIFO: order, no loss but counted ones | RxRing, BoundedFifo |
| STM32 UART transmission | `tx_busy_`, `tx_buffer_`, HAL state | `init`, `send`, completion, reception and error interrupts | `tx_busy_` is cleared by an error while the HAL goes on reading | frames whole, not busy forever, failures counted | Stm32Uart |
| RS-485 adapter | `de_state_`, HAL state | `init`, `send`, `set_de_state`, interrupts | `send()` in the receive handler, DE, lifetime of the caller's buffer | DE on during a frame, off after it | Rs485Adapter |
| CAN adapter | ring of messages, controller, filter | `init`, `send`, `set_rx_handler`, FIFO interrupts, `poll` | not even `volatile`; silent drop when full; interrupts on before `is_initialized_`; inits that fail half-way | a bounded FIFO of messages that reach the link whole | CanAdapter, BoundedFifo |
| Transmit queue | `tx_queue_`, head, tail, count | `send`, `send_async`, `flush_tx`, `enable_queues`, `reset`, of whole messages and of fragments | frames that are refused, in the middle of a message too; switching the queue on and off | order, no loss, true answers, fragments together, it empties | TxQueue |
| Receive queue | `rx_queue_`, head, tail, count | `deliver_payload_`, `receive`, `drain_rx_queue_`, `queue_rx_payloads`, `reset` | interrupt between any two accesses; callback against queue | order, every payload accounted for | RxQueue, BoundedFifo |
| Fragmentation | `fragment_seq_`, reassembly state | `send_fragmented_raw_frame_`, `handle_fragment_frame_` | loss, 8-bit sequence number, several senders | payloads are ones that were sent | Fragmentation |
| Framing, COBS | `rx_buf_`, `length_prefix_buf_` | `send_raw_frame_`, `on_raw_byte`, `cobs_encode`, `cobs_decode` | resynchronisation after loss and noise | undamaged frames come through again | LinkRx, Cobs |
| CRC, codec | none | `update`, `encode_frame`, `decode_frame`, raw frames of the link | byte order, stuffed CRC bytes | frames are read back, damage is caught | Crc, FrameCodec, LinkCodec |
| Communication layers | handlers, device number | `send_message`, receive, respond | broadcasts answered by all, answers handled by the function that makes them | answers belong to a request, are heard once, cause no answers | CommLayer |
| Master / slave node | pending requests, numbers, clocks | requests, poll, response, timeout; handlers, heartbeats, updates | timeouts stamped 0, responses that find no slot, clocks and numbers that wrap | requests end, answers belong to requests, heartbeats go on | MasterNode, SlaveNode, NodeLine, Nodes |
| Packet protocol | none | serialise, parse, create | limits, byte order | round trip | PacketProtocol |
| Logger, mocks, examples | - | - | - | - | not modelled |

`include/core/*`, `src/transport/rs485/transport_layer.cpp`, `src/transport/rs485/packet_protocol.cpp` and `include/transport/rs485/packet_protocol.hpp`
repeat files of `include/` and `src/core/`, but for log lines; what is said of one copy is said of both.

## 2. Plan

1. **Done.** BoundedFifo and RxRing (the only code shared between interrupt and loop that every link depends on), Fragmentation,
   Stm32Uart, Rs485Adapter, TxQueue, RxQueue, LinkRx, CommLayer, and the theorems of section 6; then the nodes with their packets, CanAdapter,
   TxQueue with fragments, RxQueue fed by an interrupt at any access, and FrameCodec with a real CRC.
   After these the theorems on both queues, CanAdapter, Nodes and CommLayer, and `NoCollateralLoss` and `DeafnessIsCounted`; that COBS reads back (`Decode` of `Encode`), and with it all that is
   checked of LinkRx and LinkCodec but `DamageIsCaught`; that with one sender payloads are delivered in the order they were sent in, each once.
   Last, what was left of the code of these modules: `init()` of the RS-485 adapter in its steps, the handler that sends in the interrupt of the STM32 adapter, the byte that holds `chunk_len` and the test of it, and packets of the nodes that overtake each other.
2. **Left.** Two adapters of one class behind one static `instance_` (section 7).

Abstract specification: BoundedFifo, for both receive rings and the receive queue.

## 3. Modules: how state and actions correspond to the code

A byte, payload or frame is named by its number of arrival or of its `send()` call wherever the code does not look into it. That
keeps apart what the properties have to tell apart (lost, repeated, overtaken, mixed) and costs no values. Definitions called
`...Late`, `...Uncounted` and the like, each under a comment that begins with *mutant*, are wrong variants of the definition after
them; no specification uses them, they show that a property can fail.

**BoundedFifo** is the abstract specification of a receive buffer: accept while there is room, drop the newest and count it
otherwise, deliver the oldest.

**RxRing** splits `push_rx_byte_` and `pop_rx_byte_` (stm32_uart_adapter.cpp:183-203) at every access to a shared field:
`PushBegin | PushOverrun`, `PushStore`, `PushPublish` in the interrupt; `PopBegin`, `PopLoad`, `PopRelease`, `Handle` in `poll()`. Any
interleaving is allowed, which covers one core (the interrupt runs to its end) and two (ESP32). Accesses take effect in program
order; what the compiler and the memory system of a second core may reorder is not modelled, although the fields are `volatile`
only. Refinement: `stored` is what lies between tail and head, plus the byte the interrupt has found room for; `delivered` includes the
byte popped and not yet handled.

**Stm32Uart** is `send()` as `SendBegin` (guard on `tx_busy_`), `SendCopy` (one byte of `memcpy`, so that an interrupt may come in the
middle), `SendMark` (`tx_busy_ = true`), `SendTransmit | SendRefused` (what `HAL_UART_Transmit_IT` answers); `Shift` is the HAL reading
the next byte of `tx_buffer_`; `TxComplete`, `RxComplete`, `Error` are the callbacks. `frames` records what was on the wire, `disturbed`
whether `Error` cleared `tx_busy_` under a send, or the receive handler sent under one, since the adapter was last idle. The latter is possible without `buffer_rx_in_interrupt`:
`RxCompleteSends` is `on_rx_complete_` with all of the handler's `send()`, between any two steps of the main loop. `InitAdapter` may come again and choose the other mode; the HAL then refuses if reception is on, and the adapter
does not send any more although it receives.

**Rs485Adapter** has the same shape; of a frame it keeps how many bytes are out. `HandlerSends` is a whole `send()` inside the interrupt when
the receive handler answers; `ByteReceived` is a byte it does not answer. `init()` is `InitBegin` (reception is started, and with it the interrupts come), `InitReady` (`is_initialized_`) and `InitListen` (DE off), or `InitRefused`;
it may be called again, in another mode, at any time: nothing in the code forbids it, and the HAL refuses only while reception waits. `disturbed`, `cut` and `byApplication` are history: whether the last call began while something else was
under way, whether an error ended a frame since DE was last switched, and who switched it. (Here and in CommLayer `Init`, `Next` and the like carry the name of the part, `Rs485Init`, `CommInit`,
so that the module of proofs can extend two modules.)

**CanAdapter** has messages with a number and a length. A turn of `handle_rx_fifo0_` is one step (`Push | PushFull`: the interrupt runs to its end
on the one core), `poll()` is split at every access: `PopBegin`, `CopyLength`, `CopyData`, `PopRelease`, `Handle` per byte. The fields are plain, so the
compiler may store `rx_tail_` before or after it copies the message: `tail_first` chooses the build. `InitAdapter` and `InitDone` are `init()` before and after
the interrupts are on; a step of it may fail, and a filter that fails is only logged (`accepting`).

**TxQueue** has `Send(len, async)` for `send()` and `send_async()`: the message becomes one frame or fragments (`RawLengths`), each of a length COBS can give it
(`Encodings`), because the limit of line 305 compares it. They go one by one into the queue (`Enqueue`) or to the adapter (`SendDirectly`) up to the first that is refused;
`FlushBegin`, `FlushFrame`, `FlushEnd` are the loop in `flush_tx()`; `EnableQueue`; `Reset`. A frame is the number of its message and its place in it.

**RxQueue** has `QueuePayload | QueueFull | CallBack` for `deliver_payload_()`, the loop of `drain_rx_queue_()`, and `receive()` split at its
accesses (`Receive`, `MoveTail`, `LoadCount`, `StoreCount`), because `--rx_count_` is a load and a store, as `reset()` is three stores. `in_interrupt`
says whether the adapter calls the handler in `poll()`, as the UART and CAN adapters do, or in the interrupt at any of these points, as the RS-485 adapter does. `raced` is set when a payload is
queued where the main loop is about to undo it, between load and store of the count or between the stores of `reset()`: there the code does lose or reorder payloads, and the properties say that it is the only place.

**Fragmentation** has senders and one receiver on a bus that keeps order and loses frames. `SendWhole`, `SendFragmented`,
`SendFragment` and `SendRefused` are the sender's side; `Lose` is a frame lost on the bus or at the full ring of the receiver;
`ReceiveWhole`, `ReceiveFragment` are `deliver_raw_frame_` and `handle_fragment_frame_`, the latter as the questions the code asks in
its order: `Malformed`, `Opened` (a start fragment discards what was in progress), `Continues`. A byte of a payload is a record of the
message and the position it comes from, so that a mixed payload shows. `chunk_len` is written modulo `ChunkMod`, 256 in the code, and `Malformed` compares it with what came. Payloads that begin with the magic of a fragment
are left out (section 7).

**LinkRx** computes the physical frame of a raw frame, byte by byte, and runs the byte machine of the receiver on what the line makes of
it. **Cobs** has `Encode` and `Decode`, which are `cobs_encode` and `cobs_decode`, with the block of 254 bytes as a constant. With COBS, `LoseByte` and `Noise` may
come any number of times; with the length prefix a whole message is lost, and all senders use that format. `calm` counts, up to two, the undamaged frames in a row.

**Crc** is the class template: a register as the set of its ones, shifted bit by bit. **FrameCodec** is `build_raw_frame_` and `extract_payload_from_raw_` (`RawFrame`, `PayloadOf`), and
`encode_frame` and `decode_frame`, which do the same with COBS behind it. They have no state; **LinkCodec** puts them beside LinkRx, which relies on them.

**PacketProtocol** is `packet_protocol.cpp` as functions on sequences of bytes. **MasterNode** and **SlaveNode** have an action per operation and handler:
`RequestState`, `SendCommand` (numbered, and noted only if a slot is found), `AbortCommand`, `BroadcastHeartbeatRequest`, `HandleSlaveResponse`, `MasterPoll` with the timeouts;
`HandleStateRequest`, `HandleCommandRequest`, `SendStateUpdate`, `SlavePoll` with the heartbeat. **NodeLine** is what the code leaves out: `send_packet_to_slave_` and
`process_received_packet_` are placeholders, so the line that carries frames, and the choice of the handler by the type of a packet in **Nodes**, are external. Frames are lost and overtake each other. `asked` remembers to which request each number was last given, and `late` which frames
in flight bear a number that has been given away since, or answer one that did. Slots hold any
number of `Held` at the start, because the constructor does not initialise `seq_id`.

**CommLayer** has devices with an inbox each. `Start` is `init()` and the registration of handlers, `Send` and `SendMessage` are
`send_message()` of the application and of the layer itself, and for each message `poll()` finds there is `Ignore` (it is for another device, or the
link takes it for a fragment), `Hear` (the message callback, no answer), `AnswerState` or `AnswerCommand`. A message carries the number of the
`send()` it stems from; the application sends requests, commands and updates, never a response of its own making. Any device may miss
any message, so what the link below loses or refuses is covered.

## 4. Runs

`tlc -workers 2 -config X.cfg M`, with the names of `PROJECT.json`.

| Run | Checks | States | Bounds, and why they are enough |
|---|---|---|---|
| rx_ring | `NoSlotRace`, `InOrderOnce`, `FifoSpec`, `StoredIsHandled` | 3,076 | 4 slots, 9 bytes: both indices wrap twice, the ring fills, and every pair of steps interleaves; proved for every size |
| stm32_uart | `TypeOK`, `WholeUnlessDisturbed`, `ProtectedWhileTransmitting`, `DeafnessIsCounted`, `BusyIsReleased` | 440,751 | 2 bytes a frame: an interrupt falls before, between and after them; both receive modes, `init()` without a bound; 4 calls and 2 errors: a late completion meets the call after the next one |
| rs485 | `DrivenWhileAlone`, `ReleasedWhenDone` | 15,002 | the same; 5 calls of `send()`, so that the main loop and the handler overlap again after a quiet time, and `init()` without a bound |
| can_adapter | `MessagesWhole`, `FifoSpec`, `MessageIsHandled` | 240,732 | 3 slots, 5 messages of 1 or 2 bytes: the ring wraps and fills; 2 calls of `init()`: one after messages came |
| tx_queue | `QueueKeepsOrder`, `AnswerIsTrue`, `FragmentsTogether`, `QueueIsFlushed` | 227,324 | 3 slots, 4 messages of one or two frames, one `reset()`: the ring wraps, and fills in the middle of a message |
| rx_queue | `QueueKeepsOrder`, `AllAccountedFor`, `FifoSpec`, `LeftoversReachCallback` | 398,323 | 2 slots, 6 payloads, one `reset()` |
| frag_one_sender | `PayloadsIntact`, `NoCollateralLoss`, `DeliveredInOrder` | 212,101 | messages of one to four fragments, sequence numbers modulo 3, four messages: the number wraps while the bus (3 frames) and the receiver still hold the old one; chunks of 2 bytes, the longest that `chunk_len`, modulo 3, can tell |
| link_rx | `TypeOK`, `CobsResynchronises`, `PrefixKeepsInStep`, `FramesReadBack`, `DamageIsCaught` | 731,746 | every raw frame of up to 3 bytes over {0, 1}, blocks of 2; no bound on frames, losses or noise. `rx_buf_` as long as the longest frame: the least the code's constants leave is 4 bytes more. The codec with CRC16_CCITT, six payloads of up to four bytes, one of them too long |
| nodes | `PacketsReadBack`, `PendingIsFound`, `AnswersMatch`, `HeartbeatsSpaced`, `RequestsEnd`, `HeartbeatsGoOn` | 658,212 | two frames in flight (a third is lost), which overtake each other: a request and the answer to an older one of the same number; 2 slots, numbers modulo 2, one slave, clocks modulo 3 and 2: everything wraps again and again, without a bound on steps; packets of 3 bytes, data of 0 and 2. The memory of the slots at the start (`Held`) is cleared, one number in each, or one never allocated in the first; the proofs are for any |
| comm_layer | `AnswersWhatWasAsked`, `HeardOnce`, `LineBecomesQuiet`, `ExecutedIsAnswered` | 546,274 | 3 devices, the two magic numbers among them, 2 messages of the applications and their answers, inboxes of 2: both messages may wait together, and an inbox overflows |

The other modules state their types as well (`TypeOK`), for the reader and for proofs; they hold in these runs and are not among what the runs check.
`PacketsReadBack`, `FramesReadBack` and `DamageIsCaught`
say of the frame on the line in each state what they can, and of the functions that made it a constant formula
(`ValuesReadBack`, `PayloadsReadBack`, `DamageRefused`), which TLC evaluates once. `DamageIsCaught` is stated for damage within 11 bits: the bytes of the CRC are stored low byte first, so that
bursts of 13 bits and more across them can pass, although a CRC of 16 bits is expected to catch all up to 16.

Two runs state what a document, comment or test of the repository says, and end in a counterexample:

| Run | Property | What happens |
|---|---|---|
| frag_two_merge | `PayloadsIntact` | two senders, both at sequence number 0, equally long messages: start of one, rest of the other, delivered as one payload |
| tx_queue_limit | `QueueIsFlushed` | a frame with a full COBS block is one byte longer than `should_fragment_` reckons, is refused at every flush, and blocks the queue |

Seen on the way, and not a run of their own:

- RS-485: rs485_adapter.hpp:21 says "Automatic control (DE during TX, low during RX)". It is not on during TX in three cases, which `DrivenWhileAlone` excepts as `disturbed`: the handler answers after
  line 60 of `init()` and line 61 takes DE from the answer, though nothing else is sent; a `send()` under a frame is refused by the HAL and deasserts DE; a completion between `assert_de_()` and `HAL_UART_Transmit_IT`
  of the next `send()` has that frame go out without DE. Nor is it low during RX when an error ended a transmission, until a later call switches it (`cut`, which `ReleasedWhenDone` excepts).
  The HAL reads the caller's buffer after `send()` has returned, and the buffer of `send_raw_frame_` (ipc.hpp:335) is a local array. `send()` switches DE in manual mode as well.
- STM32 UART: without `buffer_rx_in_interrupt` a handler that sends between the guard and the copy of a `send()` of the main loop has its frame overwritten while the HAL reads it; the main loop's is refused.
- Fragmentation: above a physical limit of 266 bytes `chunk_len` does not fit its byte, and the receiver refuses every full fragment: with `ChunkMod = 2` in place of 3 `NoCollateralLoss` fails, while `PayloadsIntact` and `DeliveredInOrder` hold.
- Receive queue: with an adapter that delivers in the interrupt, an increment of `rx_count_` between load and store of `--rx_count_` is lost, and with it the payload queued last.
- Fragmentation, framing: with two senders a start fragment discards the message of the other, of which nothing was lost; a lone delimiter stays in `rx_buf_`, so that after noise
  even the first undamaged frame may be refused, and, at an overrun, the second (`CobsResynchronises` fails with `Patience` 1).
- `encode_frame` writes the delimiter behind an encoding that may fill the buffer to its end.
- Nodes: a request is noted only in a free slot that already holds its number, so that how many are noted depends on what the memory held, although transport_layer.hpp:84 says "Support up to 16 simultaneous requests"; the
  number is used up all the same. A response ends nothing, although packet_protocol.hpp:62 has "Sequence ID for request/response matching": `find_pending_request_` takes free slots only. Requests end by their timeout, all at once, because they are stamped 0. Responses carry the address of the slave, where the comment says "Master address".
  `SlaveNode::init` insists on `is_master` and logs that it requires `is_master=false`. A header is six bytes and `kHeaderSize` is 5. A state update has the type of a response.
- CAN: a filter that cannot be set is only logged, and `init()` returns true although nothing will be received.

Where a configuration says `CHECK_DEADLOCK FALSE`, the model stops because its bounds on calls or arrivals are used up; LinkRx never stops and is
checked for deadlock.

## 5. Fairness

Fairness is stated only where the code justifies it, and only the nine temporal properties use it.

- `StoredIsHandled` (RxRing): an interrupt that has begun returns; the main loop calls `poll()` again and again. Nothing is assumed of arrivals.
- `BusyIsReleased` (Stm32Uart): `send()` does not wait, so each of its steps is taken; the hardware shifts bytes and completes.
- `QueueIsFlushed` (TxQueue): `process()` is called again and again, and an adapter that is offered a frame infinitely often accepts it
  some time (strong fairness of `FlushFrame`; it may refuse any finite number of times).
- `MessageIsHandled` (CanAdapter): the main loop calls `poll()` again and again; `init()` and `poll()` return.
- `RequestsEnd`, `HeartbeatsGoOn` (Nodes): the main loop of every node calls `poll()` again and again while time goes on, each time at most `MaxStep` later. Nothing is assumed of the line.
- `LeftoversReachCallback` (RxQueue): `process()` is called again and again, and neither it nor `receive()` waits.
- `LineBecomesQuiet`, `ExecutedIsAnswered` (CommLayer): the main loop of every device that was started calls `poll()` again and again.
  The application sends a bounded number of messages.

## 6. Proofs

Checked by `tlapm`; what a theorem assumes of the constants is the named assumption of its module (at least two slots, a frame of at least one byte, and so on).

**AdapterProofs**, on RxRing: `RingTypeCorrect`, `RingNoSlotRace`, `RingImplementsFifo`, `RingInOrderOnce`. `RingInv` adds to the types that the tail is not the head while the
loop is inside a pop, that the head is not one before the tail while the interrupt is inside a push, what the slot being published holds, and what `popped` holds.
With it every step of the ring is a step of BoundedFifo or a stutter: accept at `PushBegin`, drop at `PushOverrun`, deliver at
`PopRelease`. `FifoTypeCorrect` and `FifoInOrderOnce` are about BoundedFifo alone, written over the variables the ring maps to it: the invariant is `TypeOK /\ InOrderOnce`,
strengthened by a bound of every number in the history by `arrived`, without which the next arrival need not be greater than the ones before. `RingInOrderOnce`
carries the latter over through the refinement. On Rs485Adapter, in the second part: `Rs485TypeCorrect`, `Rs485DrivenWhileAlone`, `Rs485ReleasedWhenDone`. The invariant ties the step
of `send()` and of `init()` to DE and to whether the HAL is transmitting: a frame without DE is one whose `send()`, or a later call, was disturbed.

**CanAdapterProofs**: `CanTypeCorrect`, `CanMessagesWhole`, `CanImplementsFifo`, in both builds. `CanInv` says that the ring between tail and head holds messages as they arrived, younger
than all that were taken (`RingInv`); that the slot `poll()` copies from keeps its message while it does, although with `tail_first` it is no longer between tail and head: a full ring
leaves free exactly that slot (`PopInv`); and that the bytes handled end where a message ends, unless the loop over the bytes is inside one (`HandledInv`). The refinement delivers at the step that stores the tail.

**RxQueueProofs**: `RxQueueTypeCorrect`, `RxQueueKeepsOrder`, `RxQueueAllAccountedFor`, `RxQueueImplementsFifo`. What holds of the ring, its order and its count holds only as long as `raced` is false,
and so does the refinement; `ControlInv`, which says where the main loop can be, holds always. `RxInv == ControlInv /\ (~raced => RingInv /\ OrderInv /\ CountInv)`.
The three parts need each other: the count is between its load and its store when `receive()` is, and what a slot holds depends on whether the tail has moved.

**TxQueueProofs**: `TxQueueTypeCorrect`, `TxQueueKeepsOrder`, `TxQueueAnswerIsTrue`, `TxQueueFragmentsTogether`. `TxInv` is made of: the count is the distance from tail to head (`QueueInv`); the frames that went through the queue, on the wire and
those still in it, are in the order of their messages (`OrderInv`); of each message the first frames up to some place, and all of them if and only if `send()` answered `true`, are on the wire, in the queue, or thrown away by `reset()` (`AnswerInv`); wire and queue, one behind
the other, have the frames of a message one after the other from the first, unless a direct send has overtaken the queue (`ChainInv`).

**Stm32UartProofs**: `UartTypeCorrect`, `UartProtectedWhileTransmitting`, `UartWholeUnlessDisturbed`, `UartDeafnessIsCounted`. The invariant says which cells the copy has written
(`BufferInv`) and, unless `disturbed`, that the HAL has read cells of its own call only, in both receive modes.

**FragmentationProofs**: `FragmentationTypeCorrect` for every set of senders; `OneSenderPayloadsIntact` for one sender under `AudibleSpec`: of
`SeqMod - 1` fragmented messages in a row the receiver gets at least one fragment. Without that, 256 messages lost whole would let a
fragment continue a message 256 older, so the hypothesis is part of what is true. The invariant: every frame on the bus is a true
piece of a message sent (`BusInv`), frames are in the order of their messages and offsets, numbers on the bus and in the receiver are
less than `SeqMod` apart, and the reassembly is a prefix of one message (`ReassemblyInv`). `OneTurn` then makes equal residues equal numbers.
`OneSenderNoCollateralLoss` needs no such hypothesis and is proved under `Spec`: the fragments of an undamaged message follow each other without a gap in what the receiver has collected, on the bus and in the loop that
sends them, whatever was lost before the first of them (`LossInv`). Its hypothesis is `ChunkMax < ChunkMod`: the byte `chunk_len` can tell every chunk. With two senders `LossInv` fails, and so does the property (section 4).
`OneSenderDeliveredInOrder`, under `AudibleSpec` again: the frames on the bus are in the order of their messages, the one that ends a message is the last of it, and what was delivered is older than all that is
on the bus or being cut (`OrderInv`). One lemma (`HeadTaken`) says of all three steps that take a frame from the bus that they deliver its message at most, and only with the frame that ends it; that is where
`PayloadsIntact` and the hypothesis come in.

**NodesProofs**: `NodesTypeCorrect`, `NodesPendingIsFound`, `NodesHeartbeatsSpaced`, `NodesAnswersMatch`, `NodesPacketsReadBack`. `NodesInv` says that of the slots that hold a number the first is in use if any is, so that
`get_pending_request()` of the number of an active slot answers with an active one (`FirstIsActive`); that the request a number was last given to is noted in an active slot as long as any slot of the number is
active, which holds because all requests that wait are given up together (`SlotsMatch`); that every frame on the line is the serialised form of a packet whose fields have their types (`LineInv`), and unless it is late
is, or answers, the request its number was last given to (`LateInv`); and
what the slave's clock and its last heartbeat have to do with each other (`SlaveInv`). Under it are lemmas on the functions of PacketProtocol: a packet created with data that fits is parsed from its bytes as it was. They need no
induction, because the functions are not recursive, and they prove the constant part of `PacketsReadBack` (`ValuesReadBack`) for every size of packet. `PacketAssumption` and `NodesAssumption` bound the size by
what the code's array holds, and say that addresses, numbers and data are bytes.
NodesProofs extends CommLayer too, and at its end stand `CommTypeCorrect`, `CommAnswersWhatWasAsked` and `CommHeardOnce`, about CommLayer. `LayerInv` adds that no device gets a message of its own, and that a device
of which there is an answer no longer has the message it answers (`Gone`): without it a device might answer twice, and the second answer would be heard twice. The steps are put together from three: to say something,
to take a message, and to have one arrive.

**LinkProofs**, the codec: `CobsRoundTrip` says that `Decode` of `Encode` of a raw frame is that frame and nothing else, for every length of a block and every frame that fits; the lemma
`EncodeFacts`, that an encoding holds no zero and is no longer than `LongestEncoding`; `CodecReadsBack`, that every payload comes out of `decode_frame` as it went into `encode_frame`, unless its raw frame
does not fit. Of the CRC the proof uses no more than that it is a function of the payload with bytes for its value, so it holds with any polynomial.
Induction theorems that take an operator as a parameter are out of the prover's reach. The proofs count instead: the set of the numbers up to which a statement holds has the first and with each the
next, so it has them all, because what it left out would have a least number. In the same way a function defined by recursion is shown to exist (`CarriedOn`) and to be what its equations say.
Of the encoder the invariant is where the open block ends (`RunEnds`), and that every byte it has added to those read stands for a full block (`Stuffed`), which bounds the length. The decoder
is followed from the last block backwards (`RestDecoded`): from each code byte on it reads what the encoder had left.

**LinkProofs**, the receiver: `LinkTypeCorrect`, `LinkCobsResynchronises`, `LinkPrefixKeepsInStep`, `LinkFramesReadBack`. `LinkInv` has three parts. `InStep`: a message on the line with the length prefix is cut where the
byte machine is in it: before the length, in it, or in the raw frame. `Resynchronising`: of a frame that follows an undamaged one, `rx_buf_` holds what was received of it or a byte more, the delimiter of the frame before;
of one that follows two it holds exactly that. It needs from the encoding that the delimiter is its only zero and that it fits the buffer, with which an overrun can only hit the delimiter; what is then delivered is the
frame by `CobsRoundTrip`. `Typed`: the types.

Each invariant was checked by TLC before it was proved, where the bounds of the run left something out with others (the receive queue with two calls of `reset()`, the transmit queue with two).
The proofs changed the models in four places. `TypeOK` of RxQueue was false with two calls of `reset()` and a race between them, which the run has no room for: the second `reset()` may then drop a slot
in which no payload was ever stored. `QueueKeepsOrder` of both queues is stated over positions instead of through a selection from the sequence. `TypeOK` of TxQueue says more.
`LinkRxAssumption` says that both bytes of a length prefix are bytes, which the code's 256 values and its buffer of less than 65,536 bytes make true; without it `TypeOK` of LinkRx does not follow.

Model-checked only:

- `StoredIsHandled`, `BusyIsReleased`, `QueueIsFlushed`, `MessageIsHandled`, `LeftoversReachCallback`, `RequestsEnd`, `HeartbeatsGoOn`, `LineBecomesQuiet`, `ExecutedIsAnswered`: the prover does not do fairness and ENABLED.
- `DamageIsCaught`: that CRC16_CCITT catches every change within 11 bits is a property of one polynomial. For another one it is false, so it is no theorem about the constants, and for this one it is a
  finite number of cases, which TLC tries for the payloads of the run.

## 7. Not modelled, and why

- What connects the nodes to a link: `send_packet_to_slave_` and `process_received_packet_` are placeholders in the code; the models have a line that loses and reorders in their place. What the model excepts with `late`: a response that was under way when its number was given to another request is taken for the answer to that one, and nothing in the packet tells. `set_status()` and the callbacks for monitoring.
- A damaged frame that passes the CRC: in LinkRx, Fragmentation and Nodes the CRC is ideal; FrameCodec says what the real one catches.
- What a CAN controller does with a length above 8 that is no CAN FD length: a message arrives with the bytes it was sent with. FIFO1 of the CAN adapter, whose interrupt is the same and to which no filter leads; bit rates.
  A CAN message of another format, which leaves the length prefix out of step for good.
- Payloads that begin with A5 5A (a message from device 0xA5 to device 0x5A): the receiver takes them for fragments, in every configuration, and swallows them.
  Fragmentation and LinkRx leave them out; CommLayer lets a device ignore such a message, and `ExecutedIsAnswered` excepts that pair of devices.
- A second `init()` of a communication layer, which deletes the link that the receive interrupt may be in; handlers replaced while messages are exchanged.
- A receive callback that calls back into the link.
- The table of instances of the STM32 adapter and the static instance pointers of the RS-485 and CAN adapters: set up once, before traffic.
- Memory ordering and tearing of the fields; log output; statistics that no decision reads.
