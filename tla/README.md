# TLA+ models of the STM32 Modbus server and master

TLA+ specifications of the portable Modbus code in `App/` and of the STM32F767
master example built on it, the TLC configurations that check them on small instances, and TLAPS proofs of the
properties that matter most. Definitions keep the names of the C functions they
model; `PROJECT.json` maps each of them to its source lines, lists the hazards
the properties are about, and records where documents and code disagree.

## The system and its models

| Part | Source (`App/src/`) | Module |
|---|---|---|
| RTU byte and timing layer | `modbus_rtu.c` | `RtuReceiver`, abstract: `FrameSlot` |
| RTU timing calculation | `modbus_rtu.c` | `RtuTiming` |
| CRC-16 | `modbus_crc16.c` | `Crc16` |
| RTU frame processing, diagnostics (FC07/08/0B/0C), FC11 | `modbus_rtu.c`, `modbus_rtu_diagnostics.c`, `modbus_rtu_server_id.c` | `RtuServer` |
| RTU master transaction engine | `modbus_rtu_master_transaction.c` | `MasterTransaction` |
| RTU master request builders and response validator | `modbus_rtu_master.c` | `MasterValidator`, `MasterBlocks`, `MasterIdentification`, `MeiTransport` |
| TCP transport, MBAP framing | `modbus_tcp.c`, `modbus_protocol.c` | `ModbusTcp` |
| Register map, register functions of the PDU engine, lock | `modbus.c`, `modbus_protocol.c`, `platform_stm32.c` | `RegisterMap`, with history: `RegisterHistory`; `ModbusPdu`, `ModbusExceptions` |
| File records (FC20/21), FIFO queues (FC24) | `modbus.c` | `ApplicationBlocks` |
| Device identification (FC43/14) | `modbus.c` | `DeviceIdentification` |
| MEI handler registry (FC43) | `modbus.c` | `MeiRegistry` |
| STM32F767 master example | `Examples/STM32F767_RTU_Master/app/app.c` | `MasterExample` |
| UART reception under the example | `stm32f7xx_hal_uart.c`, `app.c` | `UartReception` |

Three modules compose others: `Exchange` (the master's builders and validator
against the server's register functions, file records and queues), `MeiTransport`
(the same for device identification and for the MEI registry), and
`SerialLine` (`UartReception`, `RtuTiming` and `Crc16`, one of them per behaviour:
they share no state and one run asks for all three). `MasterExample` extends
`MasterTransaction`: every call of the engine is the engine's own action.

How they meet: the receive and tick interrupts (`RtuReceiver`) publish a frame to
the main loop, which hands it to the frame dispatcher (`RtuServer`); the TCP
callbacks (`ModbusTcp`) cut a byte stream into ADUs. Both call `mb_process_pdu`,
whose register functions are in `RegisterMap` and whose remaining functions are in
`ApplicationBlocks`, `DeviceIdentification` and `MeiRegistry`. All four of these
rest on the lock of `platform_stm32.c`, which only `RegisterMap` models with its
lazy creation; `MeiRegistry` takes a mutex that exists, and in the other two every
operation holds the lock from its first access to its last and is one step. At the
other end of the line, `MasterExample` drives the engine (`MasterTransaction`) from
its main loop, with requests from the builders, answers judged by the validator, and
bytes from the UART.

### State and actions

- `RtuReceiver`: `active`, `pending`, `receive_buffers` and `stats` are the fields
  of `mbrtu_context_t`. An interrupt handler is one step
  (`mbrtu_on_rx_byte_isr`, `mbrtu_on_50us_tick_isr`); they do not preempt each
  other, as `docs/modbus-rtu-timing.md` requires. `mbrtu_poll` is cut at each of
  its accesses to what the handlers write (`PollSeesFrame` ... `PollFinish`).
- `FrameSlot`: one frame on the line, one in the slot. `RtuReceiver` implements it
  under the mapping `ImplementsSlot`.
- `MasterTransaction`: each API call is one step. The environment is a clock that
  wraps, a transport that reports each accepted ADU once, and a slave that may
  deliver any frame at any time; the validator's verdict on a frame is an input.
- `RtuServer`: each frame is one step; a frame is reduced to what the dispatch
  tells apart. The diagnostics object is present (`ctx->diagnostics` not NULL).
- `ModbusTcp`: each lwIP callback is one step. The MBAP header keeps its shape
  with fewer bytes. Streams are cut into segments and pbufs in every way, and a packet
  that comes with an error is freed unread.
- `RegisterMap`: tasks carry out requests one register at a time: lock, create,
  take, store, unlock and hook are separate steps, and getters take no lock.
  `RegisterHistory` adds what each register has held since a request began.
- `ApplicationBlocks`: descriptor tables and the application's words, which the
  application changes between requests.
- `DeviceIdentification`: the table, what a request is answered, and a client that
  follows Next Object ID while the application may replace the table.
- `MeiRegistry`: the two stores of a registration and the two loads of a look-up
  are separate steps, and the handler runs after the unlock.
- `Exchange`: the master builds a request, the server carries it out, and the
  validator judges the answer, or a stray one: another slave's, another request's,
  with counts that contradict its length.
- `MasterExample`: an interrupt handler is one step. `modbus_master_process` is cut
  where it touches what the handlers touch: the claim of a frame and its copy, the
  emptied receiver and the closed window, the transmission. An answer is one byte and
  a register is known by whether it holds what the test writes; `carried` is what the
  accepted response says of the registers and `values` the arrays it was decoded into.
  A cycle starts with arrays that hold what its test writes, the worst they can hold
  from before. The slave may not hear, refuse, or store a write in part, and its answer
  may arrive in a later cycle. The watch variables and the printed log are
  left out.
- `UartReception`: the interrupt handler is one step; `UART_Start_Receive_IT`, when
  the main loop calls it, is one step per assignment.
- `RtuTiming`: a silence of any length and the phase of the free-running timer decide
  how many ticks are counted; units are chosen so that every duration is an integer.
- `Crc16`: a byte is the set of its one bits.

## Runs

Passing runs, named as in `PROJECT.json`, with their configuration:

| Run | Configuration | What it shows |
|---|---|---|
| `receiver` | `RtuReceiver` | The receiver implements `FrameSlot`; every frame boundary and queued frame is counted once, with wrapping counters; a silent line ends a frame and a pending frame is consumed; the bytes of a frame do not change while it is checked and served |
| `transaction` | `MasterTransaction` | Deadlines are exact over the wrap of the clock, the retry budget is kept, a late response never completes, the result tells what happened, the diagnostics balance |
| `server` | `RtuServer` | Listen-only executes nothing, one event per outcome, a request refused by a check, by the policy or for want of room clears no counter, no log and no mode |
| `server_counts` | `RtuServerCounts` | The event ring presents the newest events, newest first; inclusions between counters survive clears and saturation |
| `tcp` | `ModbusTcp` | Whatever the segmentation, the ADUs processed and the bytes left are those of the stream; connections are aborted only for a cause; slots and connections match, also when a packet comes with an error |
| `map` | `RegisterMap` | With several tasks FC22 is atomic, each write is reported to its hook once with its own value, a response shows only values its registers held during the request, after FC23's own write, and requests finish |
| `exchange` | `Exchange` | Every register function stores and answers exactly what was asked, or refuses and changes nothing, and only for a cause: a register, file or queue that is there is never refused; FC21 is all or nothing; the master accepts every answer of the server to a request its builders made, and nothing that is not a conformant answer to it |
| `mei_transport` | `MeiTransport` | Identification pages fit, are accepted by the master and together are the whole table, also across a replaced table; following Next Object ID ends; one registry entry per type, a handler meets its own context, and the master accepts what the server makes of a handler's result |
| `example` | `MasterExample` | A write test passes only if the slave holds what was written; a frame is not overwritten before the engine has copied it; no request starts with an old frame in the receiver |
| `example_live` | `MasterExampleLive` | With tests of every kind, a pass is true of every register, every test cycle ends, whatever slave and line do, and the next one starts |
| `serial_line` | `SerialLine` | The UART stores only in the byte it was armed with, and is armed again after every abort; a legal silence never damages a frame and a frame gap ends it, to one tick; up to three flipped bits, and any damage within a byte, are detected |

One run, `server_listen_only` (`RtuServerListenOnly`), is refuted by TLC: a malformed
unicast restart request is answered in listen-only mode, where
`docs/modbus-rtu-diagnostics.md:181` says that Restart "also produces no response".

### What the properties assume

Where the code is used differently TLC refutes the first three, and the sentences of
the documents quoted here are then not kept.

- `WaitingMeansTransmitted` ("transmission completed and the response deadline is
  active", `docs/modbus-rtu-master-transaction.md:15`) needs a transport that holds
  one ADU at a time (`TransportDepth = 1`): `mbrtum_transaction_on_tx_complete` looks
  only at the state, so that the completion event of a cancelled ADU is taken for
  the next request's.
- `MaskWriteAtomic` ("FC22 atomically combines", `README.md:102`) with several tasks
  needs the mutex `mb_init` creates (`CreateMayFail = FALSE`): without memory for it
  `mb_lock` lets tasks in unprotected, and a mutex created by the first requests
  instead is created twice when two tasks find none (`MutantLazyMutex`).
- `RequestsExact` ("the response contains the newly written values",
  `docs/modbus-fc23.md:21`) is about one task: the lock is taken per register, so that
  with several tasks another's write may come between the two halves of FC23. What
  holds then is `ReadsFresh`: never a value from before FC23's own write.
- `PairWhole` allows a handler that was registered at some time since the request
  began: it may be called after its unregistration has returned in another task,
  although `docs/modbus-fc43-mei-transport.md:51-52` asks for a callback and context
  that remain valid only "until unregistered".

`MasterExample` rests on four assumptions. Where the first three are dropped, TLC
finds the named property violated.

- A frame is claimed and copied in less than the time of a byte
  (`CopyTicks <= ByteTicks`, for `FrameIntact`). The critical section of
  `modbus_master_process_response_frame` ends before the engine copies the frame
  (`app.c:619-641`); a loop held up there for longer finds the start of the frame
  after next in the buffer.
- The retry delay is not zero (`RetryDelay >= 1`, for `FreshWindow`).
  `modbus_master_transport_transmit` empties the receiver before it closes the
  window (`app.c:355-356`), which is safe because the window is closed during a delay.
- The answer accepted as the read-back is not a late one of an earlier cycle
  (`~values.old`, for `PassIsTrue`): an RTU answer has nothing that ties it to its
  request, so that the read-back of the last cycle that arrives in this one is compared
  with what this one wrote. Late answers of every other kind are in the run, and none
  makes a test pass.
- No silence lies between T3.5 less a character and T3.5. There the example's tick
  handler ends a frame while its next byte is still on the wire; `FrameGapEnds`
  states the exact limit for the slave only.

The main loop has no bound on its latency other than these: `printf` blocks
(`Core/Src/usart.c:215-219`).

`ListensAgain` excepts one state (`Starved`). A byte received before
`modbus_master_init` arms the UART can abort the first reception in mid-arming, with
`RxState` READY and RXNEIE still set. A byte that then arrives while the main loop
arms again, and before `RxISR` is set, makes the interrupt re-enter without reading
it, and the main loop stands still until the overrun of the next byte. The fairness
of `MasterExample` assumes that this does not last.

One comment of the HAL is not kept by its code, and no run is about it:
`stm32f7xx_hal_uart.c:1074-1080` says that the error code lets the user identify the
error in the error callback, but a receive callback that re-arms in the same interrupt
has cleared it. The example does not read it.

### Bounds, and why they are enough

- `RtuReceiver`: two byte values, two-byte buffers, T1.5 = 1 and T3.5 = 3 ticks,
  counters modulo three. That gives empty, full and overfull frames, gaps below, at and
  between the two limits, both buffer orders, and frames that differ in their bytes, so
  that an overwritten byte shows; the proofs cover all other alphabets and sizes. The
  three counters of the line (`LineStats`), which nothing reads, are left out of the run.
- `MasterTransaction`: two retries, a clock of eight ticks with timeouts of two and
  three: the clock wraps several times within one transaction. The transport holds
  one ADU. A state constraint ends behaviours where a counter saturates.
- `RtuServer`: `server` has every request, with the lengths the code compares with
  and their neighbours; its counters saturate at one and its log holds three events, so
  that a counter or an event that is cleared, or not, shows in every mode; its three
  properties are about single steps.
  `server_counts` has an event ring of three slots, so that its direction and its
  wrap show, counters up to three, and fewer requests.
- `ModbusTcp`: ADUs of at most five bytes, three connections for two slots.
  `MaxWrites` bounds the responses accepted in one callback.
- `RegisterMap`: two tasks, two-bit words, a request set that makes them compete
  for the same registers: FC06, FC22, FC10 and FC23 with FC03 and the application's own
  accesses. `MaxHandles` bounds the mutexes created. In `map` the mutex
  of `mb_init` exists; `exchange` also starts without one, so that a request creates it
  or goes on without.
- `Exchange`: one task, tables wider than a byte of coils for the packing and the
  range checks, and a call of every builder within the map, over its end and at the
  builder's own limits. For the file records and queues: two blocks of two and three words, tables that share a block
  or describe part of it, and tables that must be refused.
- `MeiTransport`: a PDU of 15 bytes, so that values of up to six bytes take
  a page of their own; two accepted configurations or clears (`MaxGenerations`).
  The registry has two tasks, two entries, two configurable types and two pairs, so
  that removal leaves an unused entry in front of a used one.
- `MasterExample`: one retry, a frame of one byte and one more to damage it, a main
  loop up to two ticks late, and one disturbance (noise, UART error, forced request) per
  cycle. `example` has the write test that goes through every phase, one register, and
  two answers on their way at a time: enough for a frame to wait while another
  completes, for one to end after its attempt has, and for one to arrive in a later
  cycle. `example_live` has every kind of test and two registers, of which a slave may
  store one, one answer at a time, and a main loop up to one tick late.
- `SerialLine`: baud rates on both sides of 19200 and the extremes, formats within and
  outside the limits, silences at the two limits and a tick to either side; the
  shortest frame and an FC05 request. The proofs cover every other rate, silence and
  phase.

Deadlock is checked except in `ModbusTcp`, where a server that failed to listen has
nothing left to do. Seven configurations have a `VIEW`. In `ModbusTcp` it leaves out
the history of connections that have ended and the last callback, which only the
action property `AbortedForCause` reads, and TLC evaluates that on every step. In
`RtuServerCounts` it leaves out what the counters do not depend on and the events in
the ring: no operation reads them, so that their number and place decide alone. In
`RtuServer` it leaves out the last call, which only action properties read, and the
events in the ring with their place. In
`RtuReceiver` it leaves out what is overwritten before it is read, and sums up the
counters of a frame's ends as `FrameAccounting` does. In `MasterExample` and
`MasterExampleLive` it gives times as distances from the clock, and leaves out the times
that are not read before they are set and the engine's histories; states it identifies
have the same steps, so that liveness may be checked with it (without it the verdict on
write tests is the same). In `Exchange` it
leaves out the last request to the file records and queues, which only action
properties read.

### Fairness

- `RtuReceiver`: the timer interrupt keeps coming and the main loop keeps calling
  `mbrtu_poll`. Nothing is assumed of the line.
- `MasterExample`: the main loop and the SysTick interrupt go on, each although the
  other may be disabled for a moment. Its transport reports before it returns, which
  the engine needs: TRANSMITTING has no deadline of its own. Nothing is assumed of the
  slave or the line.
- `UartReception`: a pending interrupt is taken, and the main loop runs again and again
  whenever none is pending.
- `RegisterMap`: each task runs, and a task waiting for the mutex gets it
  eventually (strong fairness), as FreeRTOS gives a mutex to the waiting task of
  the highest priority, and among equals to the one that has waited longest.
- `DeviceIdentification`: the client goes on with its next page.

## Proofs

All theorems hold for every value of the constants that the named assumptions
(`ReceiverAssumption`, `TransactionAssumption`, ...) admit; these say what the
initialisation functions accept.

- `ModularArithmetic`: sums and differences modulo a range, for the wrapping clock
  and counters.
- `RtuReceiverProofs`: type correctness, `BuffersApart`, `ExecutedIsChecked`,
  `GapBelowT35`, `FrameAccounting` (the types, `BuffersApart` and `GapBelowT35`, by
  which the others are proved, are not repeated in the runs). `BuffersApart` is not inductive alone: that
  the pending buffer stays the one latched depends on `pending_ready` staying set
  until `mbrtu_poll` clears it, so `ReceiverInv` adds where in `mbrtu_poll` the
  flag is set and what has been copied and checked (`PollOrder`).
- `RtuRefinementProofs`: `RtuReceiver` implements `FrameSlot`; each handler and
  each step of `mbrtu_poll` is a step of the slot or a stutter.
- `MasterTransactionProofs`: types, `DeadlineExact`, `RetryBudget`,
  `ResultTellsTheStory`, `LateNeverCompletes`, `FinishedIsFinal`, and, for a
  transport that holds one ADU, `WaitingMeansTransmitted`. `TimeInv` relates the
  wrapping difference to the time that has really passed, with the main loop at
  most `PollLatency` late; `AttemptInv` ties the error flag to the attempt.
- `RtuServerProofs`: types, the event log, silence on broadcasts, and the pending
  actions. The log's correctness rests on `LoggedRing`: one more event in a ring of
  any capacity prepends to the sequence it stands for.
- `RegisterMapProofs`: FC22's atomicity and stores by the holder only, for any
  number of tasks, under the assumption that the mutex of `mb_init` exists
  (`~CreateMayFail`).
  `LockInv` says that there is one mutex and where its holder is.
- `MeiRegistryProofs`: `OneEntryPerType` and `PairWhole`, for any number of tasks,
  entries and types. `RegistryInv` adds what each task has in hand at each step: who
  holds the mutex, that an entry in use is whole except while its registration is
  being stored, and that a search has passed no entry of its type.
- `RtuTimingProofs`: `SilencesJudged` (`LegalGapAccepted` and `FrameGapEnds`) for every baud rate,
  format, silence and phase, and that the last check of `mbrtu_calculate_timing`
  refuses nothing (`TimingNeverRefused`). The argument bounds each rounded quotient
  from both sides (`ceil_div_u64`) and the count of ticks by the time that passed.
  The 64-bit products of the code are taken as exact: with a 32-bit baud rate they
  stay below 2^63.

Proved, and no property of a run: `ExecutedIsChecked`, `FinishedIsFinal`,
`WaitingMeansTransmitted`, `BroadcastsUnanswered`, `PendingTellsMode`,
`OnlyHolderStores`. They hold for every value of the constants, and the runs go to
what is not proved.

Only model-checked: liveness (fairness is out of the prover's reach), the
diagnostics balance, the other `RtuServer` properties, `RegisterMap`'s hooks and exact
answers, `ModbusTcp`, `ApplicationBlocks`, `DeviceIdentification`, `Exchange`,
`MeiTransport` and `Crc16` (recursive definitions and folds over sequences need induction, which the
prover cannot instantiate), `UartReception` and `MasterExample`.

## Not modelled

- Of `modbus_rtu_master.c`: the getters that only unpack an accepted answer, except
  those of bits, registers, records, queues and generic MEI data.
- Of `modbus_rtu_server_id.c`: the bytes of the identification and the argument checks
  of its configuration; whether one is configured, and FC11 itself, are in `RtuServer`.
- The POSIX server and the Cube main file: one blocking client at a time, without
  protocol state of their own.
- Generated initialisation and the vendor drivers, apart from the UART reception;
  lwIP's window and buffer accounting. They are the bulk of the repository's lines:
  counting them, `PROJECT.json` maps 4% of about 150,000 lines. Of the code in `App/`
  and the example's `app/`, headers included, it maps 59%.
- `mbrtu_get_stats`, `mb_device_id_is_configured`, `mb_mei_is_registered`: they
  only read. Return codes of configuration functions are reduced to accepted or
  refused.
