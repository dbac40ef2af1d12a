---------------------------- MODULE MasterExample ----------------------------
(***************************************************************************)
(* The STM32F767 RTU master example (Examples/STM32F767_RTU_Master/app):   *)
(* the transaction engine of MasterTransaction driven by                   *)
(* modbus_master_process, with the receive and SysTick interrupts that     *)
(* share modbus_master_rx with it, and a slave behind a line that loses    *)
(* and delays.  The two interrupts have the same priority, so a handler is *)
(* one step.  modbus_master_process is cut where it touches what they      *)
(* touch; what it does in between is one step.  The engine's `now' is the  *)
(* argument of its calls, uwTick the HAL's clock.  A test is known by what *)
(* it asks of the slave, a register by whether it holds what the test      *)
(* writes, and an answer is one byte.                                      *)
(***************************************************************************)
EXTENDS MasterTransaction, FiniteSets

CONSTANTS
    Regs,         \* the addresses a test reads or writes
    First,        \* MODBUS_MASTER_TEST_START_ADDRESS
    RxCapacity,   \* MODBUS_MASTER_RX_BUFFER_CAPACITY
    T15,          \* timing.byte_complete_t1_5_ticks
    T35,          \* timing.t3_5_ticks
    ByteTicks,    \* SysTicks one byte lasts on the line, at least
    TicksPerMs,   \* SysTicks per HAL tick, 20
    Period,       \* MODBUS_MASTER_REQUEST_PERIOD_MS
    FirstDelay,   \* MODBUS_MASTER_FIRST_REQUEST_DELAY_MS
    StallTicks,   \* SysTicks a step of the main loop lasts, at most
    CopyTicks,    \* SysTicks from the claim of a frame to its copy, at most
    Tests,        \* the tests that are selected
    LineDepth,    \* answers under way, at most
    UpsetMax,     \* noise bytes, UART errors and forced requests in a cycle
    Noise         \* a byte that is no answer's

\* FC01-FC04, FC05 and FC06, FC0F and FC10, and a selector that is none of them.
Test == {"read", "write_one", "write_all", "invalid"}

\* The retry delay of the example is not zero, and a frame is claimed and copied
\* in less than the time of a byte.
ASSUME ExampleAssumption ==
    /\ First \in Regs
    /\ Tests \subseteq Test /\ UpsetMax \in Nat
    /\ RxCapacity \in Nat \ {0}
    /\ T15 \in Nat /\ T35 \in Nat /\ T15 < T35
    /\ TicksPerMs \in Nat \ {0}
    /\ Period \in 1 .. HalfRange - 1 /\ FirstDelay \in 0 .. HalfRange - 1
    /\ StallTicks \in Nat /\ LineDepth \in Nat
    /\ CopyTicks \in Nat /\ ByteTicks \in Nat /\ CopyTicks <= ByteTicks
    /\ RetryDelay >= 1

VARIABLES
    uwTick,              \* HAL_GetTick()
    systick_count,       \* SysTicks since uwTick last moved
    buffers,             \* modbus_master_rx.buffers
    active,              \* modbus_master_rx: the frame arriving
    pending,             \* modbus_master_rx: the frame that waits
    armed,               \* huart3.RxState is BUSY_RX
    uart_error_pending,  \* modbus_master_uart_error_pending
    window_open,         \* modbus_master_receive_window_open
    completed_at,        \* modbus_master_tx_complete_tick while it is pending
    cycle_active,        \* modbus_master_cycle_active
    test_step,           \* modbus_master_test_step
    current_test,        \* modbus_master_current_test
    last_result,         \* modbus_master_last_result
    next_cycle_ms,       \* modbus_master_next_cycle_ms
    force_request,       \* modbus_master_force_request
    auto_poll_enabled,   \* modbus_master_auto_poll_enabled
    pc,                  \* where modbus_master_process is
    caller,              \* what called mbrtum_transaction_*: a retry or a start
    claimed,             \* process_response_frame: its copy of what is pending
    carried,             \* what transaction->response carries
    values,              \* modbus_master_coils, modbus_master_holding_registers, ...
    held,                \* slave: the registers that hold what the test writes
    line,                \* the answers under way, in order
    upsets,              \* noise, errors and forced requests since the start
    quiet,               \* SysTicks since the last byte on the line
    stall                \* SysTicks since the main loop's last step

rx == <<buffers, active, pending>>
slave == <<held, line, upsets, quiet>>
cycle == <<cycle_active, test_step, current_test, last_result, next_cycle_ms>>
engine == <<state, result, expects_response, retries_used, deadline,
            saw_response_error, response_adu, protocol_result, diagnostics,
            outgoing, elapsed, tries, malformedIn>>
watch == <<force_request, auto_poll_enabled>>
locals == <<caller, claimed, carried, values>>
example_vars ==
    <<engine, now, uwTick, systick_count, rx, armed, uart_error_pending,
      window_open, completed_at, cycle, watch, pc, locals, slave, stall>>

test_is_valid(t) == t # "invalid"
test_is_write(t) == t \in {"write_one", "write_all"}

\* The registers a test writes, which are those verify_readback compares.
Written(t) == IF t = "write_one" THEN {First} ELSE Regs

\* build_request: the function asked for is a read, or the write of a test.
RequestFunction ==
    IF test_step = "VERIFY_READBACK" \/ ~test_is_write(current_test)
    THEN "read" ELSE "write"

------------------------------------------------------------------------------
(* The receiver: modbus_master_rx and the two interrupt handlers *)

rx_reset_active_isr(index) ==
    [index |-> index, length |-> 0, frame_active |-> FALSE, gap_ticks |-> 0,
     invalid_gap |-> FALSE, overflow |-> FALSE]

\* What a response carries: the registers that hold what the test writes, and
\* (as a history) whether it answers a request of an earlier cycle.
NoResponse == [data |-> {}, old |-> FALSE]

NothingPending == [ready |-> FALSE, index |-> 0, length |-> 0, damaged |-> FALSE]

\* What a buffer holds past the bytes of its frame is never read: it is <<>>.
rx_reset_all ==
    /\ active' = rx_reset_active_isr(0)
    /\ pending' = NothingPending
    /\ buffers' = [i \in {0, 1} |-> <<>>]

\* rx_complete_frame_isr: the frame waits, unless another still does; the next
\* one goes to the other buffer.
MutantOverrunSwitches(a, p) == rx_reset_active_isr(1 - a.index)

completed_active(a, p) ==
    rx_reset_active_isr(IF p.ready THEN a.index ELSE 1 - a.index)

completed_pending(a, p) ==
    IF p.ready THEN p
    ELSE [ready |-> TRUE, index |-> a.index, length |-> a.length,
          damaged |-> a.invalid_gap \/ a.overflow]

\* A byte after more than T1.5 damages the frame, one past the capacity too; a
\* damaged frame stores no more.  A byte never finds T3.5 passed: the tick
\* handler has ended the frame by then.
on_rx_byte_isr(b) ==
    IF ~window_open
    THEN UNCHANGED rx
    ELSE LET late == active.frame_active /\ active.gap_ticks > T15
             damaged == active.invalid_gap \/ late \/ active.overflow
             full == ~damaged /\ active.length >= RxCapacity
             stored == ~damaged /\ ~full
         IN  /\ active' = [active EXCEPT
                             !.gap_ticks = 0,
                             !.frame_active = TRUE,
                             !.invalid_gap = @ \/ late,
                             !.overflow = @ \/ full,
                             !.length = IF stored THEN @ + 1 ELSE @]
             /\ buffers' =
                  IF stored
                  THEN [buffers EXCEPT ![active.index] =
                          Append(SubSeq(@, 1, active.length), b)]
                  ELSE buffers
             /\ UNCHANGED pending

on_50us_tick_isr ==
    IF ~window_open \/ ~active.frame_active
    THEN UNCHANGED rx
    ELSE /\ IF active.gap_ticks + 1 >= T35
            THEN /\ pending' = completed_pending(active, pending)
                 /\ active' = completed_active(active, pending)
            ELSE /\ active' = [active EXCEPT !.gap_ticks = @ + 1]
                 /\ UNCHANGED pending
         /\ UNCHANGED buffers

------------------------------------------------------------------------------
(* The interrupts *)

\* Elsewhere the main loop touches nothing the handlers touch, or empties the
\* receiver: an interrupt there is one that came a step sooner or later.
Interruptible == pc \in {"top", "claim", "respond", "close", "transmit"}

MainUnchanged ==
    /\ Interruptible
    /\ UNCHANGED <<engine, now, window_open, completed_at, cycle, auto_poll_enabled,
                   pc, locals, held>>

\* A byte is complete on the line.  The silence between two bytes is not between
\* T3.5 less a byte and T3.5: a byte belongs to the frame, or starts the next.
\* It is lost on a UART that is not armed.
HAL_UART_RxCpltCallback(b) ==
    /\ quiet < T35 \/ quiet >= T35 + ByteTicks
    /\ quiet' = 0
    /\ IF armed THEN on_rx_byte_isr(b) ELSE UNCHANGED rx
    /\ UNCHANGED <<uwTick, systick_count, armed, uart_error_pending, force_request,
                   stall>>
    /\ MainUnchanged

Upset ==
    /\ upsets < UpsetMax
    /\ upsets' = upsets + 1

\* The byte of the first answer under way, or one that is no answer's.
AnswerByte ==
    /\ line # <<>>
    /\ line' = Tail(line)
    /\ HAL_UART_RxCpltCallback(Head(line))
    /\ UNCHANGED upsets

NoiseByte ==
    /\ Upset
    /\ HAL_UART_RxCpltCallback(Noise)
    /\ UNCHANGED line

\* An overrun may abort the reception, a framing or noise error does not.
HAL_UART_ErrorCallback ==
    /\ Upset
    /\ armed
    /\ uart_error_pending' = TRUE
    /\ armed' \in BOOLEAN
    /\ UNCHANGED <<uwTick, systick_count, rx, line, quiet, force_request, stall>>
    /\ MainUnchanged

\* The main loop is between two steps for a bounded time: shorter than half the
\* range of the clock, and shorter than a byte while it copies a frame.
SysTick_Handler ==
    /\ stall < IF pc = "respond" THEN CopyTicks ELSE StallTicks
    /\ stall' = stall + 1
    /\ systick_count' = (systick_count + 1) % TicksPerMs
    /\ uwTick' = IF systick_count' = 0 THEN (uwTick + 1) % ClockModulus ELSE uwTick
    /\ quiet' = IF quiet < T35 + ByteTicks THEN quiet + 1 ELSE quiet
    /\ on_50us_tick_isr
    /\ UNCHANGED <<armed, uart_error_pending, line, upsets, force_request>>
    /\ MainUnchanged

\* Another context asks for a cycle; the line loses an answer.
modbus_master_request_now ==
    /\ Upset
    /\ force_request' = TRUE
    /\ UNCHANGED <<uwTick, systick_count, rx, armed, uart_error_pending, line, quiet,
                   stall>>
    /\ MainUnchanged

AnswerLost ==
    /\ line # <<>>
    /\ line' = Tail(line)
    /\ UNCHANGED <<uwTick, systick_count, rx, armed, uart_error_pending, upsets, quiet,
                   force_request, stall>>
    /\ MainUnchanged

------------------------------------------------------------------------------
(* modbus_master_process, one step after the other *)

\* A step of the main loop, from one place to the next.
Step(from, to) ==
    /\ pc = from
    /\ pc' = to
    /\ stall' = 0
    /\ UNCHANGED <<uwTick, systick_count, quiet, auto_poll_enabled>>

\* mbrtum_transaction_on_tx_complete with the tick of the transmission's end.
Completed == INSTANCE MasterTransaction WITH now <- completed_at

\* ensure_receive_armed, handle_tx_complete (nothing is pending between two
\* passes, and the tick of the last completion has been used) and the time of
\* this pass.
ensure_receive_armed ==
    /\ Step("top", "claim")
    /\ armed' = TRUE
    /\ completed_at' = 0
    /\ now' = uwTick
    /\ UNCHANGED <<engine, rx, uart_error_pending, window_open, cycle,
                   force_request, locals, held, line, upsets>>

\* process_response_frame: the critical section takes the frame that waits ...
ClaimFrame ==
    /\ Step("claim", IF pending.ready THEN "respond" ELSE "uart_error")
    /\ IF pending.ready
       THEN /\ claimed' = pending
            /\ pending' = [pending EXCEPT !.ready = FALSE]
       ELSE UNCHANGED <<claimed, pending>>
    /\ UNCHANGED <<engine, now, buffers, active, armed, uart_error_pending,
                   window_open, completed_at, cycle, force_request, caller, carried,
                   values, held, line, upsets>>

\* What mbrtum_process_response_with_request_adu says of a frame.
VerdictOf(frame) ==
    IF Len(frame) # 1 \/ frame[1] = Noise THEN "MALFORMED"
    ELSE IF frame[1].function # RequestFunction THEN "UNRELATED"
    ELSE IF frame[1].exception THEN "EXCEPTION"
    ELSE "OK"

\* mbrtum_transaction_on_response, given what it does in time.
on_response(inTime) ==
    /\ LateResponse \/ inTime
    /\ UNCHANGED <<expects_response, outgoing, tries>>

\* ... and the engine copies and judges it, outside.  Its buffer is done with.
process_response_frame ==
    LET frame == SubSeq(buffers[claimed.index], 1, claimed.length)
        verdict == VerdictOf(frame)
    IN  /\ Step("respond", "uart_error")
        /\ IF state # "WAITING_RESPONSE" THEN UNCHANGED engine
           ELSE on_response(IF claimed.damaged THEN BadLength
                            ELSE StoredResponse(verdict))
        /\ carried' = IF result' = "SUCCESS" /\ result # "SUCCESS"
                       THEN [data |-> frame[1].data, old |-> frame[1].old]
                       ELSE carried
        /\ claimed' = NothingPending
        /\ buffers' = IF active.index = claimed.index
                      THEN buffers
                      ELSE [buffers EXCEPT ![claimed.index] = <<>>]
        /\ UNCHANGED <<now, active, pending, armed, uart_error_pending, window_open,
                       completed_at, cycle, force_request, caller, values, held, line,
                       upsets>>

process_uart_error ==
    /\ Step("uart_error", "poll")
    /\ uart_error_pending' = FALSE
    /\ IF uart_error_pending
       THEN /\ rx_reset_all
            /\ window_open' = (state = "WAITING_RESPONSE")
            /\ IF state = "WAITING_RESPONSE" THEN on_response(BadLength)
               ELSE UNCHANGED engine
       ELSE UNCHANGED <<rx, window_open, engine>>
    /\ UNCHANGED <<now, armed, completed_at, cycle, force_request, locals, held,
                   line, upsets>>

\* mbrtum_transaction_poll: a due retry calls transport_transmit.
poll ==
    LET due == state = "RETRY_DELAY" /\ deadline_reached(now, deadline)
    IN  /\ Step("poll", IF due THEN "reset" ELSE "sync")
        /\ caller' = IF due THEN "retry" ELSE caller
        /\ IF state = "WAITING_RESPONSE" /\ deadline_reached(now, deadline)
           THEN PollTimeout ELSE UNCHANGED <<engine, now>>
        /\ UNCHANGED <<rx, armed, uart_error_pending, window_open, completed_at,
                       cycle, force_request, claimed, carried, values, held, line,
                       upsets>>

\* transport_transmit: the receiver is emptied, the window closed, and the main
\* loop waits for HAL_UART_Transmit.
TransmitReset ==
    /\ Step("reset", "close")
    /\ rx_reset_all
    /\ UNCHANGED <<engine, now, armed, uart_error_pending, window_open, completed_at,
                   cycle, force_request, locals, held, line, upsets>>

MutantOpensEarly ==
    /\ Step("close", "transmit")
    /\ window_open' = TRUE
    /\ UNCHANGED <<engine, now, rx, armed, uart_error_pending, completed_at, cycle,
                   force_request, locals, held, line, upsets>>

TransmitClose ==
    /\ Step("close", "transmit")
    /\ window_open' = FALSE
    /\ UNCHANGED <<engine, now, rx, armed, uart_error_pending, completed_at, cycle,
                   force_request, locals, held, line, upsets>>

\* The slave may not hear the request, may refuse it, and may store what a write
\* asks for in part only.
SlaveAnswers(a) ==
    \/ line' = line
    \/ /\ Len(line) < LineDepth
       /\ line' = Append(line, a)

SlaveHears ==
    LET refusal == [function |-> RequestFunction, exception |-> TRUE, data |-> {},
                    old |-> FALSE]
        reply == [function |-> RequestFunction, exception |-> FALSE,
                  data |-> IF RequestFunction = "read" THEN held ELSE {},
                  old |-> FALSE]
    IN  /\ UNCHANGED upsets
        /\ \/ /\ SlaveAnswers(refusal)
              /\ held' = held
           \/ /\ SlaveAnswers(reply)
              /\ IF RequestFunction = "read" THEN held' = held
                 ELSE \E S \in SUBSET Written(current_test) : held' = held \cup S

\* HAL_UART_Transmit returns: the engine's start or retry ends with what it says.
transport_transmit ==
    /\ Step("transmit", "tx_complete")
    /\ IF caller = "retry" THEN PollRetry
       ELSE mbrtum_transaction_start /\ expects_response'
    /\ SlaveHears
    /\ IF outgoing' # <<>>
       THEN /\ completed_at' = uwTick
            /\ window_open' = TRUE
       ELSE UNCHANGED <<completed_at, window_open>>
    /\ UNCHANGED <<rx, armed, uart_error_pending, cycle, force_request, locals>>

handle_tx_complete ==
    /\ Step("tx_complete", "sync")
    /\ IF outgoing # <<>> THEN Completed!mbrtum_transaction_on_tx_complete
       ELSE UNCHANGED <<engine, completed_at>>
    /\ UNCHANGED <<now, rx, armed, uart_error_pending, window_open, cycle,
                   force_request, locals, held, line, upsets>>

\* Outside a wait for the response the window is closed and the receiver empty.
sync_watch_state ==
    /\ Step("sync", IF caller = "start" THEN "top" ELSE "terminal")
    /\ caller' = "none"
    /\ IF state # "WAITING_RESPONSE"
       THEN window_open' = FALSE /\ rx_reset_all
       ELSE UNCHANGED <<window_open, rx>>
    /\ UNCHANGED <<engine, now, armed, uart_error_pending, completed_at, cycle,
                   force_request, claimed, carried, values, held, line, upsets>>

finish_cycle(r) ==
    /\ cycle_active' = FALSE
    /\ test_step' = "IDLE"
    /\ last_result' = r
    /\ next_cycle_ms' = (now + Period) % ClockModulus
    /\ window_open' = FALSE
    /\ rx_reset_all
    /\ UNCHANGED current_test

\* decode_read_response copies what was read; a response the engine accepted
\* always decodes.  verify_readback compares the copy with what was written.
decode_read_response == carried

MutantVerifiesOne(decoded) == First \in decoded.data

MutantVerifiesFirst(decoded) == Written(current_test) \subseteq values.data

verify_readback(decoded) == Written(current_test) \subseteq decoded.data

map_terminal_result == IF result = "MODBUS_EXCEPTION" THEN "EXCEPTION" ELSE result

\* handle_terminal_transaction: the write of a test is read back, anything else
\* that has ended ends the cycle.  The response is not looked at again.
WriteDone ==
    /\ state = "COMPLETE" /\ result = "SUCCESS"
    /\ test_step = "REQUEST" /\ test_is_write(current_test)

TerminalReadback ==
    /\ test_step' = "VERIFY_READBACK"
    /\ pc' = "reset"
    /\ caller' = "start"
    /\ UNCHANGED <<cycle_active, current_test, last_result, next_cycle_ms,
                   window_open, rx, values>>

MutantFailureForgotten == state = "COMPLETE" /\ ~WriteDone

Ended ==
    \/ state = "COMPLETE" /\ ~WriteDone
    \/ state \in {"FAILED", "CANCELLED"}

TerminalFinish ==
    /\ values' = IF result = "SUCCESS" THEN decode_read_response ELSE values
    /\ finish_cycle(IF result # "SUCCESS" THEN map_terminal_result
                    ELSE IF test_step = "VERIFY_READBACK" /\ ~verify_readback(values')
                    THEN "VERIFY_ERROR" ELSE "PASS")
    /\ pc' = "cycle"
    /\ UNCHANGED caller

handle_terminal_transaction ==
    /\ pc = "terminal"
    /\ \/ cycle_active /\ WriteDone /\ TerminalReadback
       \/ cycle_active /\ Ended /\ TerminalFinish
       \/ /\ ~(cycle_active /\ (WriteDone \/ Ended))
          /\ pc' = "cycle"
          /\ UNCHANGED <<cycle, window_open, rx, caller, values>>
    /\ carried' = NoResponse
    /\ stall' = 0
    /\ UNCHANGED <<engine, now, uwTick, systick_count, armed, uart_error_pending,
                   completed_at, watch, claimed, held, line, upsets, quiet>>

\* start_cycle.  The test may be changed while none runs.  The registers of the
\* slave hold nothing of what it will write, although what an earlier cycle has
\* decoded matches it, the hardest case: others write them too, and the values to
\* write are settable.  An answer to the last cycle may still be under way, and is an
\* old one now.  next_cycle_ms is not read before finish_cycle.
StartInvalid ==
    /\ current_test' = "invalid"
    /\ last_result' = "INVALID_TEST"
    /\ next_cycle_ms' = (now + Period) % ClockModulus
    /\ pc' = "top"
    /\ UNCHANGED <<cycle_active, test_step, caller, values, held, line, upsets>>

StartValid(t) ==
    /\ current_test' = t
    /\ test_step' = "REQUEST"
    /\ last_result' = "NONE"
    /\ cycle_active' = TRUE
    /\ pc' = "reset"
    /\ caller' = "start"
    /\ held' = {}
    /\ values' = [data |-> Regs, old |-> FALSE]
    /\ next_cycle_ms' = 0
    /\ upsets' = 0
    /\ line' = [i \in DOMAIN line |-> [line[i] EXCEPT !.old = TRUE]]

start_cycle == \E t \in Tests : IF test_is_valid(t) THEN StartValid(t) ELSE StartInvalid

time_reached(t, d) == deadline_reached(t, d)

MutantForcedOnly ==
    /\ force_request
    /\ auto_poll_enabled /\ time_reached(now, next_cycle_ms)

CycleDue ==
    \/ force_request
    \/ auto_poll_enabled /\ time_reached(now, next_cycle_ms)

\* The end of modbus_master_process.
modbus_master_process_end ==
    /\ pc = "cycle"
    /\ IF ~cycle_active /\ CycleDue
       THEN start_cycle /\ force_request' = FALSE
       ELSE /\ pc' = "top"
            /\ UNCHANGED <<cycle, force_request, caller, values, held, line, upsets>>
    /\ stall' = 0
    /\ UNCHANGED <<engine, now, uwTick, systick_count, rx, armed, uart_error_pending,
                   window_open, completed_at, auto_poll_enabled, claimed, carried,
                   quiet>>

------------------------------------------------------------------------------
(* Specification *)

modbus_master_init ==
    /\ Init
    /\ uwTick = 0 /\ now = 0 /\ systick_count = 0
    /\ buffers = [i \in {0, 1} |-> <<>>]
    /\ active = rx_reset_active_isr(0)
    /\ pending = NothingPending
    /\ armed = TRUE
    /\ uart_error_pending = FALSE
    /\ window_open = FALSE
    /\ completed_at = 0
    /\ cycle_active = FALSE
    /\ test_step = "IDLE"
    /\ current_test = "read"
    /\ last_result = "NONE"
    /\ next_cycle_ms = FirstDelay
    /\ force_request = FALSE
    /\ auto_poll_enabled = TRUE
    /\ pc = "top"
    /\ caller = "none"
    /\ claimed = NothingPending
    /\ carried = NoResponse
    /\ values = NoResponse
    /\ held = {}
    /\ line = <<>>
    /\ upsets = 0
    /\ quiet = 0
    /\ stall = 0

modbus_master_process ==
    \/ ensure_receive_armed
    \/ ClaimFrame
    \/ process_response_frame
    \/ process_uart_error
    \/ poll
    \/ TransmitReset
    \/ TransmitClose
    \/ transport_transmit
    \/ handle_tx_complete
    \/ sync_watch_state
    \/ handle_terminal_transaction
    \/ modbus_master_process_end

Environment ==
    \/ AnswerByte
    \/ NoiseByte
    \/ AnswerLost
    \/ HAL_UART_ErrorCallback
    \/ modbus_master_request_now

ExampleNext == modbus_master_process \/ SysTick_Handler \/ Environment

ExampleSafety == modbus_master_init /\ [][ExampleNext]_example_vars

\* The main loop goes on and so does the clock.  Nothing is assumed of the slave.
ExampleSpec ==
    /\ ExampleSafety
    /\ WF_example_vars(modbus_master_process)
    /\ SF_example_vars(SysTick_Handler)

------------------------------------------------------------------------------
(* Properties *)

\* A buffer whose frame waits, or is being copied by the engine.
FrameIn(i) ==
    \/ pending.ready /\ pending.index = i
    \/ pc = "respond" /\ claimed.index = i

\* The bytes of a frame stay as they came while the frame waits and until the
\* engine has copied it out of its buffer, outside the critical section
\* (app.c:619-641).  A UART error discards a frame that waits; one that is claimed
\* is judged before the error is looked at (app.c:971-972).
FrameIntact ==
    [][\A i \in {0, 1} : FrameIn(i) /\ FrameIn(i)' => buffers'[i] = buffers[i]]_example_vars

\* When a request is out the receiver is empty: nothing that was on the line
\* before is taken for its response (transport_transmit empties the receiver
\* before it closes the window, app.c:355-356, so the window must be closed
\* already, which a retry delay of zero would break).
FreshWindow ==
    [][outgoing = <<>> /\ outgoing' # <<>> =>
          ~pending'.ready /\ ~active'.frame_active]_example_vars

\* A write test passes only when the slave holds what the test wrote: "Write
\* tests include automatic read-back verification" (README.md:53).  Neither what an
\* earlier cycle has decoded nor a late answer to its write can make it pass.  Only a
\* late answer to its read-back can: an RTU frame does not say which request it
\* answers.
PassIsTrue ==
    last_result = "PASS" /\ test_is_write(current_test) /\ ~values.old =>
        Written(current_test) \subseteq held

\* Every cycle ends, whatever the slave and the line do; and "starts one test cycle per
\* second while modbus_master_auto_poll_enabled is nonzero" (BUILD_AND_TEST.md:77):
\* start_cycle is called again and again, after every result and after a selector that
\* is no test.
CyclesGoOn ==
    /\ cycle_active ~> ~cycle_active
    /\ []auto_poll_enabled =>
          []<><<pc = "cycle" /\ ~cycle_active
                  /\ (cycle_active' \/ next_cycle_ms' # next_cycle_ms)>>_example_vars
==============================================================================
