----------------------------- MODULE RtuReceiver -----------------------------
(***************************************************************************)
(* The byte and timing layer of the RTU server (App/src/modbus_rtu.c): the *)
(* receive interrupt, the 50 us tick interrupt and the main-loop poll that *)
(* share one mbrtu_context_t.  The two handlers do not preempt each other  *)
(* (docs/modbus-rtu-timing.md requires it) and the main loop preempts      *)
(* neither, so a handler is one step; mbrtu_poll is cut at its accesses to *)
(* what the handlers write.  The context is the one of mbrtu_init, without *)
(* diagnostics.  Counters wrap at CounterModulus (2^32 in the code).       *)
(***************************************************************************)
EXTENDS Naturals, Sequences

CONSTANTS
    Byte,            \* byte values
    Capacity,        \* config->receive_buffer_capacity
    AduMinSize,      \* MODBUS_RTU_ADU_MIN_SIZE
    T15,             \* timing.byte_complete_t1_5_ticks
    T35,             \* timing.byte_complete_t3_5_ticks
    CounterModulus,  \* 2^32, the range of a statistics counter
    LineStats,       \* the counters of the line that are kept; nothing reads them
    NoFrame          \* no frame on the line, in the slot or being served

\* mbrtu_init refuses a capacity below the smallest ADU, and the timing
\* calculation refuses intervals that are zero or out of order.
ASSUME ReceiverAssumption ==
    /\ AduMinSize \in Nat \ {0}
    /\ Capacity \in Nat /\ Capacity >= AduMinSize
    /\ T15 \in Nat \ {0}
    /\ T35 \in Nat /\ T15 < T35
    /\ CounterModulus \in Nat \ {0}
    /\ LineStats \subseteq {"received_bytes", "invalid_gap_events", "overflow_events"}

ASSUME ByteAssumption == Byte # {} /\ NoFrame \notin [data : Seq(Byte), damaged : BOOLEAN]

VARIABLES
    active,           \* mbrtu_context_t: the frame arriving
    pending,          \* mbrtu_context_t: the frame published to mbrtu_poll
    receive_buffers,  \* the two buffers of mbrtu_config_t
    stats,            \* mbrtu_context_t: the statistics counters
    pc,               \* where mbrtu_poll is
    request,          \* mbrtu_poll: its copy of what is pending
    process_result,   \* mbrtu_poll: the result of processing the request
    checked,          \* history: the bytes the CRC was computed over
    executed,         \* history: the bytes the dispatcher acted on
    dropped           \* history: frames poll returned as FRAME_DROPPED

context == <<active, pending, receive_buffers>>
locals == <<request, process_result, checked, executed>>
vars == <<active, pending, receive_buffers, stats, pc, request, process_result,
          checked, executed, dropped>>

BufferIndex == {0, 1}
Buffer == [1 .. Capacity -> Byte]

Counter == 0 .. CounterModulus - 1
Inc(n) == (n + 1) % CounterModulus

StatName ==
    {"detected_frame_boundaries", "queued_frames", "overrun_frames",
     "no_response_frames", "responses_sent", "processing_errors",
     "transmit_errors"} \cup LineStats

\* Every counter of names goes up by one.
Counted(names) ==
    stats' = [n \in StatName |-> IF n \in names THEN Inc(stats[n]) ELSE stats[n]]

Result == {"RESPONSE_READY", "NO_RESPONSE", "ERROR"}
PollLocation == {"idle", "latch", "drop", "check", "execute", "release", "finish"}

\* The first n bytes of a receive buffer.
Content(index, n) == [i \in 1 .. n |-> receive_buffers[index][i]]

------------------------------------------------------------------------------
(* Receive and tick interrupt handlers *)

\* No frame on the line; the next one will go to buffer index.
reset_active_frame(index) ==
    [buffer_index |-> index,
     frame_active |-> FALSE,
     length |-> 0,
     gap_ticks |-> 0,
     invalid_gap |-> FALSE,
     overflow |-> FALSE]

\* complete_active_frame_isr: what it leaves as the pending frame (the one just
\* ended, unless an earlier one still waits) ...
complete_pending(a, p) ==
    IF p.ready THEN p
    ELSE [ready |-> TRUE,
          buffer_index |-> a.buffer_index,
          length |-> a.length,
          invalid_gap |-> a.invalid_gap,
          overflow |-> a.overflow]

MutantKeepsBuffer(a, p) == reset_active_frame(a.buffer_index)

\* ... as the active frame (none; the buffer changes only with a publication) ...
complete_active(a, p) ==
    reset_active_frame(IF p.ready THEN a.buffer_index ELSE 1 - a.buffer_index)

\* ... and what it counts.
MutantOverrunAlsoQueued(p) ==
    {"detected_frame_boundaries", "queued_frames"}
        \cup (IF p.ready THEN {"overrun_frames"} ELSE {})

complete_counts(p) ==
    {"detected_frame_boundaries",
     IF p.ready THEN "overrun_frames" ELSE "queued_frames"}

\* The silence before a byte was longer than T1.5 but did not end the frame.
MutantT15Excluded(a) ==
    a.frame_active /\ a.gap_ticks >= T15 /\ a.gap_ticks < T35 /\ ~a.invalid_gap

gap_is_invalid(a) ==
    a.frame_active /\ a.gap_ticks > T15 /\ a.gap_ticks < T35 /\ ~a.invalid_gap

buffer_is_full(a) == a.length >= Capacity

\* The handler on a received byte.  It ends the frame itself when the silence
\* was T3.5, judges the gap, and stores the byte unless the frame is damaged.
mbrtu_on_rx_byte_isr(b) ==
    LET ended == active.frame_active /\ active.gap_ticks >= T35
        late == gap_is_invalid(active)
        here == IF ended THEN complete_active(active, pending) ELSE active
        damaged == here.invalid_gap \/ late \/ here.overflow
        full == ~damaged /\ buffer_is_full(here)
        stored == ~damaged /\ ~full
    IN  /\ active' = [buffer_index |-> here.buffer_index,
                      frame_active |-> TRUE,
                      length |-> IF stored THEN here.length + 1 ELSE here.length,
                      gap_ticks |-> 0,
                      invalid_gap |-> here.invalid_gap \/ late,
                      overflow |-> here.overflow \/ full]
        /\ pending' = IF ended THEN complete_pending(active, pending) ELSE pending
        /\ receive_buffers' =
              IF stored
              THEN [receive_buffers EXCEPT
                      ![here.buffer_index] = [@ EXCEPT ![here.length + 1] = b]]
              ELSE receive_buffers
        /\ Counted({"received_bytes"}
                     \cup (IF ended THEN complete_counts(pending) ELSE {})
                     \cup (IF late THEN {"invalid_gap_events"} ELSE {})
                     \cup (IF full THEN {"overflow_events"} ELSE {}))
        /\ UNCHANGED <<pc, locals, dropped>>

\* The silence after one more tick; the counter stops at T3.5.
MutantTickStopsAtT15(a) == IF a.gap_ticks < T15 THEN a.gap_ticks + 1 ELSE a.gap_ticks

ticked_gap(a) == IF a.gap_ticks < T35 THEN a.gap_ticks + 1 ELSE a.gap_ticks

tick_ends_frame(a) == ticked_gap(a) >= T35

\* The handler of the 50 us timer; without a frame it returns at once.
mbrtu_on_50us_tick_isr ==
    /\ active.frame_active
    /\ IF tick_ends_frame(active)
       THEN /\ active' = complete_active(active, pending)
            /\ pending' = complete_pending(active, pending)
            /\ Counted(complete_counts(pending))
       ELSE /\ active' = [buffer_index |-> active.buffer_index,
                          frame_active |-> TRUE,
                          length |-> active.length,
                          gap_ticks |-> ticked_gap(active),
                          invalid_gap |-> active.invalid_gap,
                          overflow |-> active.overflow]
            /\ UNCHANGED <<pending, stats>>
    /\ UNCHANGED <<receive_buffers, pc, locals, dropped>>

------------------------------------------------------------------------------
(* mbrtu_poll, called from the main loop *)

NothingPending ==
    [ready |-> FALSE, buffer_index |-> 0, length |-> 0,
     invalid_gap |-> FALSE, overflow |-> FALSE]

\* pending_ready = 0; the other fields keep their values.
Taken(p) ==
    [ready |-> FALSE, buffer_index |-> p.buffer_index, length |-> p.length,
     invalid_gap |-> p.invalid_gap, overflow |-> p.overflow]

Damaged(p) == p.invalid_gap \/ p.overflow

\* The bytes at the address poll has in its locals.
RequestBytes == Content(request.buffer_index, request.length)

\* poll returns; its locals are gone.
Return ==
    /\ pc' = "idle"
    /\ request' = NothingPending
    /\ process_result' = "NO_RESPONSE"
    /\ checked' = <<>>
    /\ executed' = <<>>

PollSeesFrame ==
    /\ pc = "idle"
    /\ pending.ready
    /\ pc' = "latch"
    /\ UNCHANGED <<context, stats, locals, dropped>>

PollLatch ==
    /\ pc = "latch"
    /\ request' = pending
    /\ pc' = IF Damaged(pending) THEN "drop" ELSE "check"
    /\ UNCHANGED <<context, stats, process_result, checked, executed, dropped>>

PollDrop ==
    /\ pc = "drop"
    /\ pending' = Taken(pending)
    /\ dropped' = Inc(dropped)
    /\ Return
    /\ UNCHANGED <<active, receive_buffers, stats>>

\* Length and CRC over the bytes in the buffer; a bad frame gets no answer.
PollCheck ==
    /\ pc = "check"
    /\ checked' = RequestBytes
    /\ \E crcOk \in BOOLEAN :
          pc' = IF crcOk /\ request.length >= AduMinSize THEN "execute" ELSE "release"
    /\ UNCHANGED <<context, stats, request, process_result, executed, dropped>>

\* Address filter, diagnostics and PDU dispatch read the buffer again.
PollExecute ==
    /\ pc = "execute"
    /\ executed' = RequestBytes
    /\ process_result' \in Result
    /\ pc' = "release"
    /\ UNCHANGED <<context, stats, request, checked, dropped>>

PollRelease ==
    /\ pc = "release"
    /\ pending' = Taken(pending)
    /\ pc' = "finish"
    /\ UNCHANGED <<active, receive_buffers, stats, locals, dropped>>

\* The transmit callback accepts or refuses a response.
Outcome ==
    CASE process_result = "RESPONSE_READY" -> {"responses_sent", "transmit_errors"}
      [] process_result = "NO_RESPONSE" -> {"no_response_frames"}
      [] process_result = "ERROR" -> {"processing_errors"}

PollFinish ==
    /\ pc = "finish"
    /\ \E outcome \in Outcome : Counted({outcome})
    /\ Return
    /\ UNCHANGED <<context, dropped>>

mbrtu_poll ==
    \/ PollSeesFrame
    \/ PollLatch
    \/ PollDrop
    \/ PollCheck
    \/ PollExecute
    \/ PollRelease
    \/ PollFinish

------------------------------------------------------------------------------
(* Specification *)

\* mbrtu_init; the caller's buffers hold anything.
Init ==
    /\ active = reset_active_frame(0)
    /\ pending = NothingPending
    /\ receive_buffers \in [BufferIndex -> Buffer]
    /\ stats = [n \in StatName |-> 0]
    /\ pc = "idle"
    /\ request = NothingPending
    /\ process_result = "NO_RESPONSE"
    /\ checked = <<>>
    /\ executed = <<>>
    /\ dropped = 0

RxInterrupt == \E b \in Byte : mbrtu_on_rx_byte_isr(b)

Next == RxInterrupt \/ mbrtu_on_50us_tick_isr \/ mbrtu_poll

Spec == Init /\ [][Next]_vars

\* The timer keeps ticking and the main loop keeps calling mbrtu_poll.
\* Nothing is assumed of the line.
FairSpec == Spec /\ WF_vars(mbrtu_on_50us_tick_isr) /\ WF_vars(mbrtu_poll)

------------------------------------------------------------------------------
(* Properties *)

ActiveFrame ==
    [buffer_index : BufferIndex,
     frame_active : BOOLEAN,
     length : 0 .. Capacity,
     gap_ticks : 0 .. T35,
     invalid_gap : BOOLEAN,
     overflow : BOOLEAN]

PendingFrame ==
    [ready : BOOLEAN,
     buffer_index : BufferIndex,
     length : 0 .. Capacity,
     invalid_gap : BOOLEAN,
     overflow : BOOLEAN]

\* The types of the context, of the locals of mbrtu_poll and of the histories.
TypeOK ==
    /\ active \in ActiveFrame
    /\ pending \in PendingFrame
    /\ receive_buffers \in [BufferIndex -> Buffer]
    /\ stats \in [StatName -> Counter]
    /\ pc \in PollLocation
    /\ request \in PendingFrame
    /\ process_result \in Result
    /\ checked \in Seq(Byte)
    /\ executed \in Seq(Byte)
    /\ dropped \in Counter

\* The receive buffer mbrtu_poll works on is never the one the receive
\* interrupt writes ("unread data is never silently overwritten",
\* docs/modbus-rtu-timing.md:35), and what poll has latched stays what is
\* pending until poll itself clears pending_ready.
BuffersApart ==
    /\ pending.ready => pending.buffer_index # active.buffer_index
    /\ pc \in {"drop", "check", "execute", "release"} =>
          pending.ready /\ request = pending

\* The bytes the dispatcher executes are the bytes whose CRC was checked,
\* whatever the interrupts store between the two passes over the buffer.
ExecutedIsChecked == executed # <<>> => executed = checked

HandledFrames ==
    stats["no_response_frames"] + stats["responses_sent"]
        + stats["processing_errors"] + stats["transmit_errors"] + dropped

FramesInHand ==
    (IF pending.ready THEN 1 ELSE 0) + (IF pc = "finish" THEN 1 ELSE 0)

\* Every frame boundary is counted once as queued or as overrun, and every
\* queued frame is still pending, in the hands of mbrtu_poll, or counted once
\* by the way poll ended it (modulo the width of the counters).
FrameAccounting ==
    /\ stats["detected_frame_boundaries"]
          = (stats["queued_frames"] + stats["overrun_frames"]) % CounterModulus
    /\ stats["queued_frames"] = (HandledFrames + FramesInHand) % CounterModulus

\* "The gap counter never wraps: it is bounded by T3.5"
\* (docs/modbus-rtu-timing.md:88).  No handler leaves it at T3.5, so the branch
\* of the receive interrupt that ends a frame itself is never needed.  Between
\* frames nothing of the last one is left.
GapBelowT35 ==
    IF active.frame_active
    THEN active.gap_ticks < T35 /\ active.length > 0
    ELSE active = reset_active_frame(active.buffer_index)

\* No frame is stuck in the receiver.  When bytes stop arriving the frame on the
\* line ends: the tick handler alone reaches the boundary from any gap, for a sound
\* and a damaged frame alike.  And a published frame does not stay pending: every
\* path of mbrtu_poll consumes it, dropped or processed, so that the next can be
\* queued.
FramesMoveOn ==
    /\ []<><<RxInterrupt>>_vars \/ (active.frame_active ~> ~active.frame_active)
    /\ pending.ready ~> ~pending.ready

------------------------------------------------------------------------------
(* The receiver implements the one-frame slot of FrameSlot *)

LineFrame ==
    IF active.frame_active
    THEN [data |-> Content(active.buffer_index, active.length),
          damaged |-> Damaged(active)]
    ELSE NoFrame

SlotFrame ==
    IF pending.ready
    THEN [data |-> Content(pending.buffer_index, pending.length),
          damaged |-> Damaged(pending)]
    ELSE NoFrame

ServedFrame ==
    IF pc \in {"drop", "check", "execute", "release"}
    THEN [data |-> RequestBytes, damaged |-> Damaged(request)]
    ELSE NoFrame

Slot == INSTANCE FrameSlot WITH
            line <- LineFrame,
            quiet <- active.gap_ticks,
            slot <- SlotFrame,
            serving <- ServedFrame

\* The buffer swaps, flags and interrupt interleavings implement the slot: a
\* frame is the bytes that arrived with gaps up to T1.5, is queued whole or
\* lost whole, and does not change while mbrtu_poll works on it.
ImplementsSlot == Slot!SlotSpec
==============================================================================
