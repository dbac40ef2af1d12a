-------------------------- MODULE RtuReceiverProofs --------------------------
(***************************************************************************)
(* Proofs about RtuReceiver for every byte set, buffer capacity, timing    *)
(* and counter width.                                                      *)
(***************************************************************************)
EXTENDS RtuReceiver, ModularArithmetic

------------------------------------------------------------------------------
(* Type correctness *)

\* Counting keeps a counter in its range.
LEMMA IncType ==
    ASSUME NEW n \in Counter
    PROVE  Inc(n) \in Counter
BY ReceiverAssumption DEF Inc, Counter

\* Counting keeps the statistics well typed.
LEMMA CountedType ==
    ASSUME stats \in [StatName -> Counter], NEW names, Counted(names)
    PROVE  stats' \in [StatName -> Counter]
<1>1. \A n \in StatName : Inc(stats[n]) \in Counter /\ stats[n] \in Counter
  BY IncType
<1> QED
  BY <1>1 DEF Counted

\* The first n bytes of a buffer are a sequence of n bytes.
LEMMA ContentType ==
    ASSUME receive_buffers \in [BufferIndex -> Buffer],
           NEW k \in BufferIndex, NEW n \in 0 .. Capacity
    PROVE  /\ Content(k, n) \in Seq(Byte)
           /\ Len(Content(k, n)) = n
           /\ DOMAIN Content(k, n) = 1 .. n
<1>1. \A i \in 1 .. n : receive_buffers[k][i] \in Byte
  BY ReceiverAssumption DEF Buffer
<1>2. n \in Nat
  BY ReceiverAssumption
<1> QED
  BY <1>1, <1>2 DEF Content

\* What completing a frame leaves as the active frame.
LEMMA CompleteActive ==
    ASSUME active \in ActiveFrame, pending \in PendingFrame
    PROVE  LET a == complete_active(active, pending)
           IN  /\ a \in ActiveFrame
               /\ ~a.frame_active
               /\ a = reset_active_frame(a.buffer_index)
               /\ a.length = 0 /\ a.gap_ticks = 0
               /\ a.buffer_index = IF pending.ready THEN active.buffer_index
                                   ELSE 1 - active.buffer_index
BY ReceiverAssumption
DEF complete_active, reset_active_frame, ActiveFrame, PendingFrame, BufferIndex

\* What completing a frame leaves as the pending frame.
LEMMA CompletePending ==
    ASSUME active \in ActiveFrame, pending \in PendingFrame
    PROVE  LET p == complete_pending(active, pending)
           IN  /\ p \in PendingFrame
               /\ p.ready
               /\ p.buffer_index = IF pending.ready THEN pending.buffer_index
                                   ELSE active.buffer_index
BY DEF complete_pending, ActiveFrame, PendingFrame
------------------------------------------------------------------------------
(* The inductive invariant *)

\* What poll has checked cannot change before it is executed, and poll has
\* executed nothing before it comes to release the request.
PollOrder ==
    /\ pc = "latch" => pending.ready
    /\ pc = "execute" => checked = RequestBytes
    /\ pc \notin {"release", "finish"} => executed = <<>>

ReceiverInv ==
    /\ TypeOK
    /\ BuffersApart
    /\ GapBelowT35
    /\ PollOrder
    /\ ExecutedIsChecked

LEMMA InitInv == Init => ReceiverInv
BY ReceiverAssumption
DEF Init, ReceiverInv, TypeOK, BuffersApart, GapBelowT35, PollOrder,
    ExecutedIsChecked, reset_active_frame, NothingPending, ActiveFrame,
    PendingFrame, BufferIndex, Counter, Result, PollLocation, StatName

\* The receive interrupt preserves the invariant: it writes only the buffer
\* that poll does not read.
LEMMA RxInv ==
    ASSUME ReceiverInv, NEW b \in Byte, mbrtu_on_rx_byte_isr(b)
    PROVE  ReceiverInv'
<1> USE DEF ReceiverInv
<1>1. ~(active.frame_active /\ active.gap_ticks >= T35)
  BY ReceiverAssumption DEF TypeOK, ActiveFrame, GapBelowT35
<1>2. /\ active' \in ActiveFrame
      /\ active'.frame_active /\ active'.gap_ticks = 0 /\ active'.length > 0
      /\ active'.buffer_index = active.buffer_index
  <2> DEFINE late == gap_is_invalid(active)
             damaged == active.invalid_gap \/ late \/ active.overflow
             full == ~damaged /\ buffer_is_full(active)
             stored == ~damaged /\ ~full
             length == IF stored THEN active.length + 1 ELSE active.length
  <2>1. active' = [buffer_index |-> active.buffer_index,
                   frame_active |-> TRUE,
                   length |-> length,
                   gap_ticks |-> 0,
                   invalid_gap |-> active.invalid_gap \/ late,
                   overflow |-> active.overflow \/ full]
    BY <1>1 DEF mbrtu_on_rx_byte_isr
  <2>2. /\ active.invalid_gap \in BOOLEAN /\ active.overflow \in BOOLEAN
        /\ late \in BOOLEAN /\ full \in BOOLEAN /\ active.buffer_index \in BufferIndex
    BY DEF TypeOK, ActiveFrame, gap_is_invalid, buffer_is_full
  <2>3. length \in 0 .. Capacity /\ length > 0
    <3>1. active.length \in 0 .. Capacity /\ Capacity \in Nat /\ Capacity > 0
      BY ReceiverAssumption DEF TypeOK, ActiveFrame
    <3>2. CASE active.frame_active
      BY <3>1, <3>2 DEF GapBelowT35, buffer_is_full
    <3>3. CASE ~active.frame_active
      <4>1. active.length = 0 /\ ~active.invalid_gap /\ ~active.overflow /\ ~late
        BY <3>3 DEF GapBelowT35, reset_active_frame, gap_is_invalid
      <4> QED
        BY <3>1, <4>1 DEF buffer_is_full
    <3> QED
      BY <3>2, <3>3
  <2> HIDE DEF late, full, length
  <2> QED
    BY <2>1, <2>2, <2>3, ReceiverAssumption DEF ActiveFrame
<1>3. /\ pending' = pending
      /\ UNCHANGED <<pc, locals, dropped>>
  BY <1>1 DEF mbrtu_on_rx_byte_isr
<1>4. /\ receive_buffers' \in [BufferIndex -> Buffer]
      /\ \A k \in BufferIndex :
            k # active.buffer_index => receive_buffers'[k] = receive_buffers[k]
  BY <1>1 DEF mbrtu_on_rx_byte_isr, TypeOK, ActiveFrame, Buffer
<1>5. stats' \in [StatName -> Counter]
  BY CountedType DEF mbrtu_on_rx_byte_isr, TypeOK
<1>6. TypeOK'
  BY <1>2, <1>3, <1>4, <1>5 DEF TypeOK, locals
<1>7. BuffersApart' /\ GapBelowT35'
  BY <1>2, <1>3, ReceiverAssumption DEF BuffersApart, GapBelowT35, locals
<1>8. pc = "execute" => RequestBytes' = RequestBytes
  BY <1>3, <1>4 DEF BuffersApart, TypeOK, PendingFrame, RequestBytes, Content, locals
<1>9. PollOrder' /\ ExecutedIsChecked'
  BY <1>3, <1>8 DEF PollOrder, ExecutedIsChecked, locals
<1> QED
  BY <1>6, <1>7, <1>9

\* The tick interrupt preserves the invariant: a publication switches buffers.
LEMMA TickInv ==
    ASSUME ReceiverInv, mbrtu_on_50us_tick_isr
    PROVE  ReceiverInv'
<1> USE DEF ReceiverInv
<1>1. UNCHANGED <<receive_buffers, pc, locals, dropped>>
  BY DEF mbrtu_on_50us_tick_isr
<1>2. active.frame_active /\ active.gap_ticks < T35 /\ active.length > 0
  BY DEF mbrtu_on_50us_tick_isr, GapBelowT35
<1>3. /\ TypeOK'
      /\ GapBelowT35'
      /\ pending'.ready => pending'.buffer_index # active'.buffer_index
      /\ pending.ready => pending' = pending
  <2>1. CASE tick_ends_frame(active)
    <3>1. /\ active' = complete_active(active, pending)
          /\ pending' = complete_pending(active, pending)
          /\ stats' \in [StatName -> Counter]
      BY <2>1, CountedType DEF mbrtu_on_50us_tick_isr, TypeOK
    <3>2. pending.ready => pending' = pending
      BY <3>1 DEF complete_pending
    <3>3. pending'.buffer_index # active'.buffer_index
      BY <3>1, CompleteActive, CompletePending
      DEF TypeOK, ActiveFrame, BufferIndex, BuffersApart
    <3>4. TypeOK' /\ GapBelowT35'
      BY <1>1, <3>1, CompleteActive, CompletePending DEF TypeOK, GapBelowT35, locals
    <3> QED
      BY <3>2, <3>3, <3>4
  <2>2. CASE ~tick_ends_frame(active)
    <3>1. /\ active' = [buffer_index |-> active.buffer_index,
                        frame_active |-> TRUE,
                        length |-> active.length,
                        gap_ticks |-> ticked_gap(active),
                        invalid_gap |-> active.invalid_gap,
                        overflow |-> active.overflow]
          /\ UNCHANGED <<pending, stats>>
      BY <2>2 DEF mbrtu_on_50us_tick_isr
    <3>2. ticked_gap(active) \in 0 .. T35 /\ ticked_gap(active) < T35
      BY <2>2, ReceiverAssumption DEF tick_ends_frame, ticked_gap, TypeOK, ActiveFrame
    <3>3. active' \in ActiveFrame
      BY <3>1, <3>2 DEF TypeOK, ActiveFrame
    <3>4. TypeOK'
      BY <1>1, <3>1, <3>3 DEF TypeOK, locals
    <3>5. GapBelowT35'
      BY <1>2, <3>1, <3>2 DEF GapBelowT35
    <3> QED
      BY <3>1, <3>4, <3>5 DEF BuffersApart
  <2> QED
    BY <2>1, <2>2
<1>4. BuffersApart'
  BY <1>1, <1>3 DEF BuffersApart, locals
<1>5. PollOrder' /\ ExecutedIsChecked'
  BY <1>1, <1>3 DEF PollOrder, ExecutedIsChecked, RequestBytes, Content, locals
<1> QED
  BY <1>3, <1>4, <1>5

\* The steps of mbrtu_poll preserve the invariant.
LEMMA PollInv ==
    ASSUME ReceiverInv, mbrtu_poll
    PROVE  ReceiverInv'
<1> USE DEF ReceiverInv, PollLocation
<1>0. /\ NothingPending \in PendingFrame
      /\ Taken(pending) \in PendingFrame
      /\ ~Taken(pending).ready
      /\ RequestBytes \in Seq(Byte)
  <2>1. NothingPending \in PendingFrame
    BY ReceiverAssumption DEF NothingPending, PendingFrame, BufferIndex
  <2>2. Taken(pending) \in PendingFrame /\ ~Taken(pending).ready
    BY DEF Taken, PendingFrame, TypeOK
  <2>3. RequestBytes \in Seq(Byte)
    BY ContentType DEF RequestBytes, PendingFrame, TypeOK
  <2> QED
    BY <2>1, <2>2, <2>3
<1>1. CASE PollSeesFrame
  BY <1>1 DEF PollSeesFrame, TypeOK, BuffersApart, GapBelowT35, PollOrder,
              ExecutedIsChecked, context, locals
<1>2. CASE PollLatch
  BY <1>2 DEF PollLatch, TypeOK, BuffersApart, GapBelowT35, PollOrder,
              ExecutedIsChecked, context
<1>3. CASE PollDrop
  <2>1. dropped' \in Counter
    BY <1>3, IncType DEF PollDrop, TypeOK
  <2> QED
    BY <1>0, <1>3, <2>1
    DEF PollDrop, Return, TypeOK, BuffersApart, GapBelowT35, PollOrder,
        ExecutedIsChecked, Result
<1>4. CASE PollCheck
  <2>1. RequestBytes' = RequestBytes
    BY <1>4 DEF PollCheck, RequestBytes, Content, context
  <2> QED
    BY <1>0, <1>4, <2>1
    DEF PollCheck, TypeOK, BuffersApart, GapBelowT35, PollOrder,
        ExecutedIsChecked, context
<1>5. CASE PollExecute
  BY <1>0, <1>5
  DEF PollExecute, TypeOK, BuffersApart, GapBelowT35, PollOrder,
      ExecutedIsChecked, context
<1>6. CASE PollRelease
  BY <1>0, <1>6
  DEF PollRelease, TypeOK, BuffersApart, GapBelowT35, PollOrder,
      ExecutedIsChecked, locals
<1>7. CASE PollFinish
  <2>1. stats' \in [StatName -> Counter]
    BY <1>7, CountedType DEF PollFinish, TypeOK
  <2> QED
    BY <1>0, <1>7, <2>1
    DEF PollFinish, Return, TypeOK, BuffersApart, GapBelowT35, PollOrder,
        ExecutedIsChecked, context, Result
<1> QED
  BY <1>1, <1>2, <1>3, <1>4, <1>5, <1>6, <1>7 DEF mbrtu_poll

LEMMA StutterInv ==
    ASSUME ReceiverInv, UNCHANGED vars
    PROVE  ReceiverInv'
BY DEF ReceiverInv, TypeOK, BuffersApart, GapBelowT35, PollOrder,
       ExecutedIsChecked, RequestBytes, Content, vars

\* The inductive invariant holds in every reachable state.
THEOREM ReceiverInvariant == Spec => []ReceiverInv
<1>1. ReceiverInv /\ [Next]_vars => ReceiverInv'
  BY RxInv, TickInv, PollInv, StutterInv DEF Next, RxInterrupt
<1> QED
  BY InitInv, <1>1, PTL DEF Spec

\* The context, the locals of mbrtu_poll and the counters keep their types: in
\* particular no index or length ever leaves the receive buffers.
THEOREM TypeCorrect == Spec => []TypeOK
BY ReceiverInvariant, PTL DEF ReceiverInv

\* The buffer mbrtu_poll reads is never the one the receive interrupt writes.
THEOREM BuffersStayApart == Spec => []BuffersApart
BY ReceiverInvariant, PTL DEF ReceiverInv

\* What mbrtu_poll executes is what it has checked.
THEOREM ExecutesWhatItChecked == Spec => []ExecutedIsChecked
BY ReceiverInvariant, PTL DEF ReceiverInv

\* The gap counter stays below T3.5 between handlers.
THEOREM GapStaysBelowT35 == Spec => []GapBelowT35
BY ReceiverInvariant, PTL DEF ReceiverInv
------------------------------------------------------------------------------
(* Accounting, with counters that wrap *)

\* Counting one summand counts the sum.
LEMMA CountSum ==
    ASSUME NEW x \in Nat, NEW y \in Nat
    PROVE  /\ (Inc(x) + y) % CounterModulus = (x + y + 1) % CounterModulus
           /\ Inc((x + y) % CounterModulus) = (x + y + 1) % CounterModulus
<1>1. /\ x + 1 \in Int /\ x + y \in Int /\ y \in Int /\ 1 \in Int
      /\ x + 1 + y = x + y + 1
      /\ CounterModulus \in Nat \ {0}
  BY ReceiverAssumption
<1>2. (((x + 1) % CounterModulus) + y) % CounterModulus = (x + 1 + y) % CounterModulus
  BY <1>1, ModAdd, Zenon
<1>3. (((x + y) % CounterModulus) + 1) % CounterModulus = (x + y + 1) % CounterModulus
  BY <1>1, ModAdd, Zenon
<1> QED
  BY <1>1, <1>2, <1>3, Zenon DEF Inc

\* The counters are natural numbers.
LEMMA StatsNat ==
    ASSUME TypeOK
    PROVE  /\ \A n \in StatName : stats[n] \in Nat
           /\ dropped \in Nat
           /\ HandledFrames \in Nat
           /\ FramesInHand \in Nat
<1>1. Counter \subseteq Nat
  BY ReceiverAssumption DEF Counter
<1>2. \A n \in StatName : stats[n] \in Nat
  BY <1>1 DEF TypeOK
<1>3. dropped \in Nat
  BY <1>1 DEF TypeOK
<1>4. HandledFrames \in Nat
  BY <1>2, <1>3 DEF HandledFrames, StatName
<1>5. FramesInHand \in Nat
  BY DEF FramesInHand
<1> QED
  BY <1>2, <1>3, <1>4, <1>5

LEMMA AccountingInit == Init => FrameAccounting
<1>1. 0 % CounterModulus = 0
  BY ReceiverAssumption
<1> QED
  BY <1>1 DEF Init, FrameAccounting, HandledFrames, FramesInHand, StatName, NothingPending

\* A step that changes none of the counters of frames, nor who holds a frame.
LEMMA AccountingStays ==
    ASSUME FrameAccounting,
           \A n \in StatName \ {"received_bytes", "invalid_gap_events", "overflow_events"} :
              stats'[n] = stats[n],
           dropped' = dropped,
           FramesInHand' = FramesInHand
    PROVE  FrameAccounting'
BY DEF FrameAccounting, HandledFrames, StatName

\* A frame boundary: one more frame detected, and one more queued or overrun.
LEMMA AccountingBoundary ==
    ASSUME ReceiverInv, FrameAccounting, mbrtu_on_50us_tick_isr, tick_ends_frame(active)
    PROVE  FrameAccounting'
<1> DEFINE q == stats["queued_frames"]
           o == stats["overrun_frames"]
<1>1. /\ Counted(complete_counts(pending))
      /\ pending' = complete_pending(active, pending)
      /\ UNCHANGED <<pc, dropped>>
  BY DEF mbrtu_on_50us_tick_isr
<1>2. pending'.ready
  BY <1>1, CompletePending DEF ReceiverInv, TypeOK
<1>3. /\ stats'["detected_frame_boundaries"] = Inc(stats["detected_frame_boundaries"])
      /\ HandledFrames' = HandledFrames
  BY <1>1 DEF Counted, complete_counts, StatName, HandledFrames
<1>4. /\ q \in Nat /\ o \in Nat
      /\ HandledFrames \in Nat /\ FramesInHand \in Nat
  BY StatsNat DEF ReceiverInv, StatName
<1>5. stats'["detected_frame_boundaries"] = (q + o + 1) % CounterModulus
  <2>1. stats["detected_frame_boundaries"] = (q + o) % CounterModulus
    BY DEF FrameAccounting
  <2>2. q + o \in Nat
    BY <1>4
  <2>3. Inc((q + o) % CounterModulus) = (q + o + 1) % CounterModulus
    BY <2>2, CountSum
  <2> QED
    BY <1>3, <2>1, <2>3, Zenon
<1>6. CASE pending.ready
  <2>1. stats'["overrun_frames"] = Inc(o) /\ stats'["queued_frames"] = q
    BY <1>1, <1>6 DEF Counted, complete_counts, StatName
  <2>2. FramesInHand' = FramesInHand
    BY <1>1, <1>2, <1>6 DEF FramesInHand
  <2>3. (q + Inc(o)) % CounterModulus = (q + o + 1) % CounterModulus
    <3>1. Inc(o) \in Nat /\ o + q + 1 = q + o + 1 /\ q + Inc(o) = Inc(o) + q
      BY <1>4, ReceiverAssumption DEF Inc
    <3>2. (Inc(o) + q) % CounterModulus = (o + q + 1) % CounterModulus
      BY <1>4, CountSum
    <3> QED
      BY <3>1, <3>2, Zenon
  <2> QED
    BY <1>3, <1>5, <2>1, <2>2, <2>3 DEF FrameAccounting
<1>7. CASE ~pending.ready
  <2>1. stats'["queued_frames"] = Inc(q) /\ stats'["overrun_frames"] = o
    BY <1>1, <1>7 DEF Counted, complete_counts, StatName
  <2>2. FramesInHand' = FramesInHand + 1
    BY <1>1, <1>2, <1>7 DEF FramesInHand
  <2>3. (Inc(q) + o) % CounterModulus = (q + o + 1) % CounterModulus
    BY <1>4, CountSum
  <2>4. Inc(q) = (HandledFrames + FramesInHand + 1) % CounterModulus
    BY <1>4, CountSum DEF FrameAccounting
  <2>5. HandledFrames + FramesInHand + 1 = HandledFrames' + FramesInHand'
    BY <1>3, <1>4, <2>2
  <2> QED
    BY <1>5, <2>1, <2>3, <2>4, <2>5 DEF FrameAccounting
<1> QED
  BY <1>6, <1>7
\* One frame less in hand and one more handled.
LEMMA AccountingHandled ==
    ASSUME ReceiverInv, FrameAccounting,
           stats'["detected_frame_boundaries"] = stats["detected_frame_boundaries"],
           stats'["queued_frames"] = stats["queued_frames"],
           stats'["overrun_frames"] = stats["overrun_frames"],
           NEW x \in Nat, NEW rest \in Nat, NEW i \in Nat,
           HandledFrames = x + rest, HandledFrames' = Inc(x) + rest,
           FramesInHand = i + 1, FramesInHand' = i
    PROVE  FrameAccounting'
<1>1. (Inc(x) + (rest + i)) % CounterModulus = (x + (rest + i) + 1) % CounterModulus
  BY CountSum
<1>2. Inc(x) \in Nat
  BY ReceiverAssumption DEF Inc
<1>3. /\ Inc(x) + rest + i = Inc(x) + (rest + i)
      /\ x + rest + (i + 1) = x + (rest + i) + 1
  BY <1>2
<1> QED
  BY <1>1, <1>3 DEF FrameAccounting

\* Every way mbrtu_poll can end a frame handles it once.
LEMMA AccountingFinish ==
    ASSUME ReceiverInv, FrameAccounting, PollFinish
    PROVE  FrameAccounting'
<1>1. PICK outcome \in Outcome : Counted({outcome})
  BY DEF PollFinish
<1>2. outcome \in {"no_response_frames", "responses_sent",
                   "processing_errors", "transmit_errors"}
  BY DEF Outcome, ReceiverInv, TypeOK, Result
<1> DEFINE i == IF pending.ready THEN 1 ELSE 0
<1>3. i \in Nat /\ FramesInHand = i + 1 /\ FramesInHand' = i /\ dropped' = dropped
  BY DEF PollFinish, Return, context, FramesInHand
<1>4. \A n \in StatName : stats[n] \in Nat /\ Inc(stats[n]) \in Nat
  BY StatsNat, ReceiverAssumption DEF ReceiverInv, Inc
<1>5. \A n \in StatName : stats'[n] = IF n = outcome THEN Inc(stats[n]) ELSE stats[n]
  BY <1>1 DEF Counted
<1>6. dropped \in Nat
  BY StatsNat DEF ReceiverInv
<1> DEFINE x == stats[outcome]
           rest == HandledFrames - x
<1>7. /\ x \in Nat /\ rest \in Nat
      /\ HandledFrames = x + rest
      /\ HandledFrames' = Inc(x) + rest
  BY <1>2, <1>3, <1>4, <1>5, <1>6 DEF HandledFrames, StatName
<1>8. /\ stats'["detected_frame_boundaries"] = stats["detected_frame_boundaries"]
      /\ stats'["queued_frames"] = stats["queued_frames"]
      /\ stats'["overrun_frames"] = stats["overrun_frames"]
  BY <1>2, <1>5 DEF StatName
<1> HIDE DEF x, rest, i
<1> QED
  BY <1>3, <1>7, <1>8, AccountingHandled

\* A dropped frame is handled once.
LEMMA AccountingDrop ==
    ASSUME ReceiverInv, FrameAccounting, PollDrop
    PROVE  FrameAccounting'
<1> DEFINE rest == HandledFrames - dropped
<1>1. FramesInHand = 0 + 1 /\ FramesInHand' = 0
  BY DEF PollDrop, Return, Taken, FramesInHand, ReceiverInv, BuffersApart
<1>2. dropped \in Nat /\ \A n \in StatName : stats[n] \in Nat
  BY StatsNat DEF ReceiverInv
<1>3. Inc(dropped) \in Nat
  BY <1>2, ReceiverAssumption DEF Inc
<1>4. stats' = stats /\ dropped' = Inc(dropped)
  BY DEF PollDrop
<1>5. /\ rest \in Nat
      /\ HandledFrames = dropped + rest
      /\ HandledFrames' = Inc(dropped) + rest
  BY <1>2, <1>3, <1>4 DEF HandledFrames, StatName
<1> HIDE DEF rest
<1> QED
  BY <1>1, <1>2, <1>4, <1>5, AccountingHandled

\* Every step keeps the balance.
LEMMA AccountingStep ==
    ASSUME ReceiverInv, FrameAccounting, [Next]_vars
    PROVE  FrameAccounting'
<1>1. ASSUME NEW b \in Byte, mbrtu_on_rx_byte_isr(b)
      PROVE  FrameAccounting'
  <2>1. ~(active.frame_active /\ active.gap_ticks >= T35)
    BY ReceiverAssumption DEF ReceiverInv, TypeOK, ActiveFrame, GapBelowT35
  <2>2. \A n \in StatName \ {"received_bytes", "invalid_gap_events", "overflow_events"} :
           stats'[n] = stats[n]
    BY <1>1, <2>1 DEF mbrtu_on_rx_byte_isr, Counted, StatName
  <2>3. dropped' = dropped /\ FramesInHand' = FramesInHand
    BY <1>1, <2>1 DEF mbrtu_on_rx_byte_isr, FramesInHand
  <2> QED
    BY <2>2, <2>3, AccountingStays
<1>2. CASE mbrtu_on_50us_tick_isr
  <2>1. CASE tick_ends_frame(active)
    BY <1>2, <2>1, AccountingBoundary
  <2>2. CASE ~tick_ends_frame(active)
    BY <1>2, <2>2, AccountingStays DEF mbrtu_on_50us_tick_isr, FramesInHand
  <2> QED
    BY <2>1, <2>2
<1>3. CASE PollSeesFrame \/ PollLatch \/ PollCheck \/ PollExecute
  BY <1>3, AccountingStays
  DEF PollSeesFrame, PollLatch, PollCheck, PollExecute, FramesInHand, context
<1>4. CASE PollRelease
  <2>1. FramesInHand' = FramesInHand
    BY <1>4 DEF PollRelease, Taken, FramesInHand, ReceiverInv, BuffersApart
  <2> QED
    BY <1>4, <2>1, AccountingStays DEF PollRelease
<1>5. CASE UNCHANGED vars
  BY <1>5, AccountingStays DEF vars, FramesInHand
<1> QED
  BY <1>1, <1>2, <1>3, <1>4, <1>5, AccountingDrop, AccountingFinish
  DEF Next, RxInterrupt, mbrtu_poll

\* The statistics account for every frame, whatever the width of the counters.
THEOREM FramesAccounted == Spec => []FrameAccounting
<1>1. Spec => []ReceiverInv
  BY ReceiverInvariant
<1>2. ReceiverInv /\ FrameAccounting /\ [Next]_vars => FrameAccounting'
  BY AccountingStep
<1> QED
  BY AccountingInit, <1>1, <1>2, PTL DEF Spec
==============================================================================
