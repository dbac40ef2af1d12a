------------------------- MODULE RtuRefinementProofs -------------------------
(***************************************************************************)
(* RtuReceiver implements FrameSlot, for every byte set, buffer capacity   *)
(* and timing.                                                             *)
(***************************************************************************)
EXTENDS RtuReceiverProofs

\* A frame is not the absence of a frame.
LEMMA FrameIsAFrame ==
    ASSUME TypeOK
    PROVE  /\ active.frame_active <=> LineFrame # NoFrame
           /\ pending.ready <=> SlotFrame # NoFrame
<1>1. /\ Content(active.buffer_index, active.length) \in Seq(Byte)
      /\ Content(pending.buffer_index, pending.length) \in Seq(Byte)
  BY ContentType DEF TypeOK, ActiveFrame, PendingFrame
<1>2. Damaged(active) \in BOOLEAN /\ Damaged(pending) \in BOOLEAN
  BY DEF Damaged, TypeOK, ActiveFrame, PendingFrame
<1>3. \A d \in Seq(Byte), f \in BOOLEAN : [data |-> d, damaged |-> f] # NoFrame
  BY ByteAssumption
<1>4. active.frame_active \in BOOLEAN /\ pending.ready \in BOOLEAN
  BY DEF TypeOK, ActiveFrame, PendingFrame
<1> QED
  BY <1>1, <1>2, <1>3, <1>4 DEF LineFrame, SlotFrame

\* A byte extends the frame on the line and disturbs neither the frame in the
\* slot nor the one being served.
LEMMA RxRefines ==
    ASSUME ReceiverInv, ReceiverInv', NEW b \in Byte, mbrtu_on_rx_byte_isr(b)
    PROVE  Slot!ByteArrives(b)
<1> DEFINE late == gap_is_invalid(active)
           damaged == active.invalid_gap \/ late \/ active.overflow
           full == ~damaged /\ buffer_is_full(active)
           stored == ~damaged /\ ~full
           k == active.buffer_index
           n == active.length
<1> USE DEF ReceiverInv
<1>1. ~(active.frame_active /\ active.gap_ticks >= T35)
  BY ReceiverAssumption DEF TypeOK, ActiveFrame, GapBelowT35
<1>2. /\ active' = [buffer_index |-> k,
                    frame_active |-> TRUE,
                    length |-> IF stored THEN n + 1 ELSE n,
                    gap_ticks |-> 0,
                    invalid_gap |-> active.invalid_gap \/ late,
                    overflow |-> active.overflow \/ full]
      /\ pending' = pending
      /\ receive_buffers' = IF stored
                            THEN [receive_buffers EXCEPT ![k] = [@ EXCEPT ![n + 1] = b]]
                            ELSE receive_buffers
      /\ UNCHANGED <<pc, locals>>
  BY <1>1 DEF mbrtu_on_rx_byte_isr
<1>3. SlotFrame' = SlotFrame
  BY <1>2 DEF SlotFrame, Content, Damaged, BuffersApart, TypeOK, PendingFrame, ActiveFrame
<1>4. ServedFrame' = ServedFrame
  <2>1. UNCHANGED <<pc, request>>
    BY <1>2 DEF locals
  <2>2. pc \in {"drop", "check", "execute", "release"} => RequestBytes' = RequestBytes
    <3>1. pc \in {"drop", "check", "execute", "release"} =>
             receive_buffers'[request.buffer_index] = receive_buffers[request.buffer_index]
      BY <1>2 DEF BuffersApart, TypeOK, PendingFrame, ActiveFrame
    <3> QED
      BY <2>1, <3>1 DEF RequestBytes, Content
  <2> QED
    BY <2>1, <2>2 DEF ServedFrame, Damaged
<1>5. active'.gap_ticks = 0
  BY <1>2
<1>6. /\ n \in Nat /\ n \in 0 .. Capacity /\ k \in BufferIndex
      /\ late \in BOOLEAN /\ damaged \in BOOLEAN
      /\ active.invalid_gap \in BOOLEAN /\ active.overflow \in BOOLEAN
      /\ active.frame_active \in BOOLEAN
      /\ receive_buffers \in [BufferIndex -> Buffer]
  BY ReceiverAssumption DEF TypeOK, ActiveFrame, gap_is_invalid
<1>7. ASSUME stored
      PROVE  Content(active.buffer_index, active.length)' = Append(Content(k, n), b)
  <2>1. n + 1 \in 1 .. Capacity
    BY <1>6, <1>7, ReceiverAssumption DEF buffer_is_full
  <2>2. /\ receive_buffers'[k][n + 1] = b
        /\ \A i \in 1 .. n : receive_buffers'[k][i] = receive_buffers[k][i]
    <3> DEFINE row == [receive_buffers[k] EXCEPT ![n + 1] = b]
    <3>1. receive_buffers'[k] = row
      BY <1>2, <1>6, <1>7
    <3>2. receive_buffers[k] \in Buffer
      BY <1>6
    <3>3. row[n + 1] = b /\ \A i \in 1 .. n : row[i] = receive_buffers[k][i]
      BY <1>6, <2>1, <3>2, ReceiverAssumption DEF Buffer
    <3> QED
      BY <3>1, <3>3
  <2>3. active'.length = n + 1 /\ active'.buffer_index = k
    BY <1>2, <1>7
  <2>4. Content(active.buffer_index, active.length)'
          = [i \in 1 .. n + 1 |-> receive_buffers'[k][i]]
    BY <2>3 DEF Content
  <2>5. /\ Content(k, n) \in Seq(Byte) /\ Len(Content(k, n)) = n
        /\ \A i \in 1 .. n : Content(k, n)[i] = receive_buffers[k][i]
    BY <1>6, ContentType DEF Content
  <2>6. Append(Content(k, n), b)
          = [i \in 1 .. n + 1 |-> IF i = n + 1 THEN b ELSE receive_buffers[k][i]]
    <3> DEFINE s == Content(k, n)
    <3>1. Append(s, b) = [i \in 1 .. Len(s) + 1 |-> IF i = Len(s) + 1 THEN b ELSE s[i]]
      BY <2>5
    <3> HIDE DEF s
    <3>2. \A i \in 1 .. n + 1 : i # n + 1 => i \in 1 .. n
      BY <1>6
    <3> QED
      BY <2>5, <3>1, <3>2 DEF s
  <2>7. \A i \in 1 .. n + 1 :
           receive_buffers'[k][i] = IF i = n + 1 THEN b ELSE receive_buffers[k][i]
    BY <1>6, <2>2
  <2> QED
    BY <2>4, <2>6, <2>7
<1>8. ~stored => Content(active.buffer_index, active.length)' = Content(k, n)
  BY <1>2 DEF Content
<1>9. LineFrame' = [data |-> Content(active.buffer_index, active.length)',
                    damaged |-> active.invalid_gap \/ late \/ active.overflow \/ full]
  BY <1>2, <1>6 DEF LineFrame, Damaged
<1>10. CASE ~active.frame_active
  <2>1. n = 0 /\ ~active.invalid_gap /\ ~active.overflow
    BY <1>10 DEF GapBelowT35, reset_active_frame
  <2>2. stored /\ ~full
    BY <1>10, <2>1, ReceiverAssumption DEF gap_is_invalid, buffer_is_full
  <2>3. Content(k, n) = <<>>
    BY <1>6, <2>1, ContentType
  <2>4. Append(Content(k, n), b) = <<b>>
    BY <2>3
  <2>5. LineFrame' = [data |-> <<b>>, damaged |-> FALSE]
    BY <1>7, <1>9, <1>10, <2>1, <2>2, <2>4 DEF gap_is_invalid
  <2> QED
    BY <1>3, <1>4, <1>5, <1>10, <2>5, FrameIsAFrame DEF Slot!ByteArrives
<1>11. CASE active.frame_active
  <2> DEFINE f == LineFrame
  <2>1. /\ f = [data |-> Content(k, n), damaged |-> Damaged(active)]
        /\ f # NoFrame
    BY <1>11, FrameIsAFrame DEF LineFrame
  <2>2. Len(f.data) = n
    BY <1>6, <2>1, ContentType
  <2>3. (f.damaged \/ active.gap_ticks > T15 \/ Len(f.data) >= Capacity) <=> ~stored
    BY <1>1, <1>6, <1>11, <2>1, <2>2, ReceiverAssumption
    DEF Damaged, gap_is_invalid, buffer_is_full, TypeOK, ActiveFrame
  <2>4. CASE stored
    <3>1. LineFrame' = [data |-> Append(Content(k, n), b), damaged |-> FALSE]
      BY <1>7, <1>9, <2>4
    <3>2. Slot!Extended(f, active.gap_ticks, b)
            = [data |-> Append(Content(k, n), b), damaged |-> FALSE]
      BY <1>6, <2>1, <2>3, <2>4 DEF Slot!Extended, Damaged
    <3> QED
      BY <1>3, <1>4, <1>5, <2>1, <3>1, <3>2 DEF Slot!ByteArrives
  <2>5. CASE ~stored
    <3>1. LineFrame' = [data |-> Content(k, n), damaged |-> TRUE]
      BY <1>6, <1>8, <1>9, <2>5
    <3>2. Slot!Extended(f, active.gap_ticks, b)
            = [data |-> Content(k, n), damaged |-> TRUE]
      BY <2>1, <2>3, <2>5 DEF Slot!Extended
    <3> QED
      BY <1>3, <1>4, <1>5, <2>1, <3>1, <3>2 DEF Slot!ByteArrives
  <2> QED
    BY <2>4, <2>5
<1> QED
  BY <1>6, <1>10, <1>11
\* A tick is one more tick of silence, or the end of the frame.
LEMMA TickRefines ==
    ASSUME ReceiverInv, ReceiverInv', mbrtu_on_50us_tick_isr
    PROVE  Slot!Silence \/ Slot!FrameEnds
<1> USE DEF ReceiverInv
<1>1. UNCHANGED <<receive_buffers, pc, locals>> /\ active.frame_active
  BY DEF mbrtu_on_50us_tick_isr
<1>2. ServedFrame' = ServedFrame
  BY <1>1 DEF ServedFrame, RequestBytes, Content, Damaged, locals
<1>3. LineFrame # NoFrame
  BY <1>1, FrameIsAFrame
<1>4. /\ active.gap_ticks \in Nat
      /\ active.gap_ticks < T35
      /\ ticked_gap(active) = active.gap_ticks + 1
  BY <1>1, ReceiverAssumption DEF TypeOK, ActiveFrame, GapBelowT35, ticked_gap
<1>5. CASE ~tick_ends_frame(active)
  <2>1. /\ active' = [buffer_index |-> active.buffer_index,
                      frame_active |-> TRUE,
                      length |-> active.length,
                      gap_ticks |-> ticked_gap(active),
                      invalid_gap |-> active.invalid_gap,
                      overflow |-> active.overflow]
        /\ pending' = pending
    BY <1>5 DEF mbrtu_on_50us_tick_isr
  <2>2. LineFrame' = LineFrame
    BY <1>1, <2>1 DEF LineFrame, Content, Damaged
  <2>3. SlotFrame' = SlotFrame
    BY <1>1, <2>1 DEF SlotFrame, Content, Damaged
  <2>4. active'.gap_ticks = active.gap_ticks + 1 /\ active.gap_ticks + 1 < T35
    BY <1>4, <1>5, <2>1, ReceiverAssumption DEF tick_ends_frame
  <2> QED
    BY <1>2, <1>3, <2>2, <2>3, <2>4 DEF Slot!Silence
<1>6. CASE tick_ends_frame(active)
  <2>1. /\ active' = complete_active(active, pending)
        /\ pending' = complete_pending(active, pending)
    BY <1>6 DEF mbrtu_on_50us_tick_isr
  <2>2. LineFrame' = NoFrame /\ active'.gap_ticks = 0
    BY <2>1 DEF LineFrame, complete_active, reset_active_frame
  <2>3. active.gap_ticks + 1 >= T35
    BY <1>4, <1>6 DEF tick_ends_frame
  <2>4. SlotFrame' = IF SlotFrame = NoFrame THEN LineFrame ELSE SlotFrame
    <3>1. CASE pending.ready
      <4>1. pending' = pending
        BY <2>1, <3>1 DEF complete_pending
      <4> QED
        BY <1>1, <3>1, <4>1, FrameIsAFrame DEF SlotFrame, Content, Damaged
    <3>2. CASE ~pending.ready
      <4>1. pending' = [ready |-> TRUE,
                        buffer_index |-> active.buffer_index,
                        length |-> active.length,
                        invalid_gap |-> active.invalid_gap,
                        overflow |-> active.overflow]
        BY <2>1, <3>2 DEF complete_pending
      <4>2. SlotFrame' = LineFrame
        BY <1>1, <4>1 DEF SlotFrame, LineFrame, Content, Damaged
      <4> QED
        BY <3>2, <4>2, FrameIsAFrame
    <3> QED
      BY <3>1, <3>2
  <2> QED
    BY <1>2, <1>3, <2>2, <2>3, <2>4 DEF Slot!FrameEnds
<1> QED
  BY <1>5, <1>6

\* Latching serves the frame in the slot, clearing pending_ready releases it,
\* and the other steps of mbrtu_poll are invisible.
LEMMA PollRefines ==
    ASSUME ReceiverInv, ReceiverInv', mbrtu_poll
    PROVE  Slot!Serve \/ Slot!Release \/ UNCHANGED Slot!slotVars
<1> USE DEF ReceiverInv
<1>1. /\ active' = active /\ receive_buffers' = receive_buffers
      /\ LineFrame' = LineFrame
  BY DEF mbrtu_poll, PollSeesFrame, PollLatch, PollDrop, PollCheck, PollExecute,
         PollRelease, PollFinish, context, LineFrame, Content, Damaged
<1>2. CASE PollLatch
  <2>1. /\ request' = pending /\ pending' = pending
        /\ pc' \in {"drop", "check"} /\ pending.ready
    BY <1>2 DEF PollLatch, PollOrder, context
  <2>2. ServedFrame' = SlotFrame /\ SlotFrame' = SlotFrame
    BY <1>1, <2>1 DEF ServedFrame, SlotFrame, RequestBytes, Content, Damaged
  <2>3. SlotFrame # NoFrame
    BY <2>1, FrameIsAFrame
  <2> QED
    BY <1>1, <2>2, <2>3 DEF Slot!Serve
<1>3. CASE PollDrop \/ PollRelease
  <2>1. /\ pc \in {"drop", "release"} /\ pc' \in {"idle", "finish"}
        /\ pending' = Taken(pending)
    BY <1>3 DEF PollDrop, PollRelease, Return
  <2>2. ServedFrame = SlotFrame
    BY <2>1 DEF ServedFrame, SlotFrame, RequestBytes, BuffersApart
  <2>3. SlotFrame' = NoFrame /\ ServedFrame' = NoFrame
    BY <2>1 DEF SlotFrame, ServedFrame, Taken
  <2> QED
    BY <1>1, <2>2, <2>3 DEF Slot!Release
<1>4. CASE PollSeesFrame \/ PollCheck \/ PollExecute \/ PollFinish
  <2>1. SlotFrame' = SlotFrame
    BY <1>4 DEF PollSeesFrame, PollCheck, PollExecute, PollFinish, context,
                SlotFrame, Content, Damaged
  <2>2. ServedFrame' = ServedFrame
    BY <1>4 DEF PollSeesFrame, PollCheck, PollExecute, PollFinish, Return, context,
                locals, ServedFrame, RequestBytes, Content, Damaged
  <2> QED
    BY <1>1, <2>1, <2>2 DEF Slot!slotVars
<1> QED
  BY <1>2, <1>3, <1>4 DEF mbrtu_poll

\* The receiver with its two buffers, its flags and its preemptible poll
\* implements the ideal one-frame slot.
THEOREM ReceiverImplementsSlot == Spec => ImplementsSlot
<1>1. Init => Slot!SlotInit
  <2> SUFFICES ASSUME Init PROVE Slot!SlotInit
    OBVIOUS
  <2>1. ~active.frame_active /\ active.gap_ticks = 0
    BY DEF Init, reset_active_frame
  <2>2. ~pending.ready /\ pc = "idle"
    BY DEF Init, NothingPending
  <2> QED
    BY <2>1, <2>2 DEF Slot!SlotInit, LineFrame, SlotFrame, ServedFrame
<1>2. ReceiverInv /\ ReceiverInv' /\ [Next]_vars => [Slot!SlotNext]_(Slot!slotVars)
  <2> SUFFICES ASSUME ReceiverInv, ReceiverInv', [Next]_vars
               PROVE  [Slot!SlotNext]_(Slot!slotVars)
    OBVIOUS
  <2>1. ASSUME NEW b \in Byte, mbrtu_on_rx_byte_isr(b)
        PROVE  Slot!SlotNext
    BY <2>1, RxRefines DEF Slot!SlotNext
  <2>2. CASE mbrtu_on_50us_tick_isr
    BY <2>2, TickRefines DEF Slot!SlotNext
  <2>3. CASE mbrtu_poll
    BY <2>3, PollRefines DEF Slot!SlotNext
  <2>4. CASE UNCHANGED vars
    BY <2>4 DEF vars, Slot!slotVars, LineFrame, SlotFrame, ServedFrame, RequestBytes,
                Content, Damaged
  <2> QED
    BY <2>1, <2>2, <2>3, <2>4 DEF Next, RxInterrupt
<1> QED
  BY <1>1, <1>2, ReceiverInvariant, PTL DEF Spec, ImplementsSlot, Slot!SlotSpec
==============================================================================
