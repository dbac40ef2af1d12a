---------------------------- MODULE MCRtuReceiver ----------------------------
(* Instances of RtuReceiver for TLC. *)
EXTENDS RtuReceiver

CONSTANTS b1, b2

MCByte == {b1, b2}

\* What is left in a buffer beyond its frame, or in the fields of a frame that was taken,
\* is overwritten before it is read.  No step reads the counters or the histories of the
\* bytes, and FrameAccounting only the sum of the ways a frame may end.
ReceiverView ==
    <<active, LineFrame, SlotFrame, ServedFrame,
      IF pending.ready THEN pending ELSE NothingPending,
      IF ServedFrame # NoFrame THEN request ELSE NothingPending,
      pc, process_result, HandledFrames % CounterModulus,
      [n \in {"detected_frame_boundaries", "queued_frames", "overrun_frames"} |-> stats[n]]>>
==============================================================================
