------------------------------ MODULE FrameSlot ------------------------------
(***************************************************************************)
(* What the RTU byte and timing layer promises, without its buffers, index *)
(* swaps and interrupt handlers.  One frame at a time is on the line.  It  *)
(* ends after T35 ticks of silence and then becomes the frame in the slot, *)
(* or is lost when the slot still holds an earlier one.  The server works  *)
(* on the frame in the slot, which stays what it was until the server lets *)
(* go of it.                                                               *)
(***************************************************************************)
EXTENDS Naturals, Sequences

CONSTANTS
    Byte,      \* the byte values
    Capacity,  \* bytes one frame may have
    T15,       \* longest silence inside a sound frame, in ticks
    T35,       \* silence that ends a frame, in ticks
    NoFrame    \* absence of a frame

VARIABLES
    line,      \* the frame arriving, or NoFrame
    quiet,     \* ticks of silence since its last byte
    slot,      \* the completed frame not yet released, or NoFrame
    serving    \* the frame the server is working on, or NoFrame

slotVars == <<line, quiet, slot, serving>>

Frame == [data : Seq(Byte), damaged : BOOLEAN]

\* The frame that f and one more byte make: a late byte or a byte too many
\* damages it for good, and a damaged frame keeps no further data.
Extended(f, q, b) ==
    IF f.damaged \/ q > T15 \/ Len(f.data) >= Capacity
    THEN [f EXCEPT !.damaged = TRUE]
    ELSE [f EXCEPT !.data = Append(@, b)]

SlotInit ==
    /\ line = NoFrame
    /\ quiet = 0
    /\ slot = NoFrame
    /\ serving = NoFrame

ByteArrives(b) ==
    /\ line' = IF line = NoFrame
               THEN [data |-> <<b>>, damaged |-> FALSE]
               ELSE Extended(line, quiet, b)
    /\ quiet' = 0
    /\ UNCHANGED <<slot, serving>>

Silence ==
    /\ line # NoFrame
    /\ quiet + 1 < T35
    /\ quiet' = quiet + 1
    /\ UNCHANGED <<line, slot, serving>>

FrameEnds ==
    /\ line # NoFrame
    /\ quiet + 1 >= T35
    /\ line' = NoFrame
    /\ quiet' = 0
    /\ slot' = IF slot = NoFrame THEN line ELSE slot
    /\ UNCHANGED serving

Serve ==
    /\ slot # NoFrame
    /\ serving' = slot
    /\ UNCHANGED <<line, quiet, slot>>

Release ==
    /\ serving = slot
    /\ slot' = NoFrame
    /\ serving' = NoFrame
    /\ UNCHANGED <<line, quiet>>

SlotNext ==
    \/ \E b \in Byte : ByteArrives(b)
    \/ Silence
    \/ FrameEnds
    \/ Serve
    \/ Release

SlotSpec == SlotInit /\ [][SlotNext]_slotVars
==============================================================================
