---------------------------- MODULE MCModbusTcp ----------------------------
(* Instances of ModbusTcp for TLC. *)
EXTENDS ModbusTcp

CONSTANTS p1, p2, p3

MCPcb == {p1, p2, p3}

MCByte == {0, 1, 2, 3, 4}

\* ADUs of four and five bytes, the shortest and the longest.
Short == <<0, 2, 1, 3>>
Long == <<0, 3, 1, 0, 2>>

\* A well-formed stream, and streams that go on with a foreign protocol identifier or
\* with a length field that is too small or too large.
MCStreams ==
    {Short \o Long, Short \o <<1, 2, 1, 3>>, Long \o <<0, 1, 1>>, Long \o <<0, 4, 1, 0, 0>>}

\* What a connection did before it ended, and the last callback, decide nothing.
SlotView ==
    <<listen_pcb, clients, arg, [p \in Pcb |-> IF Open(p) THEN wire[p] ELSE Unused]>>
=============================================================================
