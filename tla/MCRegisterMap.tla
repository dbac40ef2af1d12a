---------------------------- MODULE MCRegisterMap ----------------------------
EXTENDS RegisterMap

MCSize == [table \in Table |-> IF table = "holding_registers" THEN 2 ELSE 1]

\* A well-formed PDU; the response buffer is as large as the transports make it.
Pdu(function, len, address, quantity, count, data) ==
    [function |-> function, len |-> len, address |-> address, quantity |-> quantity,
     waddress |-> 0, wquantity |-> 0, count |-> count, data |-> data, capacity |-> 253]

Read(function, address, quantity) == Pdu(function, 5, address, quantity, 0, <<>>)
WriteCoil(address, value) == Pdu(5, 5, address, value, 0, <<>>)
WriteRegister(address, v) == Pdu(6, 5, address, 0, 0, <<v>>)
WriteCoils(address, quantity, bytes) ==
    Pdu(15, 6 + Len(bytes), address, quantity, Len(bytes), bytes)
WriteRegisters(address, words) ==
    Pdu(16, 6 + 2 * Len(words), address, Len(words), 2 * Len(words), words)
MaskWrite(address, and_mask, or_mask) == Pdu(22, 7, address, 0, 0, <<and_mask, or_mask>>)
ReadWrite(address, quantity, waddress, words) ==
    [Pdu(23, 10 + 2 * Len(words), address, quantity, 2 * Len(words), words)
        EXCEPT !.waddress = waddress, !.wquantity = Len(words)]

\* Calls of the setters by the application.
Application(calls) == Pdu(0, 0, 0, 0, 0, calls)

\* Requests of two tasks for the same registers.
Contended ==
    {WriteRegister(0, {0}), MaskWrite(0, {0}, {1}), WriteRegisters(0, <<{}, {0}>>),
     ReadWrite(0, 2, 1, <<{0}>>), Read(3, 0, 2),
     Application(<<Set("input_registers", 0, {0}), Set("coils", 0, {1}),
                   Set("holding_registers", 2, {0})>>)}
==============================================================================
