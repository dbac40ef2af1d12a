------------------------------ MODULE Exchange -------------------------------
(***************************************************************************)
(* A master and a server of the two halves of the library: requests of     *)
(* modbus_rtu_master.c are carried out by the register map or the          *)
(* application's blocks and the answers go back to its validator.  The     *)
(* parts of the server share no state, so each is seen with the other at   *)
(* rest; the third way to look at the validator is an answer from anywhere *)
(* (another slave, a damaged or an old frame).                             *)
(***************************************************************************)
EXTENDS RegisterMap, MasterBlocks

CONSTANTS
    Calls,    \* calls of the builders whose PDUs the server may be given
    Strays    \* pairs of a call and an answer that reaches the master after it

VARIABLES
    serving,  \* the part in use
    stray     \* the call and the answer last received from anywhere

exchange_vars == <<vars, blocks_vars, serving, stray>>

Nothing == <<>>

\* mbrtu_process_adu hands the server a response buffer for the largest PDU.
ServerPdu(pdu) == [capacity |-> 253] @@ pdu

AnswerFrame(function, length, count, echo, data) ==
    [length |-> length, intact |-> TRUE, slave |-> 1, function |-> function, code |-> 0,
     count |-> count, echo |-> echo, data |-> data]

\* The response of mb_process_pdu to a request, with the slave's address and the CRC.
register_answer(s) ==
    LET r == s.request
        values(count) == AnswerFrame(r.function, 5 + count, count, <<>>, s.data)
        repeated(length, words) == AnswerFrame(r.function, length, 0, words, <<>>)
    IN  IF s.exception # 0 THEN Refusal(r.function, s.exception)
        ELSE CASE r.function \in {1, 2} -> values(Packed(r.quantity))
               [] r.function \in {3, 4, 23} -> values(2 * r.quantity)
               [] r.function \in {5, 15, 16} -> repeated(8, <<r.address, r.quantity>>)
               [] r.function = 6 -> repeated(8, <<r.address, r.data[1]>>)
               [] r.function = 22 -> repeated(10, <<r.address, r.data[1], r.data[2]>>)

\* An answer the master did not ask this server for.
StrayArrives ==
    /\ stray = Nothing
    /\ stray' \in Strays
    /\ UNCHANGED <<vars, blocks_vars, serving>>

StrayHandled ==
    /\ stray # Nothing
    /\ stray' = Nothing
    /\ UNCHANGED <<vars, blocks_vars, serving>>

------------------------------------------------------------------------------
(* Specification *)

ExchangeInit ==
    /\ Init /\ BlocksInit
    /\ serving \in {"registers", "blocks", "line"}
    /\ serving # "registers" => mutex # NULL
    /\ stray = Nothing

ExchangeNext ==
    \/ serving = "registers" /\ Next /\ UNCHANGED <<blocks_vars, serving, stray>>
    \/ serving = "blocks" /\ BlocksNext /\ UNCHANGED <<vars, serving, stray>>
    \/ serving = "line" /\ (StrayArrives \/ StrayHandled)

ExchangeSpec == ExchangeInit /\ [][ExchangeNext]_exchange_vars

------------------------------------------------------------------------------
(* Properties *)

\* The values the master's getters give of an answer are the server's registers.
ValuesAre(d, a) ==
    /\ d.function \in {1, 2} =>
         \A i \in 0 .. d.quantity - 1 :
            mbrtum_get_bit(d, a, i) = <<"OK", map[TableOf(d.function)][d.start + i] # {}>>
    /\ d.function \in {3, 4, 23} =>
         \A i \in 0 .. d.quantity - 1 :
            mbrtum_get_register(d, a, i) = <<"OK", map[TableOf(d.function)][d.start + i]>>

\* The server has every register a request names, in its tables.
HasRegisters(r) ==
    LET in(table, first, count) == first .. first + count - 1 \subseteq DOMAIN map[table]
    IN  /\ in(TableOf(r.function), r.address, IF r.function \in {5, 6, 22} THEN 1 ELSE r.quantity)
        /\ r.function = 23 => in("holding_registers", r.waddress, r.wquantity)

\* Master and server agree (modbus_rtu_master.c, modbus_protocol.c): a request a builder
\* has accepted is never refused as malformed, only when it names a register the server
\* does not have; the validator accepts every answer to it, an exception as that exception; and
\* the getters give the values of the server's map.
AnswersAccepted ==
    \A t \in Task : At(t, "done") =>
        \A c \in Calls :
            LET built == Build(c)
                original == [slave |-> c.slave, pdu |-> built.pdu]
                a == register_answer(task[t])
                result == mbrtum_process_response(built.descriptor, original, a)
            IN  (built.result = "OK" /\ c.slave = 1 /\ ServerPdu(built.pdu) = task[t].request) =>
                  IF task[t].exception = 0
                  THEN result = "OK" /\ ValuesAre(built.descriptor, a)
                  ELSE /\ result = "EXCEPTION_RESPONSE"
                       /\ task[t].exception = ILLEGAL_DATA_ADDRESS
                       /\ ~HasRegisters(task[t].request)

\* The answers a server may give to a call, from the protocol.
Conformant(c, a) ==
    /\ a.intact /\ a.slave = c.slave /\ a.function = c.function /\ a.length <= 256
    /\ CASE c.function \in {1, 2} ->
              /\ a.length = 5 + Len(a.data) /\ a.count = Len(a.data)
              /\ c.quantity \in 8 * Len(a.data) - 7 .. 8 * Len(a.data)
              /\ \A j \in DOMAIN a.data : \A b \in a.data[j] : 8 * (j - 1) + b < c.quantity
         [] c.function \in {3, 4, 23} ->
              /\ Len(a.data) = c.quantity /\ a.count = 2 * Len(a.data)
              /\ a.length = 5 + a.count
         [] c.function = 5 -> a.length = 8 /\ a.echo = <<c.start, 65280 * c.value>>
         [] c.function = 6 -> a.length = 8 /\ a.echo = <<c.start, c.data[1]>>
         [] c.function \in {15, 16} -> a.length = 8 /\ a.echo = <<c.start, c.quantity>>
         [] c.function = 22 -> a.length = 10 /\ a.echo = <<c.start>> \o c.data
         [] c.function = 7 -> a.length = 5
         [] c.function = 11 -> a.length = 8
         [] c.function = 12 ->
              a.length = 5 + a.count /\ \E events \in 0 .. 64 : a.count = 6 + events
         [] c.function = 17 ->
              /\ a.length = 5 + a.count /\ a.count = Len(a.data)
              /\ \E extra \in 0 .. a.count :
                    /\ a.count = c.quantity + 1 + extra
                    /\ a.data[c.quantity + 1] \in {0, 255}
         [] c.function = 8 ->
              /\ a.echo = <<c.start>> /\ a.length = 6 + 2 * Len(a.data)
              /\ IF ReturnsValue(c.start) THEN Len(a.data) = 1 ELSE a.data = c.data

\* Whatever frame reaches the master, the validator
\* (mbrtum_process_response_with_request_adu) accepts it if and only if a server could
\* have sent it in answer to the call; and every byte it then offers the getters is in
\* the frame, before its CRC.
AcceptedIsConformant ==
    stray # Nothing =>
        LET c == stray[1]
            a == stray[2]
            built == Build(c)
            d == built.descriptor
            result == mbrtum_process_response(d, [slave |-> c.slave, pdu |-> built.pdu], a)
        IN  (built.result = "OK" /\ d.expects_response) =>
              /\ (result = "OK") <=> Conformant(c, a)
              /\ (result = "EXCEPTION_RESPONSE") <=>
                    /\ a.intact /\ a.slave = c.slave
                    /\ a.function = c.function + 128 /\ a.length = 5 /\ a.code # 0
              /\ (result = "OK" /\ d.function \notin {5, 6, 15, 16, 22}) =>
                    ResponseData(d, a).from + ResponseData(d, a).data_length = a.length - 2
==============================================================================
