--------------------------- MODULE MasterValidator ---------------------------
(***************************************************************************)
(* The RTU master's request builders and its response validator            *)
(* (App/src/modbus_rtu_master.c): pure functions, here for the register    *)
(* and the serial-line functions.  A call names a builder's arguments; a   *)
(* builder gives the descriptor the validator later compares an answer     *)
(* with, and the request PDU.  An answer has its length, whether its CRC   *)
(* is right, its address and function, and the fields of its function:     *)
(* the byte count, the echoed words, the data.  Words are opaque; the bits *)
(* of a packed byte are the set of those that are one.                     *)
(***************************************************************************)
EXTENDS Integers, Sequences

unicast_address_is_valid(address) == address \in 1 .. 247

write_address_is_valid(address) == address = 0 \/ unicast_address_is_valid(address)

address_range_is_valid(start, quantity) == quantity > 0 /\ start + quantity <= 65536

\* A result is that of the first check that fails.  A check is a condition that must
\* hold and the error for its failure.
FirstError(checks) ==
    LET failing == {i \in DOMAIN checks : ~checks[i][1]}
    IN  IF failing = {} THEN "OK"
        ELSE checks[CHOOSE i \in failing : \A j \in failing : i <= j][2]

PackedBytes(quantity) == (quantity + 7) \div 8

\* Bits of the last byte beyond the quantity.
Padding(quantity) == IF quantity % 8 = 0 THEN {} ELSE quantity % 8 .. 7

packed_bit_padding_is_zero(data, quantity) ==
    Padding(quantity) = {} \/ (data # <<>> /\ data[Len(data)] \cap Padding(quantity) = {})

------------------------------------------------------------------------------
(* Builders.  c.adu_capacity is the room for the request ADU.                *)

finish_request(c, start, quantity, value) ==
    [slave |-> c.slave, function |-> c.function, start |-> start, quantity |-> quantity,
     value |-> value, write_start |-> 0, write_quantity |-> 0,
     expects_response |-> c.slave # 0]

RequestPdu(c, length, address, quantity, count, data) ==
    [function |-> c.function, len |-> length, address |-> address, quantity |-> quantity,
     waddress |-> 0, wquantity |-> 0, count |-> count, data |-> data]

\* The capacity is checked last, for an ADU of the PDU, the address and the CRC.
Built(c, checks, descriptor, pdu) ==
    [result |-> FirstError(Append(checks, <<c.adu_capacity >= pdu.len + 3, "ERROR_CAPACITY">>)),
     descriptor |-> descriptor, pdu |-> pdu]

Unicast(c) == <<unicast_address_is_valid(c.slave), "ERROR_SLAVE_ADDRESS">>

Writable(c) == <<write_address_is_valid(c.slave), "ERROR_SLAVE_ADDRESS">>

Counted(start, quantity, max) ==
    <<quantity \in 1 .. max /\ address_range_is_valid(start, quantity), "ERROR_QUANTITY">>

MutantOneMore(c, functions, max) ==
    Built(c, <<Unicast(c), <<c.function \in functions, "ERROR_FUNCTION">>,
               Counted(c.start, c.quantity, max + 1)>>,
          finish_request(c, c.start, c.quantity, 0),
          RequestPdu(c, 5, c.start, c.quantity, 0, <<>>))

\* mbrtum_build_read_bits_request and mbrtum_build_read_registers_request
build_read_request(c, functions, max) ==
    Built(c, <<Unicast(c), <<c.function \in functions, "ERROR_FUNCTION">>,
               Counted(c.start, c.quantity, max)>>,
          finish_request(c, c.start, c.quantity, 0),
          RequestPdu(c, 5, c.start, c.quantity, 0, <<>>))

CoilWord(value) == IF value = 0 THEN 0 ELSE 65280

build_write_single_coil_request(c) ==
    Built(c, <<Writable(c), <<c.value <= 1, "ERROR_VALUE">>>>,
          finish_request(c, c.start, 1, CoilWord(c.value)),
          RequestPdu(c, 5, c.start, CoilWord(c.value), 0, <<>>))

build_write_single_register_request(c) ==
    Built(c, <<Writable(c)>>,
          finish_request(c, c.start, 1, c.data[1]),
          RequestPdu(c, 5, c.start, 0, 0, c.data))

\* The descriptor keeps the masks as quantity and value.
build_mask_write_register_request(c) ==
    Built(c, <<Writable(c)>>,
          finish_request(c, c.start, c.data[1], c.data[2]),
          RequestPdu(c, 7, c.start, 0, 0, c.data))

\* The padding of the packed values is cleared.
build_write_multiple_coils_request(c) ==
    LET count == PackedBytes(c.quantity)
    IN  Built(c, <<Writable(c), Counted(c.start, c.quantity, 1968)>>,
              finish_request(c, c.start, c.quantity, 0),
              RequestPdu(c, 6 + count, c.start, c.quantity, count,
                         [i \in DOMAIN c.data |->
                            IF i = count THEN c.data[i] \ Padding(c.quantity) ELSE c.data[i]]))

build_write_multiple_registers_request(c) ==
    Built(c, <<Writable(c), Counted(c.start, c.quantity, 123)>>,
          finish_request(c, c.start, c.quantity, 0),
          RequestPdu(c, 6 + 2 * c.quantity, c.start, c.quantity, 2 * c.quantity, c.data))

build_read_write_multiple_registers_request(c) ==
    Built(c, <<Unicast(c), Counted(c.start, c.quantity, 125),
               Counted(c.write_start, c.write_quantity, 121)>>,
          [finish_request(c, c.start, c.quantity, 0) EXCEPT
              !.write_start = c.write_start, !.write_quantity = c.write_quantity],
          [RequestPdu(c, 10 + 2 * c.write_quantity, c.start, c.quantity,
                      2 * c.write_quantity, c.data) EXCEPT
              !.waddress = c.write_start, !.wquantity = c.write_quantity])

------------------------------------------------------------------------------
(* Serial-line requests.  The descriptor of FC08 holds the subfunction and   *)
(* the length of its data; that of FC11 the length expected of the id.       *)

diagnostic_subfunction_is_state_changing(sub) == sub \in {1, 4, 10, 20}

diagnostic_subfunction_is_supported(sub) == sub \in {0, 1, 2, 4, 20} \cup 10 .. 18

\* The word a subfunction other than Return Query Data must carry.
DataWordIsValid(sub, word) == word = 0 \/ (sub = 1 /\ word = 65280)

build_function_only_request(c) ==
    Built(c, <<Unicast(c)>>, finish_request(c, 0, 0, 0), RequestPdu(c, 1, 0, 0, 0, <<>>))

build_report_server_id_request(c) ==
    Built(c, <<<<c.quantity \in 1 .. 250, "ERROR_QUANTITY">>, Unicast(c)>>,
          finish_request(c, 0, c.quantity, 0), RequestPdu(c, 1, 0, 0, 0, <<>>))

build_diagnostics_request(c) ==
    LET length == 2 * Len(c.data)
        addressed == IF c.slave = 0 THEN diagnostic_subfunction_is_state_changing(c.start)
                     ELSE unicast_address_is_valid(c.slave)
    IN  Built(c, <<<<diagnostic_subfunction_is_supported(c.start), "ERROR_FUNCTION">>,
                   <<length <= 250, "ERROR_VALUE">>,
                   <<addressed, "ERROR_SLAVE_ADDRESS">>,
                   <<c.start # 0 => length = 2 /\ DataWordIsValid(c.start, c.data[1]),
                     "ERROR_VALUE">>>>,
              [finish_request(c, c.start, length, 0) EXCEPT
                  !.expects_response = c.slave # 0 /\ c.start # 4],
              RequestPdu(c, 3 + length, c.start, 0, 0, c.data))

Build(c) ==
    CASE c.builder = "read_bits" -> build_read_request(c, {1, 2}, 2000)
      [] c.builder = "read_registers" -> build_read_request(c, {3, 4}, 125)
      [] c.builder = "write_single_coil" -> build_write_single_coil_request(c)
      [] c.builder = "write_single_register" -> build_write_single_register_request(c)
      [] c.builder = "mask_write_register" -> build_mask_write_register_request(c)
      [] c.builder = "write_multiple_coils" -> build_write_multiple_coils_request(c)
      [] c.builder = "write_multiple_registers" -> build_write_multiple_registers_request(c)
      [] c.builder = "read_write_multiple_registers" ->
            build_read_write_multiple_registers_request(c)
      [] c.builder = "function_only" -> build_function_only_request(c)
      [] c.builder = "report_server_id" -> build_report_server_id_request(c)
      [] c.builder = "diagnostics" -> build_diagnostics_request(c)

------------------------------------------------------------------------------
(* The validator.  `original' is the request as it was sent, which FC08 is   *)
(* compared with.                                                            *)

\* Descriptors a builder would not have made.
DescriptorCheck(d) ==
    CASE d.function \in {1, 2} -> Counted(d.start, d.quantity, 2000)
      [] d.function \in {3, 4} -> Counted(d.start, d.quantity, 125)
      [] d.function = 5 -> <<d.quantity = 1 /\ d.value \in {0, 65280}, "ERROR_VALUE">>
      [] d.function = 6 -> <<d.quantity = 1, "ERROR_QUANTITY">>
      [] d.function = 15 -> Counted(d.start, d.quantity, 1968)
      [] d.function = 16 -> Counted(d.start, d.quantity, 123)
      [] d.function = 22 -> <<d.write_start = 0 /\ d.write_quantity = 0, "ERROR_VALUE">>
      [] d.function = 23 ->
            <<Counted(d.start, d.quantity, 125)[1] /\ d.value = 0
                /\ Counted(d.write_start, d.write_quantity, 121)[1], "ERROR_QUANTITY">>
      [] d.function \in {7, 11, 12} ->
            <<d.start = 0 /\ d.quantity = 0 /\ d.value = 0, "ERROR_VALUE">>
      [] d.function = 17 ->
            <<d.start = 0 /\ d.quantity \in 1 .. 250 /\ d.value = 0
                /\ d.write_start = 0 /\ d.write_quantity = 0, "ERROR_VALUE">>
      [] d.function = 8 ->
            <<diagnostic_subfunction_is_supported(d.start) /\ d.quantity \in 0 .. 250
                /\ d.quantity % 2 = 0 /\ d.value = 0 /\ (d.start # 0 => d.quantity = 2),
              "ERROR_VALUE">>

validate_request_descriptor(d) ==
    <<<<d.expects_response, "ERROR_RESPONSE_NOT_EXPECTED">>, Unicast(d), DescriptorCheck(d)>>

original_request_adu_is_valid(d, original) ==
    /\ original.slave = d.slave /\ original.pdu.function = d.function
    /\ original.pdu.len = 3 + d.quantity /\ original.pdu.address = d.start
    /\ d.start # 0 => DataWordIsValid(d.start, original.pdu.data[1])

LengthIs(a, length) == <<a.length = length, "ERROR_RESPONSE_LENGTH">>

MutantCountTrusted(d, a) ==
    LET count == PackedBytes(d.quantity)
    IN  <<<<a.count = count, "ERROR_MALFORMED_RESPONSE">>,
          <<packed_bit_padding_is_zero(a.data, d.quantity), "ERROR_MALFORMED_RESPONSE">>>>

bits_checks(d, a) ==
    LET count == PackedBytes(d.quantity)
    IN  <<LengthIs(a, 5 + count), <<a.count = count, "ERROR_MALFORMED_RESPONSE">>,
          <<packed_bit_padding_is_zero(a.data, d.quantity), "ERROR_MALFORMED_RESPONSE">>>>

registers_checks(d, a) ==
    <<LengthIs(a, 5 + 2 * d.quantity), <<a.count = 2 * d.quantity, "ERROR_MALFORMED_RESPONSE">>>>

acknowledgement_checks(a, length, words) ==
    <<LengthIs(a, length), <<a.echo = words, "ERROR_ACKNOWLEDGEMENT_MISMATCH">>>>

\* Subfunctions whose answer is not the word that was sent.
ReturnsValue(sub) == sub = 2 \/ sub \in 11 .. 18

diagnostics_checks(d, original, a) ==
    <<<<a.length >= 6 /\ a.length % 2 = 0, "ERROR_RESPONSE_LENGTH">>,
      <<a.echo = <<d.start>>, "ERROR_ACKNOWLEDGEMENT_MISMATCH">>,
      <<d.start = 0 => a.length = original.pdu.len + 3 /\ a.data = original.pdu.data,
        "ERROR_ACKNOWLEDGEMENT_MISMATCH">>,
      <<d.start # 0 => a.length = 8, "ERROR_RESPONSE_LENGTH">>,
      <<d.start = 0 \/ ReturnsValue(d.start) \/ a.data = original.pdu.data,
        "ERROR_ACKNOWLEDGEMENT_MISMATCH">>>>

\* FC0C and FC11: a byte count within limits, then the length.
counted_checks(a, least, most) ==
    <<<<a.length >= 5 + least, "ERROR_RESPONSE_LENGTH">>,
      <<a.count \in least .. most, "ERROR_MALFORMED_RESPONSE">>, LengthIs(a, 5 + a.count)>>

server_id_checks(d, a) ==
    Append(counted_checks(a, d.quantity + 1, 251),
           <<Len(a.data) > d.quantity /\ a.data[d.quantity + 1] \in {0, 255},
             "ERROR_MALFORMED_RESPONSE">>)

FunctionChecks(d, original, a) ==
    CASE d.function \in {1, 2} -> bits_checks(d, a)
      [] d.function \in {3, 4, 23} -> registers_checks(d, a)
      [] d.function \in {5, 6} -> acknowledgement_checks(a, 8, <<d.start, d.value>>)
      [] d.function \in {15, 16} -> acknowledgement_checks(a, 8, <<d.start, d.quantity>>)
      [] d.function = 22 -> acknowledgement_checks(a, 10, <<d.start, d.quantity, d.value>>)
      [] d.function = 7 -> <<LengthIs(a, 5)>>
      [] d.function = 8 -> diagnostics_checks(d, original, a)
      [] d.function = 11 -> <<LengthIs(a, 8)>>
      [] d.function = 12 -> counted_checks(a, 6, 70)
      [] d.function = 17 -> server_id_checks(d, a)

\* What every answer must satisfy, before its function is looked at.
AnswerChecks(d, a) ==
    <<<<a.length \in 5 .. 256, "ERROR_RESPONSE_LENGTH">>,
      <<a.intact, "ERROR_CRC">>,
      <<a.slave = d.slave, "ERROR_ADDRESS_MISMATCH">>>>

ExceptionChecks(a) ==
    <<LengthIs(a, 5), <<a.code # 0, "ERROR_MALFORMED_RESPONSE">>>>

IsException(d, a) == a.function = d.function + 128

\* mbrtum_process_response_with_request_adu, given the checks of the descriptor and of
\* the function.
process_response(d, a, descriptor_checks, function_checks) ==
    LET first == FirstError(descriptor_checks \o AnswerChecks(d, a))
        exception == FirstError(ExceptionChecks(a))
    IN  IF first # "OK" THEN first
        ELSE IF IsException(d, a) THEN IF exception = "OK" THEN "EXCEPTION_RESPONSE" ELSE exception
        ELSE IF a.function # d.function THEN "ERROR_FUNCTION_MISMATCH"
        ELSE FirstError(function_checks)

mbrtum_process_response(d, original, a) ==
    process_response(d, a,
        Append(validate_request_descriptor(d),
               <<d.function = 8 => original_request_adu_is_valid(d, original),
                 "ERROR_REQUEST_DATA_REQUIRED">>),
        FunctionChecks(d, original, a))

------------------------------------------------------------------------------
(* What the master may then read of an accepted answer: data_length bytes    *)
(* of it, from the byte `from' on.                                           *)

ResponseData(d, a) ==
    CASE d.function \in {1, 2} -> [from |-> 3, data_length |-> PackedBytes(d.quantity)]
      [] d.function \in {3, 4, 23} -> [from |-> 3, data_length |-> 2 * d.quantity]
      [] d.function = 7 -> [from |-> 2, data_length |-> 1]
      [] d.function = 8 -> [from |-> 2, data_length |-> a.length - 4]
      [] d.function = 11 -> [from |-> 2, data_length |-> 4]
      [] d.function \in {12, 17} -> [from |-> 3, data_length |-> a.count]

mbrtum_get_bit(d, a, index) ==
    IF index >= d.quantity THEN <<"ERROR_INDEX">>
    ELSE IF index \div 8 >= ResponseData(d, a).data_length THEN <<"ERROR_MALFORMED_RESPONSE">>
    ELSE <<"OK", index % 8 \in a.data[(index \div 8) + 1]>>

mbrtum_get_register(d, a, index) ==
    IF index >= d.quantity THEN <<"ERROR_INDEX">>
    ELSE IF 2 * index + 1 >= ResponseData(d, a).data_length THEN <<"ERROR_MALFORMED_RESPONSE">>
    ELSE <<"OK", a.data[index + 1]>>
==============================================================================
