---------------------------- MODULE MeiTransport -----------------------------
(***************************************************************************)
(* FC43: mb_mei_process_request serves type 14 from the identification     *)
(* table and every other type from the registry of handlers.  The two      *)
(* share no state, so what can be seen of one is seen with the other at    *)
(* rest: `serving' is the one that is used.                                *)
(***************************************************************************)
EXTENDS MasterIdentification, MeiRegistry

------------------------------------------------------------------------------
(* The master's side of every other type (App/src/modbus_rtu_master.c)       *)

mei_type_is_generic(type) ==
    type \in 0 .. 255 \ {CANOPEN, READ_DEVICE_IDENTIFICATION}

mbrtum_build_mei_request(type, length) ==
    LET c == [slave |-> 1, function |-> 43, adu_capacity |-> 256]
    IN  Built(c, <<Unicast(c), <<mei_type_is_generic(type), "ERROR_FUNCTION">>,
                   <<length <= MaxDataLength, "ERROR_VALUE">>>>,
              finish_request(c, length, 0, type), RequestPdu(c, 2 + length, type, 0, 0, <<>>))

mei_descriptor_check(d) ==
    <<mei_type_is_generic(d.value) /\ d.start <= MaxDataLength /\ d.quantity = 0
        /\ d.write_start = 0 /\ d.write_quantity = 0, "ERROR_VALUE">>

MutantDataExpected(d, a) ==
    <<<<a.length > 5, "ERROR_RESPONSE_LENGTH">>,
      <<a.mei_type = d.value, "ERROR_ACKNOWLEDGEMENT_MISMATCH">>,
      <<a.length <= 256, "ERROR_RESPONSE_LENGTH">>>>

mei_checks(d, a) ==
    <<<<a.length >= 5, "ERROR_RESPONSE_LENGTH">>,
      <<a.mei_type = d.value, "ERROR_ACKNOWLEDGEMENT_MISMATCH">>,
      <<a.length <= 256, "ERROR_RESPONSE_LENGTH">>>>

process_mei_response(d, a) ==
    process_response(d, a,
        <<<<d.expects_response, "ERROR_RESPONSE_NOT_EXPECTED">>, Unicast(d),
          mei_descriptor_check(d)>>,
        IF IsException(d, a) THEN <<>> ELSE mei_checks(d, a))

\* response->data begins with the type.
mbrtum_get_mei_response(a) == [mei_type |-> a.mei_type, data_length |-> a.length - 4 - 1]

\* The answer to a request: the PDU with the slave's address and the CRC.
mei_answer(type, exception, length) ==
    IF exception # 0
    THEN [length |-> 5, intact |-> TRUE, slave |-> 1, function |-> 43 + 128, code |-> exception]
    ELSE [length |-> 3 + length, intact |-> TRUE, slave |-> 1, function |-> 43, code |-> 0,
          mei_type |-> type]

------------------------------------------------------------------------------
(* Both services *)

VARIABLE serving

transport_vars == <<device_vars, mei_vars, serving>>

TransportInit ==
    /\ DeviceInit /\ MeiInit
    /\ serving \in {"identification", "registry"}

TransportNext ==
    /\ UNCHANGED serving
    /\ \/ serving = "identification" /\ DeviceNext /\ UNCHANGED mei_vars
       \/ serving = "registry" /\ MeiNext /\ UNCHANGED device_vars

\* A client that reads the identification goes on until its stream has ended.
TransportSpec ==
    /\ TransportInit /\ [][TransportNext]_transport_vars
    /\ WF_device_vars(ReadNextPage)

------------------------------------------------------------------------------
(* Property *)

\* Master and server agree on FC43: on identification, and on every other MEI type.
\* Whatever a handler returned, the answer mb_mei_process_request makes of it is one the
\* master accepts, as data of the length the handler gave or as an exception
\* (modbus.c:314-335, modbus_rtu_master.c:1702-1716); so also when the handler gave no
\* data, and the answer is no longer than an exception.
MeiAnswersAccepted ==
    /\ IdentificationAccepted
    /\ \A t \in Task : (task[t].kind = "request" /\ task[t].pc = "idle") =>
           \A type \in MeiTypes, n \in 0 .. PduMax :
               LET built == mbrtum_build_mei_request(type, n)
                   answer == mei_answer(type, task[t].exception, task[t].length)
                   verdict == process_mei_response(built.descriptor, answer)
               IN  built.result = "OK" =>
                     IF task[t].exception # 0 THEN verdict = "EXCEPTION_RESPONSE"
                     ELSE /\ verdict = "OK"
                          /\ mbrtum_get_mei_response(answer).data_length = task[t].length - 2
==============================================================================
