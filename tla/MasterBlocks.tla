---------------------------- MODULE MasterBlocks -----------------------------
(***************************************************************************)
(* The RTU master's builders and validator for file records (FC20, FC21)   *)
(* and FIFO queues (FC24), against the server's ApplicationBlocks.  An     *)
(* answer to FC20 has one subresponse [count, typed, words] per            *)
(* subrequest; an answer to FC21 has the request it repeats; an answer to  *)
(* FC24 has the queue's count and its words.                               *)
(***************************************************************************)
EXTENDS ApplicationBlocks, MasterValidator

\* MB_FILE_RECORD_REQUEST_DATA_MAX and MB_FILE_RECORD_WRITE_REQUEST_DATA_MAX
RequestDataMax == 245
WriteRequestDataMax == 251

file_record_range_is_valid(sub) ==
    sub.length > 0 /\ sub.record < MaxRecords /\ sub.record + sub.length <= MaxRecords

\* The length of the records of subs, each behind a header of header bytes.
RecordsLength(subs, header) ==
    FoldLeft(LAMBDA n, sub : n + header + 2 * sub.length, 0, subs)

ResponseDataLength(subs) == RecordsLength(subs, 2)

RequestDataLength(subs) == RecordsLength(subs, 7)

\* The loop over the subrequests: the values of each, and the length so far.
SubrequestsCheck(subs, most, header, max) ==
    <<<<Len(subs) \in 1 .. most, "ERROR_QUANTITY">>>>
      \o FlattenSeq([i \in DOMAIN subs |->
           <<<<subs[i].file # 0 /\ file_record_range_is_valid(subs[i]), "ERROR_VALUE">>,
             <<RecordsLength(SubSeq(subs, 1, i), header) <= max, "ERROR_QUANTITY">>>>])

BlocksCall(function) == [slave |-> 1, function |-> function, adu_capacity |-> 256]

MutantForgetsHeaders(subs) ==
    LET c == BlocksCall(20)
    IN  Built(c, <<Unicast(c)>> \o SubrequestsCheck(subs, 35, 0, ResponseMax),
              finish_request(c, 7 * Len(subs), RecordsLength(subs, 0), Len(subs)),
              RequestPdu(c, 2 + 7 * Len(subs), 0, 0, 7 * Len(subs), subs))

mbrtum_build_read_file_record_request(subs) ==
    LET c == BlocksCall(20)
    IN  Built(c, <<Unicast(c)>> \o SubrequestsCheck(subs, 35, 2, ResponseMax),
              finish_request(c, 7 * Len(subs), ResponseDataLength(subs), Len(subs)),
              RequestPdu(c, 2 + 7 * Len(subs), 0, 0, 7 * Len(subs), subs))

mbrtum_build_write_file_record_request(subs) ==
    LET c == BlocksCall(21)
        total == RequestDataLength(subs)
    IN  Built(c, <<Writable(c)>> \o SubrequestsCheck(subs, 27, 7, WriteRequestDataMax),
              finish_request(c, total, Len(subs), 0),
              RequestPdu(c, 2 + total, 0, 0, total, subs))

mbrtum_build_read_fifo_queue_request(address) ==
    LET c == BlocksCall(24)
    IN  Built(c, <<Unicast(c)>>, finish_request(c, address, 0, 0),
              RequestPdu(c, 3, address, 0, 0, <<>>))

------------------------------------------------------------------------------
(* The validator *)

BlocksDescriptorCheck(d) ==
    CASE d.function = 20 ->
            <<d.start \in 7 .. RequestDataMax /\ d.start % 7 = 0
                /\ d.quantity \in 4 .. ResponseMax /\ d.quantity % 2 = 0
                /\ d.value \in 1 .. 35 /\ d.value = d.start \div 7
                /\ d.write_start = 0 /\ d.write_quantity = 0, "ERROR_VALUE">>
      [] d.function = 21 ->
            <<d.start \in 9 .. WriteRequestDataMax /\ d.quantity \in 1 .. 27 /\ d.value = 0
                /\ d.write_start = 0 /\ d.write_quantity = 0, "ERROR_VALUE">>
      [] d.function = 24 ->
            <<d.quantity = 0 /\ d.value = 0 /\ d.write_start = 0 /\ d.write_quantity = 0,
              "ERROR_VALUE">>

\* original_request_adu_is_valid, for requests that carry subrequests.
original_records_are_valid(d, pdu) ==
    /\ pdu.function = d.function
    /\ pdu.len = 2 + d.start /\ pdu.count = d.start
    /\ \A i \in DOMAIN pdu.data : pdu.data[i].file # 0 /\ file_record_range_is_valid(pdu.data[i])
    /\ d.function = 20 => ResponseDataLength(pdu.data) = d.quantity
    /\ d.function = 21 => /\ RequestDataLength(pdu.data) = d.start
                          /\ Len(pdu.data) = d.quantity

read_record_checks(d, pdu, a) ==
    LET there(i) == i \in DOMAIN a.subs
        matches(i) == a.subs[i].count = 1 + 2 * pdu.data[i].length /\ a.subs[i].typed
    IN  <<LengthIs(a, 5 + d.quantity), <<a.count = d.quantity, "ERROR_MALFORMED_RESPONSE">>>>
          \o FlattenSeq([i \in 1 .. d.value |->
               <<<<there(i), "ERROR_RESPONSE_LENGTH">>,
                 <<there(i) => matches(i), "ERROR_MALFORMED_RESPONSE">>>>])
          \o <<<<Len(a.subs) = d.value, "ERROR_RESPONSE_LENGTH">>>>

write_record_checks(pdu, a) ==
    <<LengthIs(a, pdu.len + 3), <<a.request = pdu, "ERROR_ACKNOWLEDGEMENT_MISMATCH">>>>

fifo_checks(a) ==
    <<<<a.length >= 8, "ERROR_RESPONSE_LENGTH">>,
      <<a.fifo_count <= MaxValues, "ERROR_MALFORMED_RESPONSE">>,
      <<a.count = 2 + 2 * a.fifo_count, "ERROR_MALFORMED_RESPONSE">>,
      LengthIs(a, 6 + a.count)>>

process_blocks_response(d, pdu, a) ==
    process_response(d, a,
        <<<<d.expects_response, "ERROR_RESPONSE_NOT_EXPECTED">>, Unicast(d),
          BlocksDescriptorCheck(d),
          <<d.function # 24 => original_records_are_valid(d, pdu),
            "ERROR_REQUEST_DATA_REQUIRED">>>>,
        CASE d.function = 20 -> read_record_checks(d, pdu, a)
          [] d.function = 21 -> write_record_checks(pdu, a)
          [] d.function = 24 -> fifo_checks(a))

\* mbrtum_get_file_record_register and mbrtum_get_fifo_register
mbrtum_get_file_record_register(a, i, index) ==
    IF index >= (a.subs[i].count - 1) \div 2 THEN <<"ERROR_INDEX">>
    ELSE <<"OK", a.subs[i].words[index + 1]>>

mbrtum_get_fifo_register(a, index) ==
    IF index >= a.fifo_count THEN <<"ERROR_INDEX">> ELSE <<"OK", a.words[index + 1]>>

------------------------------------------------------------------------------
(* The server's answers: the PDU with the slave's address and the CRC.       *)

Refusal(function, code) ==
    [length |-> 5, intact |-> TRUE, slave |-> 1, function |-> function + 128, code |-> code]

read_record_answer(subs, response) ==
    [length |-> 5 + ResponseDataLength(subs), intact |-> TRUE, slave |-> 1, function |-> 20,
     count |-> ResponseDataLength(subs),
     subs |-> [k \in DOMAIN subs |-> [count |-> 1 + 2 * subs[k].length, typed |-> TRUE,
                                      words |-> response[k]]]]

write_record_answer(pdu) ==
    [length |-> pdu.len + 3, intact |-> TRUE, slave |-> 1, function |-> 21, request |-> pdu]

fifo_answer(values) ==
    [length |-> 8 + 2 * Len(values), intact |-> TRUE, slave |-> 1, function |-> 24,
     count |-> 2 + 2 * Len(values), fifo_count |-> Len(values), words |-> values]

------------------------------------------------------------------------------
(* Property *)

\* What a builder has built is never refused as malformed, whatever tables the
\* application has configured: only when records it names are in no configured file
\* (looked up without the scan), or the response buffer is too small for the answer.
RecordsRefusedForCause(subs, length) ==
    \/ last'.exception = ILLEGAL_DATA_ADDRESS /\ \E i \in DOMAIN subs : ~Exists(subs[i])
    \/ last'.exception = SERVER_FAILURE /\ last'.capacity < length

\* The same of a queue; here the count the application wrote may be too large as well.
QueueRefusedForCause ==
    LET found == {q \in Descriptors(queues) : q.key = last'.address}
        count(q) == memory[q.block][1]
    IN  \/ last'.exception = ILLEGAL_DATA_ADDRESS /\ found = {}
        \/ \E q \in found :
              \/ last'.exception = ILLEGAL_DATA_VALUE /\ count(q) > MaxValues
              \/ /\ last'.exception = SERVER_FAILURE
                 /\ count(q) >= q.count \/ last'.capacity < 5 + 2 * count(q)

\* FC20, FC21 and FC24 agree between the server of modbus.c and the master of
\* modbus_rtu_master.c: every answer to a built request is accepted, an exception as
\* the exception it is and for a cause, and the master's getters give the words in the server's memory,
\* none of them past the end of a queue, whatever count the application wrote there.
BlocksAnswersAccepted ==
    [][LET answered(built, a) ==
              process_blocks_response(built.descriptor, built.pdu, a)
           refused(built) ==
              answered(built, Refusal(built.pdu.function, last'.exception)) = "EXCEPTION_RESPONSE"
       IN  /\ last'.op = "FC20" =>
                LET subs == last'.request.subs
                    built == mbrtum_build_read_file_record_request(subs)
                    a == read_record_answer(subs, last'.response)
                IN  (built.result = "OK" /\ last'.request.framed
                       /\ \A i \in DOMAIN subs : subs[i].typed) =>
                      IF last'.exception # 0
                      THEN /\ refused(built)
                           /\ RecordsRefusedForCause(subs, 2 + ResponseDataLength(subs))
                      ELSE /\ answered(built, a) = "OK"
                           /\ \A i \in DOMAIN subs : \A n \in 1 .. subs[i].length :
                                mbrtum_get_file_record_register(a, i, n - 1) =
                                   <<"OK", memory[FileOf(subs[i]).block][subs[i].record + n]>>
           /\ last'.op = "FC21" =>
                LET subs == last'.request.subs
                    built == mbrtum_build_write_file_record_request(subs)
                IN  (built.result = "OK" /\ last'.request.framed /\ last'.request.rest = 0
                       /\ \A i \in DOMAIN subs : subs[i].typed /\ subs[i].length = Len(subs[i].data)) =>
                      IF last'.exception # 0
                      THEN /\ refused(built)
                           /\ RecordsRefusedForCause(subs, 2 + RequestDataLength(subs))
                      ELSE answered(built, write_record_answer(built.pdu)) = "OK"
           /\ last'.op = "FC24" =>
                LET built == mbrtum_build_read_fifo_queue_request(last'.address)
                    a == fifo_answer(last'.response)
                IN  last'.framed =>
                    IF last'.exception # 0 THEN refused(built) /\ QueueRefusedForCause
                    ELSE /\ answered(built, a) = "OK"
                         /\ \A n \in DOMAIN last'.response :
                              \E q \in Descriptors(queues) :
                                 /\ q.key = last'.address /\ n < q.count
                                 /\ mbrtum_get_fifo_register(a, n - 1) =
                                      <<"OK", memory[q.block][n + 1]>>]_blocks_vars
==============================================================================
