------------------------- MODULE MasterIdentification -------------------------
(***************************************************************************)
(* The RTU master's builder and validator for Read Device Identification   *)
(* (FC43/14, App/src/modbus_rtu_master.c), against the server's            *)
(* DeviceIdentification.  An answer's objects are the identifiers and      *)
(* lengths found in it, in order.                                          *)
(***************************************************************************)
EXTENDS DeviceIdentification, MasterValidator

device_id_code_is_valid(code) == code \in BASIC .. SPECIFIC

mbrtum_build_read_device_identification_request(code, id) ==
    LET c == [slave |-> 1, function |-> 43, adu_capacity |-> 256]
    IN  Built(c, <<Unicast(c), <<device_id_code_is_valid(code), "ERROR_VALUE">>>>,
              finish_request(c, code, id, 14),
              RequestPdu(c, 4, code, id, 14, <<>>))

identification_descriptor_check(d) ==
    <<device_id_code_is_valid(d.start) /\ d.quantity <= 255
        /\ d.write_start = 0 /\ d.write_quantity = 0, "ERROR_VALUE">>

------------------------------------------------------------------------------
(* The validator's own copies of the server's rules *)

device_id_conformity_is_valid(level) == level \in {1, 2, 3, 129, 130, 131}

device_id_conformity_category(level) == level % 128

device_id_object_matches_category(id, category) ==
    \/ category = BASIC /\ id <= 2
    \/ category = REGULAR /\ id <= 6
    \/ category = EXTENDED /\ (id <= 6 \/ id >= 128)

answer_category(d, a) ==
    LET category == device_id_conformity_category(a.level)
    IN  IF d.start # SPECIFIC /\ d.start < category THEN d.start ELSE category

Malformed(condition) == <<condition, "ERROR_MALFORMED_RESPONSE">>

\* The offset of object i, and of the end after the last.
ObjectOffset(a, i) == 8 + TotalLength(SubSeq(a.objects, 1, i - 1)) + ObjectHeaderSize * (i - 1)

MutantFirstMustMatch(d, a, i) ==
    LET object == a.objects[i]
    IN  <<<<ObjectOffset(a, i + 1) <= a.length - 2, "ERROR_RESPONSE_LENGTH">>,
          Malformed(i > 1 => object.id > a.objects[i - 1].id),
          Malformed(device_id_object_matches_category(object.id, answer_category(d, a))),
          <<i = 1 => object.id = d.quantity, "ERROR_ACKNOWLEDGEMENT_MISMATCH">>>>

\* The loop's body.  A stream starts at the object asked for, or at the first.
object_checks(d, a, i) ==
    LET object == a.objects[i]
    IN  <<<<ObjectOffset(a, i + 1) <= a.length - 2, "ERROR_RESPONSE_LENGTH">>,
          Malformed(i > 1 => object.id > a.objects[i - 1].id),
          Malformed(device_id_object_matches_category(object.id, answer_category(d, a))),
          <<(d.start = SPECIFIC \/ (i = 1 /\ object.id # 0)) => object.id = d.quantity,
            "ERROR_ACKNOWLEDGEMENT_MISMATCH">>>>

header_checks(d, a) ==
    <<<<a.length >= 12, "ERROR_RESPONSE_LENGTH">>,
      Malformed(a.mei_type = 14),
      Malformed(a.read_code = d.start /\ device_id_conformity_is_valid(a.level)
                  /\ a.object_count # 0),
      Malformed(a.more <=> a.next # 0),
      Malformed(a.read_code = SPECIFIC => a.level >= 128 /\ ~a.more /\ a.object_count = 1)>>

next_checks(d, a) ==
    <<<<ObjectOffset(a, a.object_count + 1) = a.length - 2, "ERROR_RESPONSE_LENGTH">>,
      Malformed(a.more =>
          /\ a.next > a.objects[a.object_count].id
          /\ device_id_object_matches_category(a.next, answer_category(d, a)))>>

identification_checks(d, a) ==
    header_checks(d, a)
      \o FlattenSeq([i \in 1 .. a.object_count |-> object_checks(d, a, i)])
      \o next_checks(d, a)

process_identification_response(d, a) ==
    process_response(d, a,
        <<<<d.expects_response, "ERROR_RESPONSE_NOT_EXPECTED">>, Unicast(d),
          identification_descriptor_check(d)>>,
        IF IsException(d, a) THEN <<>> ELSE identification_checks(d, a))

------------------------------------------------------------------------------
(* The server's answer: the PDU with the slave's address and the CRC.        *)

identification_answer(code, response) ==
    IF response.exception # 0
    THEN [length |-> 5, intact |-> TRUE, slave |-> 1, function |-> 43 + 128,
          code |-> response.exception]
    ELSE [length |-> 3 + ResponseSize(response.objects), intact |-> TRUE, slave |-> 1,
          function |-> 43, code |-> 0, mei_type |-> 14, read_code |-> code,
          level |-> device.level, more |-> response.more, next |-> response.next,
          object_count |-> Len(response.objects), objects |-> response.objects]

------------------------------------------------------------------------------
(* Property *)

\* Master and server agree on FC43/14: every page of every table that
\* mb_device_id_configure installs is accepted by the validator, although the master
\* holds its own copy of the rules for categories, conformity and continuation
\* (modbus_rtu_master.c:65-104, 1704-1811); also a page that starts over at the first
\* object because the object asked for is not, or no longer, in the table.  (The pages
\* depend on the table alone, so it is enough to look before a client has begun.)
IdentificationAccepted ==
    (device.configured /\ session.state = "idle") =>
        \A code \in 0 .. SPECIFIC + 1, id \in ObjectIds, capacity \in Capacity :
            LET built == mbrtum_build_read_device_identification_request(code, id)
                response == mb_device_id_process_request(code, id, capacity)
            IN  built.result = "OK" =>
                  process_identification_response(built.descriptor,
                                                  identification_answer(code, response)) =
                    IF response.exception = 0 THEN "OK" ELSE "EXCEPTION_RESPONSE"
===============================================================================
