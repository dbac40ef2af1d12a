------------------------- MODULE DeviceIdentification -------------------------
(***************************************************************************)
(* Read Device Identification (FC43/14) of App/src/modbus.c: a table of    *)
(* identification objects, and a client that reads it as a stream, page    *)
(* after page, following More Follows and Next Object ID, while the        *)
(* application may configure another table between two pages.  Each        *)
(* operation holds the library's lock throughout and is one step.          *)
(***************************************************************************)
EXTENDS ModbusPdu, Integers, Sequences, FiniteSets, SequencesExt

CONSTANTS
    Configurations,  \* arguments of mb_device_id_configure considered
    ObjectIds,       \* object identifiers asked for
    Capacity,        \* sizes of a response buffer
    MaxObjects,      \* MB_DEVICE_ID_MAX_OBJECTS
    MaxValueLength,  \* MB_DEVICE_ID_MAX_VALUE_LENGTH
    StorageSize,     \* MB_DEVICE_ID_VALUE_STORAGE_SIZE
    MaxGenerations   \* bound on the configurations made

HeaderSize == 7
ObjectHeaderSize == 2

\* MB_DEVICE_ID_MAX_VALUE_LENGTH leaves room for both headers.
ASSUME DeviceIdAssumption ==
    /\ {PduMax, MaxObjects, MaxValueLength, StorageSize, MaxGenerations} \subseteq Nat
    /\ HeaderSize + ObjectHeaderSize + MaxValueLength <= PduMax
    /\ Capacity \subseteq Nat

VARIABLES
    device,      \* device_id_state
    generation,  \* history: how many configurations were accepted
    session      \* the client that reads a stream

device_vars == <<device, generation, session>>

BASIC == 1
REGULAR == 2
EXTENDED == 3
SPECIFIC == 4

------------------------------------------------------------------------------
(* Configuration.  An object has an identifier and the length of its value;  *)
(* the generation it was configured in stands for the value.                 *)

conformity_level_is_valid(level) == level \in {1, 2, 3, 129, 130, 131}

conformity_category(level) == level % 128

Individual(level) == level >= 128

object_id_is_defined(id) == id <= 6 \/ id >= 128

object_id_matches_category(id, category) ==
    CASE category = BASIC -> id <= 2
      [] category = REGULAR -> id <= 6
      [] category = EXTENDED -> object_id_is_defined(id)

configuration_object_is_allowed(id, category) ==
    object_id_is_defined(id) /\ object_id_matches_category(id, category)

TotalLength(objects) == FoldLeft(LAMBDA n, o : n + o.length, 0, objects)

configuration_is_valid(c) ==
    /\ conformity_level_is_valid(c.level)
    /\ Len(c.objects) \in 3 .. MaxObjects
    /\ \A i \in DOMAIN c.objects :
          /\ c.objects[i].length <= MaxValueLength
          /\ configuration_object_is_allowed(c.objects[i].id, conformity_category(c.level))
          /\ i > 1 => c.objects[i - 1].id < c.objects[i].id
    /\ TotalLength(c.objects) <= StorageSize
    /\ \A i \in 1 .. 3 : c.objects[i].id = i - 1

Unconfigured == [configured |-> FALSE, level |-> 0, objects |-> <<>>]

\* The session notes that the table is no longer the one it began with.
Disturbed == [session EXCEPT !.undisturbed = FALSE]

mb_device_id_configure(c) ==
    /\ generation < MaxGenerations
    /\ IF configuration_is_valid(c)
       THEN /\ device' = [configured |-> TRUE, level |-> c.level,
                          objects |-> [i \in DOMAIN c.objects |->
                             [id |-> c.objects[i].id, length |-> c.objects[i].length,
                              generation |-> generation + 1]]]
            /\ generation' = generation + 1
            /\ session' = Disturbed
       ELSE UNCHANGED device_vars

mb_device_id_clear ==
    /\ generation < MaxGenerations
    /\ device' = Unconfigured
    /\ generation' = generation + 1
    /\ session' = Disturbed

------------------------------------------------------------------------------
(* Requests *)

Exception(e) == [exception |-> e, more |-> FALSE, next |-> 0, objects |-> <<>>]

Eligible(category) ==
    {i \in DOMAIN device.objects : object_id_matches_category(device.objects[i].id, category)}

find_object_index(id, category) == {i \in Eligible(category) : device.objects[i].id = id}

\* Where a stream starts: at the object asked for, or at the first.
start_index(id, category) ==
    LET found == find_object_index(id, category)
    IN  Minimum(IF found # {} THEN found ELSE Eligible(category))

ResponseSize(objects) == HeaderSize + TotalLength(objects) + ObjectHeaderSize * Len(objects)

MutantHeaderForgotten(objects, limit) ==
    Cardinality({n \in DOMAIN objects :
                    HeaderSize + TotalLength(SubSeq(objects, 1, n)) <= limit})

\* How many of the objects go into a response: the loop stops at the first that does not
\* fit, so this is how many prefixes fit.
FittingCount(objects, limit) ==
    Cardinality({n \in DOMAIN objects : ResponseSize(SubSeq(objects, 1, n)) <= limit})

specific_response(id, limit) ==
    LET found == find_object_index(id, conformity_category(device.level))
        object == device.objects[Minimum(found)]
    IN  IF ~Individual(device.level) THEN Exception(ILLEGAL_DATA_VALUE)
        ELSE IF found = {} THEN Exception(ILLEGAL_DATA_ADDRESS)
        ELSE IF limit < ResponseSize(<<object>>) THEN Exception(SERVER_FAILURE)
        ELSE [exception |-> 0, more |-> FALSE, next |-> 0, objects |-> <<object>>]

\* Next Object ID: the first object left out.
next_object_id(candidates, n) == IF n < Len(candidates) THEN candidates[n + 1].id ELSE 0

more_follows(candidates, n) == n < Len(candidates)

MutantOnePage(code, id, limit) ==
    LET actual == conformity_category(device.level)
        category == IF code < actual THEN code ELSE actual
        first == start_index(id, category)
        candidates == SelectSeq(SubSeq(device.objects, first, Len(device.objects)),
                                LAMBDA o : object_id_matches_category(o.id, category))
        n == FittingCount(candidates, limit)
    IN  IF n = 0 THEN Exception(SERVER_FAILURE)
        ELSE [exception |-> 0, more |-> FALSE,
              next |-> 0, objects |-> SubSeq(candidates, 1, n)]

MutantStartsOver(code, id, limit) ==
    LET actual == conformity_category(device.level)
        category == IF code < actual THEN code ELSE actual
        first == start_index(0, category)
        candidates == SelectSeq(SubSeq(device.objects, first, Len(device.objects)),
                                LAMBDA o : object_id_matches_category(o.id, category))
        n == FittingCount(SubSeq(candidates, 1, Len(candidates) - 1), limit)
    IN  IF n = 0 THEN Exception(SERVER_FAILURE)
        ELSE [exception |-> 0, more |-> more_follows(candidates, n),
              next |-> next_object_id(candidates, n), objects |-> SubSeq(candidates, 1, n)]

stream_response(code, id, limit) ==
    LET actual == conformity_category(device.level)
        category == IF code < actual THEN code ELSE actual
        first == start_index(id, category)
        candidates == SelectSeq(SubSeq(device.objects, first, Len(device.objects)),
                                LAMBDA o : object_id_matches_category(o.id, category))
        n == FittingCount(candidates, limit)
    IN  IF n = 0 THEN Exception(SERVER_FAILURE)
        ELSE [exception |-> 0, more |-> more_follows(candidates, n),
              next |-> next_object_id(candidates, n), objects |-> SubSeq(candidates, 1, n)]

mb_device_id_process_request(code, id, capacity) ==
    LET limit == response_limit(capacity)
    IN  IF code \notin BASIC .. SPECIFIC THEN Exception(ILLEGAL_DATA_VALUE)
        ELSE IF ~device.configured THEN Exception(SERVER_FAILURE)
        ELSE IF code = SPECIFIC THEN specific_response(id, limit)
        ELSE stream_response(code, id, limit)

------------------------------------------------------------------------------
(* The client (external): a stream from object 0, one page per step.  It     *)
(* stops collecting once it has more objects than a table can hold.          *)

Resting == [state |-> "idle", code |-> 0, next |-> 0, got |-> <<>>, undisturbed |-> TRUE]

BeginStream(code) ==
    /\ session.state # "reading"
    /\ session' = [Resting EXCEPT !.state = "reading", !.code = code]
    /\ UNCHANGED <<device, generation>>

ReadPage(capacity) ==
    /\ session.state = "reading"
    /\ \E response \in {mb_device_id_process_request(session.code, session.next, capacity)} :
          session' = [session EXCEPT
                !.state = IF response.exception # 0 THEN "failed"
                          ELSE IF response.more THEN "reading" ELSE "done",
                !.next = response.next,
                !.got = IF session.undisturbed /\ Len(@) <= MaxObjects THEN @ \o response.objects ELSE @]
    /\ UNCHANGED <<device, generation>>

------------------------------------------------------------------------------
(* Specification *)

DeviceInit ==
    /\ device = Unconfigured
    /\ generation = 0
    /\ session = Resting

ReadNextPage == \E capacity \in Capacity : ReadPage(capacity)

DeviceNext ==
    \/ \E c \in Configurations : mb_device_id_configure(c)
    \/ mb_device_id_clear
    \/ \E code \in BASIC .. EXTENDED : BeginStream(code)
    \/ ReadNextPage

------------------------------------------------------------------------------
(* Properties *)

\* A stream read page by page is the table: however small the pages, a client that
\* follows Next Object ID gets every object of the category once, in order, unless the
\* table was replaced meanwhile.
StreamComplete ==
    (session.state = "done" /\ session.undisturbed) =>
        LET level == conformity_category(device.level)
        IN  session.got =
              SelectSeq(device.objects,
                        LAMBDA o : /\ object_id_matches_category(o.id, session.code)
                                   /\ object_id_matches_category(o.id, level))

\* Whatever the table in use, no response is empty, larger than the buffer or a PDU,
\* outside the category asked for or, to a request for one object, another object.  And
\* "one object always fits in a maximum 253-byte Modbus PDU"
\* (docs/modbus-fc43-device-identification.md:41-42): with a buffer of that size a
\* configured server never fails, whatever lengths configure has accepted.
ResponseSound ==
    \A code \in 0 .. SPECIFIC + 1, id \in ObjectIds, capacity \in Capacity :
        LET response == mb_device_id_process_request(code, id, capacity)
            objects == response.objects
            size == FoldLeft(LAMBDA n, o : n + 2 + o.length, 7, objects)
        IN  /\ response.exception = 0 =>
                 /\ objects # <<>>
                 /\ size <= capacity /\ size <= PduMax
                 /\ code \in BASIC .. EXTENDED =>
                       \A k \in DOMAIN objects : object_id_matches_category(objects[k].id, code)
                 /\ code = SPECIFIC => Len(objects) = 1 /\ objects[1].id = id
            /\ device.configured /\ capacity >= PduMax => response.exception # SERVER_FAILURE

\* A client that reads a stream reaches its end, or an exception: no sequence of Next
\* Object IDs goes round for ever, even when the table is replaced on the way.
StreamEnds == session.state = "reading" ~> session.state # "reading"
===============================================================================
