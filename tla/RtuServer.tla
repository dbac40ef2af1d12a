------------------------------ MODULE RtuServer ------------------------------
(***************************************************************************)
(* Processing of complete RTU frames with serial-line diagnostics: the ADU *)
(* dispatcher of App/src/modbus_rtu.c and the diagnostics object of        *)
(* App/src/modbus_rtu_diagnostics.c.  Both run in the main loop, so a call *)
(* is one step.  A frame is abstracted to what the dispatch tells apart, a *)
(* response to whether it is sent and whether it is an exception; an event *)
(* byte is the set of its flags.  The register map behind mb_process_pdu   *)
(* is external: it answers normally or with an exception code.             *)
(***************************************************************************)
EXTENDS Integers, Sequences

CONSTANTS
    LogCapacity,     \* MBRTU_DIAGNOSTICS_EVENT_LOG_CAPACITY
    CounterMax,      \* UINT16_MAX, where a counter stops
    Word,            \* values of the words the application sets, 0 among them
    PduLength,       \* lengths of the request PDUs considered
    PduCapacity,     \* room the caller's response buffer has for a PDU
    ServerIdLength,  \* length of a normal FC11 response PDU
    ExceptionCode    \* exception codes mb_process_pdu answers with

ASSUME ServerAssumption ==
    /\ LogCapacity \in Nat \ {0}
    /\ CounterMax \in Nat
    /\ 0 \in Word
    /\ PduLength \subseteq Nat \ {0}
    /\ PduCapacity \subseteq Nat
    /\ ServerIdLength \in Nat
    /\ ExceptionCode \subseteq Nat \ {0}

VARIABLES
    diagnostics,  \* the mbrtu_diagnostics_t
    configured,   \* server_id_state.configured
    call          \* history: the last call and what it did

vars == <<diagnostics, configured, call>>

CounterName ==
    {"event_counter", "message_count", "bus_communication_error_count",
     "bus_exception_error_count", "server_message_count",
     "server_no_response_count", "server_nak_count", "server_busy_count",
     "bus_character_overrun_count"}

WordName == {"exception_status", "diagnostic_register", "communication_status"}

PendingAction == {"RESTART", "ENTER_LISTEN_ONLY"}

EventFlag ==
    {"RECEIVE", "BROADCAST", "LISTEN_ONLY", "COMM_ERROR", "CHARACTER_OVERRUN",
     "SEND", "READ_EXCEPTION", "SERVER_ABORT", "SERVER_BUSY", "SERVER_NAK",
     "ENTERED_LISTEN_ONLY"}

\* An event byte; the restart event is the byte 0x00.
Event == SUBSET EventFlag
RestartEvent == {}
ListenOnlyEvent == {"ENTERED_LISTEN_ONLY"}

Slot == 0 .. LogCapacity - 1

Address == {"broadcast", "own", "other"}

\* Serial-line functions, the write functions that may be broadcast, the rest.
Function == {"FC07", "FC08", "FC0B", "FC0C", "FC11", "WRITE", "OTHER"}

Subfunction ==
    {"RETURN_QUERY_DATA", "RESTART_COMMUNICATIONS", "RETURN_WORD",
     "FORCE_LISTEN_ONLY", "CLEAR_COUNTERS_AND_REGISTER",
     "CLEAR_OVERRUN_COUNTER", "UNSUPPORTED"}

\* The data word of an FC08 request; the other functions carry none here.
DataWord == {"0000", "FF00", "other"}

Request ==
    [function : {"FC08"}, len : PduLength, sub : Subfunction, data : DataWord]
        \cup [function : Function \ {"FC08"}, len : PduLength,
              sub : {"RETURN_QUERY_DATA"}, data : {"0000"}]

------------------------------------------------------------------------------
(* The diagnostics object.  Its operations map one value of it to the next. *)

increment_saturating(n) == IF n < CounterMax THEN n + 1 ELSE n

Bump(d, names) ==
    [counters |-> [c \in CounterName |-> IF c \in names
                                         THEN increment_saturating(d.counters[c])
                                         ELSE d.counters[c]],
     words |-> d.words, log |-> d.log, trail |-> d.trail,
     listen_only |-> d.listen_only, pending |-> d.pending]

\* The event log is a ring with its newest event at head.
EmptyLog(slots) == [slots |-> slots, head |-> 0, count |-> 0, history |-> <<>>]

\* The newest LogCapacity elements of a sequence, newest first.
Newest(s) == SubSeq(s, 1, IF Len(s) <= LogCapacity THEN Len(s) ELSE LogCapacity)

MutantHeadForward(log) == (log.head + 1) % LogCapacity

next_head(log) ==
    IF log.count = 0 THEN 0
    ELSE IF log.head = 0 THEN LogCapacity - 1
    ELSE log.head - 1

\* history is what the log should hold.
logged(log, event) ==
    [slots |-> [log.slots EXCEPT ![next_head(log)] = event],
     head |-> next_head(log),
     count |-> IF log.count < LogCapacity THEN log.count + 1 ELSE log.count,
     history |-> Newest(<<event>> \o log.history)]

\* trail is what this call has pushed.
push_event(d, event) ==
    [counters |-> d.counters, words |-> d.words,
     log |-> logged(d.log, event), trail |-> Append(d.trail, event),
     listen_only |-> d.listen_only, pending |-> d.pending]

mbrtu_diagnostics_get_event(log, i) == log.slots[(log.head + i) % LogCapacity]

Flag(present, flag) == IF present THEN {flag} ELSE {}

make_receive_event(d, broadcast, error, overrun) ==
    {"RECEIVE"}
        \cup Flag(broadcast, "BROADCAST")
        \cup Flag(d.listen_only, "LISTEN_ONLY")
        \cup Flag(error, "COMM_ERROR")
        \cup Flag(overrun, "CHARACTER_OVERRUN")

make_send_event(d, code) ==
    {"SEND"}
        \cup Flag(d.listen_only, "LISTEN_ONLY")
        \cup Flag(code \in 1 .. 3, "READ_EXCEPTION")
        \cup Flag(code = 4, "SERVER_ABORT")
        \cup Flag(code \in {5, 6}, "SERVER_BUSY")
        \cup Flag(code = 7, "SERVER_NAK")

note_bus_message(d, broadcast) ==
    push_event(Bump(d, {"message_count"}),
               make_receive_event(d, broadcast, FALSE, FALSE))

note_server_message(d) == Bump(d, {"server_message_count"})

note_normal_completion(d, noResponse, excluded) ==
    push_event(Bump(d, (IF excluded THEN {} ELSE {"event_counter"})
                         \cup Flag(noResponse, "server_no_response_count")),
               make_send_event(d, 0))

MutantBusyNotException(d, code) ==
    push_event(Bump(d, IF code = 6 THEN {"server_busy_count"}
                       ELSE IF code = 7 THEN {"server_nak_count"}
                       ELSE {"bus_exception_error_count"}),
               make_send_event(d, code))

note_exception(d, code) ==
    push_event(Bump(d, {"bus_exception_error_count"}
                         \cup Flag(code = 6, "server_busy_count")
                         \cup Flag(code = 7, "server_nak_count")),
               make_send_event(d, code))

note_communication_error(d, broadcast) ==
    push_event(Bump(d, {"message_count", "bus_communication_error_count"}),
               make_receive_event(d, broadcast, TRUE, FALSE))

note_character_overrun(d, broadcast, addressed) ==
    push_event(Bump(d, {"message_count"}
                         \cup Flag(addressed, "bus_character_overrun_count")),
               make_receive_event(d, broadcast, FALSE, TRUE))

------------------------------------------------------------------------------
(* FC07, FC08, FC0B and FC0C *)

Handled(result, d, code) == [result |-> result, diagnostics |-> d, exception |-> code]

Silent(d) == Handled("NO_RESPONSE", d, 0)

\* A response of len bytes, an error when the caller's buffer is too small.
Respond(d, len, capacity) ==
    IF capacity < len THEN Handled("ERROR", d, 0) ELSE Handled("RESPONSE", d, 0)

make_exception(d, code, capacity) ==
    IF capacity < 2 THEN Handled("ERROR", d, 0) ELSE Handled("RESPONSE", d, code)

\* A request that is not carried out: an exception, nothing to a broadcast.
Refuse(d, broadcast, code, capacity) ==
    IF broadcast THEN Silent(note_normal_completion(d, FALSE, TRUE))
    ELSE make_exception(d, code, capacity)

ZeroCounters == [c \in CounterName |-> 0]

\* What an accepted restart leaves, before its event is pushed.
restarted(d, clearLog) ==
    [counters |-> ZeroCounters, words |-> d.words,
     log |-> IF clearLog THEN EmptyLog(d.log.slots) ELSE d.log,
     trail |-> d.trail, listen_only |-> FALSE,
     pending |-> d.pending \cup {"RESTART"}]

listening(d) ==
    [counters |-> d.counters, words |-> d.words, log |-> d.log, trail |-> d.trail,
     listen_only |-> TRUE, pending |-> d.pending]

entering(d) ==
    [counters |-> d.counters, words |-> d.words, log |-> d.log, trail |-> d.trail,
     listen_only |-> d.listen_only, pending |-> d.pending \cup {"ENTER_LISTEN_ONLY"}]

cleared(d) ==
    [counters |-> ZeroCounters,
     words |-> [d.words EXCEPT !["diagnostic_register"] = 0],
     log |-> d.log, trail |-> d.trail,
     listen_only |-> d.listen_only, pending |-> d.pending]

overrun_cleared(d) ==
    [counters |-> [d.counters EXCEPT !["bus_character_overrun_count"] = 0],
     words |-> d.words, log |-> d.log, trail |-> d.trail,
     listen_only |-> d.listen_only, pending |-> d.pending]

\* The shape of every request but Return Query Data and Restart.
PlainData(q) == q.len = 5 /\ q.data = "0000"

MutantClearsBeforeRoom(d, broadcast, q, allowed, capacity) ==
    LET unanswered == broadcast \/ d.listen_only
        done == push_event(restarted(d, q.data = "FF00"), RestartEvent)
    IN  IF q.len # 5 \/ q.data = "other" THEN Refuse(d, broadcast, 3, capacity)
        ELSE IF ~allowed
        THEN IF unanswered
             THEN Silent(note_normal_completion(d, ~broadcast, TRUE))
             ELSE make_exception(d, 3, capacity)
        ELSE IF unanswered THEN Silent(done)
        ELSE IF capacity < 5
        THEN Handled("ERROR", [d EXCEPT !.counters = ZeroCounters], 0)
        ELSE Handled("RESPONSE", done, 0)

restart_communications(d, broadcast, q, allowed, capacity) ==
    LET unanswered == broadcast \/ d.listen_only
        done == push_event(restarted(d, q.data = "FF00"), RestartEvent)
    IN  IF q.len # 5 \/ q.data = "other" THEN Refuse(d, broadcast, 3, capacity)
        ELSE IF ~allowed
        THEN IF unanswered
             THEN Silent(note_normal_completion(d, ~broadcast, TRUE))
             ELSE make_exception(d, 3, capacity)
        ELSE IF unanswered THEN Silent(done)
        ELSE IF capacity < 5 THEN Handled("ERROR", d, 0)
        ELSE Handled("RESPONSE", done, 0)

force_listen_only(d, broadcast, q, allowed, capacity) ==
    IF ~PlainData(q) \/ ~allowed THEN Refuse(d, broadcast, 3, capacity)
    ELSE Silent(push_event(
                  entering(note_normal_completion(listening(d), ~broadcast, FALSE)),
                  ListenOnlyEvent))

clear_counters_and_register(d, broadcast, q, allowed, capacity) ==
    LET done == note_normal_completion(cleared(d), FALSE, TRUE)
    IN  IF ~PlainData(q) \/ ~allowed THEN Refuse(d, broadcast, 3, capacity)
        ELSE IF broadcast THEN Silent(done)
        ELSE IF capacity < 5 THEN Handled("ERROR", d, 0)
        ELSE Handled("RESPONSE", done, 0)

clear_overrun_counter(d, broadcast, q, allowed, capacity) ==
    IF ~PlainData(q) \/ ~allowed THEN Refuse(d, broadcast, 3, capacity)
    ELSE IF broadcast
    THEN Silent(note_normal_completion(overrun_cleared(d), FALSE, FALSE))
    ELSE IF capacity < 5 THEN Handled("ERROR", d, 0)
    ELSE Handled("RESPONSE", overrun_cleared(d), 0)

\* allowed is what the application's policy callback says of the request.
process_fc08(d, broadcast, q, allowed, capacity) ==
    IF q.len < 3 \/ (q.len - 3) % 2 # 0 THEN Refuse(d, broadcast, 3, capacity)
    ELSE IF d.listen_only /\ q.sub # "RESTART_COMMUNICATIONS" THEN Silent(d)
    ELSE CASE q.sub = "RETURN_QUERY_DATA" ->
                IF broadcast THEN Refuse(d, TRUE, 0, capacity)
                ELSE Respond(d, q.len, capacity)
           [] q.sub = "RETURN_WORD" ->
                IF broadcast \/ ~PlainData(q) THEN Refuse(d, broadcast, 3, capacity)
                ELSE Respond(d, 5, capacity)
           [] q.sub = "RESTART_COMMUNICATIONS" ->
                restart_communications(d, broadcast, q, allowed, capacity)
           [] q.sub = "FORCE_LISTEN_ONLY" ->
                force_listen_only(d, broadcast, q, allowed, capacity)
           [] q.sub = "CLEAR_COUNTERS_AND_REGISTER" ->
                clear_counters_and_register(d, broadcast, q, allowed, capacity)
           [] q.sub = "CLEAR_OVERRUN_COUNTER" ->
                clear_overrun_counter(d, broadcast, q, allowed, capacity)
           [] q.sub = "UNSUPPORTED" -> Refuse(d, broadcast, 1, capacity)

\* The length of the normal response to FC07, FC0B and FC0C.
ReadLength(d, function) ==
    CASE function = "FC07" -> 2
      [] function = "FC0B" -> 5
      [] function = "FC0C" -> 8 + d.log.count

IsRestart(q) == q.function = "FC08" /\ q.sub = "RESTART_COMMUNICATIONS"

mbrtu_diagnostics_process_pdu(d, broadcast, q, allowed, capacity) ==
    IF q.function \notin {"FC07", "FC08", "FC0B", "FC0C"}
    THEN Handled("NOT_HANDLED", d, 0)
    ELSE IF d.listen_only /\ ~(IsRestart(q) /\ q.len >= 3) THEN Silent(d)
    ELSE IF q.function = "FC08"
    THEN process_fc08(d, broadcast, q, allowed, capacity)
    ELSE IF broadcast \/ q.len # 1 THEN Refuse(d, broadcast, 3, capacity)
    ELSE Respond(d, ReadLength(d, q.function), capacity)

------------------------------------------------------------------------------
(* The ADU dispatcher *)

\* What a frame did: its result, and whether the register map was called.
Processed(h, executed) ==
    [result |-> h.result, exception |-> h.exception, executed |-> executed,
     diagnostics |-> h.diagnostics]

\* A response is noted once; Restart and Clear Counters have noted themselves.
MutantNoteTwice(q, h) ==
    IF h.exception # 0 THEN note_exception(h.diagnostics, h.exception)
    ELSE IF IsRestart(q) THEN h.diagnostics
    ELSE note_normal_completion(h.diagnostics, FALSE, q.function \in {"FC0B", "FC0C"})

note_diagnostic_response(q, h) ==
    IF h.exception # 0 THEN note_exception(h.diagnostics, h.exception)
    ELSE IF /\ q.function = "FC08"
            /\ q.sub \in {"RESTART_COMMUNICATIONS", "CLEAR_COUNTERS_AND_REGISTER"}
    THEN h.diagnostics
    ELSE note_normal_completion(h.diagnostics, FALSE, q.function \in {"FC0B", "FC0C"})

note_response(h) ==
    IF h.exception # 0 THEN note_exception(h.diagnostics, h.exception)
    ELSE note_normal_completion(h.diagnostics, FALSE, FALSE)

mbrtu_server_id_process_pdu(d, q, capacity) ==
    IF capacity < 2 THEN Handled("ERROR", d, 0)
    ELSE IF q.len # 1 THEN Handled("RESPONSE", d, 3)
    ELSE IF ~configured THEN Handled("RESPONSE", d, 4)
    ELSE Respond(d, ServerIdLength, capacity)

\* The register map is asked; code is the exception it answers with, or 0.
ordinary_request(d, broadcast, q, capacity, code) ==
    IF broadcast /\ q.function # "WRITE"
    THEN Processed(Silent(note_normal_completion(d, FALSE, TRUE)), FALSE)
    ELSE IF broadcast
    THEN Processed(Silent(note_normal_completion(d, FALSE, code # 0)), TRUE)
    ELSE IF capacity < 2 THEN Processed(Handled("ERROR", d, 0), FALSE)
    ELSE LET h == Handled("RESPONSE", d, code)
         IN  Processed(Handled("RESPONSE", note_response(h), code), TRUE)

server_id_request(d, broadcast, q, capacity) ==
    LET h == mbrtu_server_id_process_pdu(d, q, capacity)
    IN  IF broadcast THEN Processed(Silent(note_normal_completion(d, FALSE, TRUE)), FALSE)
        ELSE IF h.result = "RESPONSE"
        THEN Processed(Handled("RESPONSE", note_response(h), h.exception), FALSE)
        ELSE Processed(h, FALSE)

MutantFilterDiagnostics(d, q) ==
    d.listen_only /\ q.function \in {"FC07", "FC08", "FC0B", "FC0C"}
        /\ ~(q.len >= 5 /\ IsRestart(q))

listen_only_filter(d, q) == d.listen_only /\ ~(q.len >= 5 /\ IsRestart(q))

\* A sound frame for this server, its message already noted.
addressed_request(d, broadcast, q, allowed, capacity, code) ==
    LET h == mbrtu_diagnostics_process_pdu(d, broadcast, q, allowed, capacity)
    IN  IF listen_only_filter(d, q)
        THEN Processed(Silent(note_normal_completion(d, ~broadcast, TRUE)), FALSE)
        ELSE IF h.result = "RESPONSE"
        THEN Processed(Handled("RESPONSE", note_diagnostic_response(q, h), h.exception),
                       FALSE)
        ELSE IF h.result # "NOT_HANDLED" THEN Processed(h, FALSE)
        ELSE IF q.function = "FC11" THEN server_id_request(d, broadcast, q, capacity)
        ELSE ordinary_request(d, broadcast, q, capacity, code)

\* The trail starts anew with every call.
Untrailed ==
    [counters |-> diagnostics.counters, words |-> diagnostics.words,
     log |-> diagnostics.log, trail |-> <<>>,
     listen_only |-> diagnostics.listen_only, pending |-> diagnostics.pending]

\* The call is over: done is what it did with a frame for address.
Ends(address, allowed, done) ==
    /\ diagnostics' = done.diagnostics
    /\ call' = [address |-> address,
                allowed |-> allowed,
                listening |-> diagnostics.listen_only,
                result |-> done.result,
                exception |-> done.exception,
                executed |-> done.executed]
    /\ UNCHANGED configured

mbrtu_process_adu_with_diagnostics(address, q, allowed, capacity, code) ==
    LET noted == note_bus_message(Untrailed, address = "broadcast")
    IN  Ends(address, allowed,
             IF address = "other" THEN Processed(Silent(noted), FALSE)
             ELSE addressed_request(note_server_message(noted),
                                    address = "broadcast", q, allowed, capacity, code))

\* A frame of impossible length or with a wrong CRC, or one that mbrtu_poll
\* drops for an invalid gap.
DamagedFrame(address) ==
    Ends(address, FALSE,
         Processed(Silent(note_communication_error(Untrailed, address = "broadcast")),
                   FALSE))

\* A frame that mbrtu_poll drops because it did not fit the receive buffer.
OverrunFrame(address) ==
    Ends(address, FALSE,
         Processed(Silent(note_character_overrun(Untrailed, address = "broadcast",
                                                 address = "own")),
                   FALSE))

\* The policy callback is consulted for FC08 requests only, the register map for
\* the ordinary ones; what a frame for another server asks makes no difference.
PolicySays(q) == IF q.function = "FC08" THEN BOOLEAN ELSE {FALSE}
MapAnswers(q) == IF q.function \in {"WRITE", "OTHER"} THEN {0} \cup ExceptionCode ELSE {0}
RequestsTo(address) ==
    IF address = "other" THEN {q \in Request : q.function = "OTHER"} ELSE Request

SoundFrame ==
    \E address \in Address, capacity \in PduCapacity :
        \E q \in RequestsTo(address) :
            \E allowed \in PolicySays(q), code \in MapAnswers(q) :
                mbrtu_process_adu_with_diagnostics(address, q, allowed, capacity, code)

UnsoundFrame == \E address \in Address : DamagedFrame(address) \/ OverrunFrame(address)

------------------------------------------------------------------------------
(* What the application calls *)

\* mbrtu_diagnostics_set_exception_status, set_register and
\* set_communication_status.
SetWord(name, value) ==
    /\ diagnostics' = [counters |-> diagnostics.counters,
                       words |-> [diagnostics.words EXCEPT ![name] = value],
                       log |-> diagnostics.log, trail |-> diagnostics.trail,
                       listen_only |-> diagnostics.listen_only,
                       pending |-> diagnostics.pending]
    /\ UNCHANGED <<configured, call>>

mbrtu_diagnostics_take_pending_actions ==
    /\ diagnostics' = [counters |-> diagnostics.counters, words |-> diagnostics.words,
                       log |-> diagnostics.log, trail |-> diagnostics.trail,
                       listen_only |-> diagnostics.listen_only, pending |-> {}]
    /\ UNCHANGED <<configured, call>>

mbrtu_server_id_configure ==
    /\ configured' = TRUE
    /\ UNCHANGED <<diagnostics, call>>

mbrtu_server_id_clear ==
    /\ configured' = FALSE
    /\ UNCHANGED <<diagnostics, call>>

------------------------------------------------------------------------------
(* Specification *)

NoCall ==
    [address |-> "other", allowed |-> FALSE, listening |-> FALSE, result |-> "NONE",
     exception |-> 0, executed |-> FALSE]

\* mbrtu_diagnostics_init
Init ==
    /\ diagnostics = [counters |-> ZeroCounters, words |-> [w \in WordName |-> 0],
                      log |-> EmptyLog([i \in Slot |-> {}]), trail |-> <<>>,
                      listen_only |-> FALSE, pending |-> {}]
    /\ configured = FALSE
    /\ call = NoCall

Next ==
    \/ SoundFrame
    \/ UnsoundFrame
    \/ \E name \in WordName, value \in Word : SetWord(name, value)
    \/ mbrtu_diagnostics_take_pending_actions
    \/ mbrtu_server_id_configure
    \/ mbrtu_server_id_clear

Spec == Init /\ [][Next]_vars

------------------------------------------------------------------------------
(* Properties *)

EventLog ==
    [slots : [Slot -> Event], head : Slot, count : 0 .. LogCapacity,
     history : Seq(Event)]

Diagnostics ==
    [counters : [CounterName -> 0 .. CounterMax], words : [WordName -> Word],
     log : EventLog, trail : Seq(Event), listen_only : BOOLEAN,
     pending : SUBSET PendingAction]

\* The types of the diagnostics object and of the record of the last call.
TypeOK ==
    /\ diagnostics \in Diagnostics
    /\ configured \in BOOLEAN
    /\ call \in [address : Address, allowed : BOOLEAN, listening : BOOLEAN,
                 result : {"NONE", "RESPONSE", "NO_RESPONSE", "ERROR"},
                 exception : Nat, executed : BOOLEAN]

\* "a ring presented newest first.  When full, a new event replaces the oldest
\* event deterministically" (docs/modbus-rtu-diagnostics.md:54): what
\* mbrtu_diagnostics_get_event returns is the list of the last events pushed
\* since the log was cleared, through every wrap, clear and restart.
LogIsHistory ==
    LET log == diagnostics.log
    IN  /\ log.count = Len(log.history)
        /\ \A i \in 0 .. log.count - 1 :
              mbrtu_diagnostics_get_event(log, i) = log.history[i + 1]

\* "Broadcasts never generate a response" (docs/modbus-rtu-diagnostics.md:205),
\* on any of the dispatcher's paths, and not an error either.
BroadcastsUnanswered ==
    call.address = "broadcast" => call.result = "NO_RESPONSE"

\* A frame has been processed: it has left an event at least, and a log of two
\* events or more that has gained one or two is never the same again.
FrameProcessed == call' # call \/ diagnostics'.log # diagnostics.log

\* In listen-only mode nothing is executed; the mode ends with a restart alone,
\* which is not answered, and leaves the counters at zero.  (A malformed restart
\* is the one request that gets an exception.)
ListenOnlyExecutesNothing ==
    [][LET trail == diagnostics'.trail
       IN  FrameProcessed /\ diagnostics.listen_only =>
             /\ ~call'.executed
             /\ call'.result = "RESPONSE" => call'.exception = 3 /\ diagnostics'.listen_only
             /\ ~diagnostics'.listen_only =>
                   /\ call'.result = "NO_RESPONSE"
                   /\ trail[Len(trail)] = RestartEvent
                   /\ diagnostics'.counters = ZeroCounters]_vars

\* "While listen-only is active, all ordinary requests and all diagnostics except
\* Restart Communications Option ... receive no response" and Restart "When
\* received while listen-only, it also produces no response"
\* (docs/modbus-rtu-diagnostics.md:177-182).
ListenOnlySilent == call.listening => call.result # "RESPONSE"

\* Every frame leaves one receive event, and every frame for this server one
\* send or restart event (with the listen-only event after the send event that
\* entered it), although FC08 notes some outcomes itself and the dispatcher the
\* others; only a frame whose processing failed leaves none.
OneEventPerOutcome ==
    [][LET trail == diagnostics'.trail
           unsound == {"COMM_ERROR", "CHARACTER_OVERRUN"} \cap trail[1] # {}
       IN  FrameProcessed =>
             /\ trail # <<>> /\ "RECEIVE" \in trail[1]
             /\ \A i \in 2 .. Len(trail) : "RECEIVE" \notin trail[i]
             /\ Len(trail) =
                   IF call'.address = "other" \/ unsound \/ call'.result = "ERROR" THEN 1
                   ELSE IF trail[Len(trail)] = ListenOnlyEvent THEN 3
                   ELSE 2]_vars

\* The action bits the application has not yet taken tell it the mode: Restart
\* alone means normal operation, Enter Listen Only alone means listen-only.
PendingTellsMode ==
    /\ diagnostics.pending = {"RESTART"} => ~diagnostics.listen_only
    /\ diagnostics.pending = {"ENTER_LISTEN_ONLY"} => diagnostics.listen_only

\* A frame that asks for a change it is not granted changes nothing but the
\* accounting of its reception: no word, mode or pending action, no counter falls,
\* and the log gains the events of this frame and loses none to a clearing.  That
\* is so without the policy's consent ("State-changing FC08 operations are denied
\* unless the caller supplies a policy callback that returns nonzero",
\* docs/modbus-rtu-diagnostics.md:150), when the answer is an exception, and when
\* the request ends in an error because its response has no room: no half-done
\* restart or clear (modbus_rtu_diagnostics.c:244).
RefusedChangesNothing ==
    [][LET failed == call'.result = "ERROR"
           refused == failed \/ ~call'.allowed \/ call'.exception # 0
           grown == diagnostics.log.count + Len(diagnostics'.trail)
       IN  FrameProcessed =>
             /\ refused =>
                  /\ diagnostics'.words = diagnostics.words
                  /\ diagnostics'.listen_only = diagnostics.listen_only
                  /\ diagnostics'.pending = diagnostics.pending
                  /\ diagnostics'.log.count = IF grown <= LogCapacity THEN grown
                                              ELSE LogCapacity
                  /\ \A c \in CounterName :
                        diagnostics'.counters[c] >= diagnostics.counters[c]
             /\ failed => Len(diagnostics'.trail) = 1 /\ ~call'.executed]_vars

\* While the message counter has not saturated the counters nest: messages for
\* the server, communication errors and overruns are messages; completions and
\* exceptions are messages for the server; busy and NAK answers are exceptions.
\* Clearing must reset them together, and saturate none before the others.
CountersNest ==
    LET C == diagnostics.counters
    IN  C["message_count"] < CounterMax =>
          /\ C["server_message_count"] + C["bus_communication_error_count"]
                + C["bus_character_overrun_count"] <= C["message_count"]
          /\ C["event_counter"] + C["bus_exception_error_count"]
                <= C["server_message_count"]
          /\ C["server_no_response_count"] + C["bus_exception_error_count"]
                <= C["server_message_count"]
          /\ C["server_busy_count"] + C["server_nak_count"]
                <= C["bus_exception_error_count"]
==============================================================================
