-------------------------- MODULE MasterTransaction --------------------------
(***************************************************************************)
(* The RTU master transaction engine                                       *)
(* (App/src/modbus_rtu_master_transaction.c) between an application, a     *)
(* transport and the line.  Every API call is one step: the engine runs in *)
(* one context.  The clock is the caller's 32-bit tick count; it wraps at  *)
(* 2 * HalfRange.  The transport holds up to TransportDepth accepted ADUs  *)
(* and reports each of them once, in order.                                *)
(***************************************************************************)
EXTENDS Integers, Sequences

CONSTANTS
    MaxRetries,            \* config.max_retries
    ResponseTimeout,       \* config.response_timeout_ticks
    RetryDelay,            \* config.retry_delay_ticks
    RetryTransportErrors,  \* config.retry_transport_errors
    HalfRange,             \* 2^31, half the range of the tick counter
    PollLatency,           \* ticks by which the main loop polls late, at most
    TransportDepth,        \* ADUs the transport holds
    CounterMax             \* UINT32_MAX, where a diagnostic counter stops

\* What mbrtum_transaction_init accepts, and a main loop that polls at least
\* once in half the range of the clock.
ASSUME TransactionAssumption ==
    /\ MaxRetries \in Nat
    /\ HalfRange \in Nat \ {0}
    /\ ResponseTimeout \in 1 .. HalfRange - 1
    /\ RetryDelay \in 0 .. HalfRange - 1
    /\ RetryTransportErrors \in BOOLEAN
    /\ PollLatency \in 0 .. HalfRange - 1
    /\ TransportDepth \in Nat \ {0}
    /\ CounterMax \in Nat

VARIABLES
    state,               \* transaction->state
    result,              \* transaction->result
    expects_response,    \* transaction->request.expects_response
    retries_used,        \* transaction->retries_used
    deadline,            \* transaction->deadline
    saw_response_error,  \* transaction->saw_response_error
    response_adu,        \* what the stored response is, "none" when cleared
    protocol_result,     \* transaction->protocol_result
    diagnostics,         \* transaction->diagnostics
    now,                 \* the caller's clock
    outgoing,            \* transport: accepted ADUs it has not yet reported
    elapsed,             \* history: ticks since deadline was set
    tries,               \* history: transmissions begun for this request
    malformedIn          \* history: the tries a malformed frame came after

request == <<expects_response, retries_used>>
response == <<saw_response_error, response_adu, protocol_result>>
vars == <<state, result, expects_response, retries_used, deadline,
          saw_response_error, response_adu, protocol_result, diagnostics,
          now, outgoing, elapsed, tries, malformedIn>>

State == {"IDLE", "TRANSMITTING", "WAITING_RESPONSE", "RETRY_DELAY",
          "COMPLETE", "FAILED", "CANCELLED"}
TxnResult == {"NONE", "SUCCESS", "MODBUS_EXCEPTION", "TIMEOUT",
              "TRANSPORT_ERROR", "RESPONSE_ERROR", "CANCELLED"}

\* What mbrtum_process_response_with_request_adu can say of a stored frame.
Verdict == {"OK", "EXCEPTION", "UNRELATED", "MALFORMED"}

DiagName ==
    {"transactions_started", "successful_transactions", "exception_responses",
     "transmission_attempts", "retries_performed", "timeouts",
     "transport_errors", "malformed_responses", "unrelated_responses",
     "late_responses", "cancelled_transactions"}

ClockModulus == 2 * HalfRange
Clock == 0 .. ClockModulus - 1

------------------------------------------------------------------------------
(* Helpers *)

increment_saturating(n) == IF n < CounterMax THEN n + 1 ELSE n

Count(names) ==
    diagnostics' = [d \in DiagName |-> IF d \in names
                                       THEN increment_saturating(diagnostics[d])
                                       ELSE diagnostics[d]]

\* (int32_t)(now - deadline) >= 0
MutantPlainCompare(t, d) == t >= d

deadline_reached(t, d) == (t - d) % ClockModulus < HalfRange

state_is_active(s) == s \in {"TRANSMITTING", "WAITING_RESPONSE", "RETRY_DELAY"}

\* A state with a deadline is entered: the deadline lies d ticks ahead.
SetDeadline(d) ==
    /\ deadline' = (now + d) % ClockModulus
    /\ elapsed' = 0

finish(s, r) ==
    /\ state' = s
    /\ result' = r
    /\ elapsed' = 0
    /\ UNCHANGED deadline

\* used is transaction->retries_used, r transaction->result before the call;
\* events are the diagnostics counted on the way here.
MutantLastRetryLost(used) == used + 1 < MaxRetries

CanRetry(used) == used < MaxRetries

schedule_retry_or_finish(used, r, final, events) ==
    IF CanRetry(used)
    THEN /\ retries_used' = used + 1
         /\ SetDeadline(RetryDelay)
         /\ state' = "RETRY_DELAY"
         /\ result' = r
         /\ Count(events \cup {"retries_performed"})
    ELSE /\ retries_used' = used
         /\ finish("FAILED", final)
         /\ Count(events)

\* A transport failure is retried only when the configuration says so.
MutantFailureUncounted(used, r, events) ==
    schedule_retry_or_finish(used, r, "TRANSPORT_ERROR", events)

transport_failed(used, r, events) ==
    IF RetryTransportErrors
    THEN schedule_retry_or_finish(used, r, "TRANSPORT_ERROR",
                                  events \cup {"transport_errors"})
    ELSE /\ retries_used' = used
         /\ finish("FAILED", "TRANSPORT_ERROR")
         /\ Count(events \cup {"transport_errors"})

timeout_result == IF saw_response_error THEN "RESPONSE_ERROR" ELSE "TIMEOUT"

handle_response_timeout(events) ==
    schedule_retry_or_finish(retries_used, result, timeout_result,
                             events \cup {"timeouts"})

\* No response belongs to the coming attempt yet.
MutantKeepErrorFlag ==
    /\ response_adu' = "NONE"
    /\ protocol_result' = "NONE"
    /\ UNCHANGED saw_response_error

clear_response ==
    /\ response_adu' = "NONE"
    /\ protocol_result' = "NONE"
    /\ saw_response_error' = FALSE

\* The ADUs the transport still holds once another transmission begins.
Older == [i \in DOMAIN outgoing |-> "older"]

begin_transmit(used, r, events) ==
    /\ clear_response
    /\ \/ /\ Len(outgoing) < TransportDepth
          /\ outgoing' = Append(Older, "current")
          /\ state' = "TRANSMITTING"
          /\ result' = r
          /\ retries_used' = used
          /\ elapsed' = 0
          /\ Count(events \cup {"transmission_attempts"})
          /\ UNCHANGED deadline
       \/ /\ outgoing' = Older
          /\ transport_failed(used, r, events \cup {"transmission_attempts"})

------------------------------------------------------------------------------
(* The API *)

\* A start that is refused (busy, or a request that does not match its ADU)
\* changes nothing.
mbrtum_transaction_start ==
    /\ ~state_is_active(state)
    /\ expects_response' \in BOOLEAN
    /\ begin_transmit(0, "NONE", {"transactions_started"})
    /\ tries' = 1
    /\ malformedIn' = {}
    /\ UNCHANGED now

PollRetry ==
    /\ state = "RETRY_DELAY"
    /\ deadline_reached(now, deadline)
    /\ begin_transmit(retries_used, result, {})
    /\ tries' = tries + 1
    /\ UNCHANGED <<expects_response, now, malformedIn>>

PollTimeout ==
    /\ state = "WAITING_RESPONSE"
    /\ deadline_reached(now, deadline)
    /\ handle_response_timeout({})
    /\ UNCHANGED <<expects_response, response, now, outgoing, tries, malformedIn>>

mbrtum_transaction_poll == PollRetry \/ PollTimeout

\* The transport reports the ADU at its head; outside TRANSMITTING the engine
\* refuses the event.
TransmissionDone ==
    IF ~expects_response
    THEN /\ finish("COMPLETE", "SUCCESS")
         /\ Count({"successful_transactions"})
    ELSE /\ SetDeadline(ResponseTimeout)
         /\ state' = "WAITING_RESPONSE"
         /\ UNCHANGED <<result, diagnostics>>

mbrtum_transaction_on_tx_complete ==
    /\ outgoing # <<>>
    /\ outgoing' = Tail(outgoing)
    /\ IF state = "TRANSMITTING"
       THEN TransmissionDone
       ELSE UNCHANGED <<state, result, deadline, elapsed, diagnostics>>
    /\ UNCHANGED <<request, response, now, tries, malformedIn>>

mbrtum_transaction_on_tx_error ==
    /\ outgoing # <<>>
    /\ outgoing' = Tail(outgoing)
    /\ IF state = "TRANSMITTING"
       THEN transport_failed(retries_used, result, {})
       ELSE UNCHANGED <<state, result, retries_used, deadline, elapsed, diagnostics>>
    /\ UNCHANGED <<expects_response, response, now, tries, malformedIn>>

\* A frame handed over at or after the deadline.
LateResponse ==
    /\ deadline_reached(now, deadline)
    /\ handle_response_timeout({"late_responses"})
    /\ UNCHANGED <<response, malformedIn>>

\* A frame of no possible length is not even stored.
BadLength ==
    /\ ~deadline_reached(now, deadline)
    /\ protocol_result' = "MALFORMED"
    /\ saw_response_error' = TRUE
    /\ malformedIn' = malformedIn \cup {tries}
    /\ Count({"malformed_responses"})
    /\ UNCHANGED <<state, result, retries_used, deadline, elapsed, response_adu>>

\* A stored frame completes the transaction, or is counted and ignored.
FrameIgnored(v) ==
    /\ UNCHANGED <<state, result, deadline, elapsed>>
    /\ IF v = "UNRELATED"
       THEN /\ Count({"unrelated_responses"})
            /\ UNCHANGED <<saw_response_error, malformedIn>>
       ELSE /\ Count({"malformed_responses"})
            /\ saw_response_error' = TRUE
            /\ malformedIn' = malformedIn \cup {tries}

FrameCompletes(v) ==
    /\ finish("COMPLETE", IF v = "OK" THEN "SUCCESS" ELSE "MODBUS_EXCEPTION")
    /\ Count({IF v = "OK" THEN "successful_transactions" ELSE "exception_responses"})
    /\ UNCHANGED <<saw_response_error, malformedIn>>

MutantStoredLate(v) ==
    /\ response_adu' = v
    /\ protocol_result' = v
    /\ IF v \in {"OK", "EXCEPTION"} THEN FrameCompletes(v) ELSE FrameIgnored(v)
    /\ UNCHANGED retries_used

StoredResponse(v) ==
    /\ ~deadline_reached(now, deadline)
    /\ response_adu' = v
    /\ protocol_result' = v
    /\ IF v \in {"OK", "EXCEPTION"} THEN FrameCompletes(v) ELSE FrameIgnored(v)
    /\ UNCHANGED retries_used

mbrtum_transaction_on_response ==
    /\ state = "WAITING_RESPONSE"
    /\ LateResponse \/ BadLength \/ \E v \in Verdict : StoredResponse(v)
    /\ UNCHANGED <<expects_response, now, outgoing, tries>>

mbrtum_transaction_cancel ==
    /\ state_is_active(state)
    /\ finish("CANCELLED", "CANCELLED")
    /\ Count({"cancelled_transactions"})
    /\ UNCHANGED <<request, response, now, outgoing, tries, malformedIn>>

------------------------------------------------------------------------------
(* Specification *)

Timed == state \in {"WAITING_RESPONSE", "RETRY_DELAY"}
Duration == IF state = "WAITING_RESPONSE" THEN ResponseTimeout ELSE RetryDelay

\* The clock runs on; past a deadline the main loop polls in time.
Tick ==
    /\ Timed => elapsed < Duration + PollLatency
    /\ now' = (now + 1) % ClockModulus
    /\ elapsed' = IF Timed THEN elapsed + 1 ELSE elapsed
    /\ UNCHANGED <<state, result, request, deadline, response, diagnostics,
                   outgoing, tries, malformedIn>>

\* mbrtum_transaction_init, at any time of the caller's clock.
Init ==
    /\ state = "IDLE"
    /\ result = "NONE"
    /\ expects_response = FALSE
    /\ retries_used = 0
    /\ deadline = 0
    /\ saw_response_error = FALSE
    /\ response_adu = "NONE"
    /\ protocol_result = "NONE"
    /\ diagnostics = [d \in DiagName |-> 0]
    /\ now \in Clock
    /\ outgoing = <<>>
    /\ elapsed = 0
    /\ tries = 0
    /\ malformedIn = {}

TransportReports == mbrtum_transaction_on_tx_complete \/ mbrtum_transaction_on_tx_error

Next ==
    \/ mbrtum_transaction_start
    \/ mbrtum_transaction_poll
    \/ TransportReports
    \/ mbrtum_transaction_on_response
    \/ mbrtum_transaction_cancel
    \/ Tick

Spec == Init /\ [][Next]_vars

------------------------------------------------------------------------------
(* Properties *)

\* The types of the transaction, of the transport and of the histories.
TypeOK ==
    /\ state \in State
    /\ result \in TxnResult
    /\ expects_response \in BOOLEAN
    /\ retries_used \in 0 .. MaxRetries
    /\ deadline \in Clock
    /\ saw_response_error \in BOOLEAN
    /\ response_adu \in Verdict \cup {"NONE"}
    /\ protocol_result \in Verdict \cup {"NONE"}
    /\ diagnostics \in [DiagName -> 0 .. CounterMax]
    /\ now \in Clock
    /\ outgoing \in Seq({"current", "older"})
    /\ Len(outgoing) <= TransportDepth
    /\ elapsed \in Nat
    /\ tries \in 0 .. MaxRetries + 1
    /\ malformedIn \subseteq 1 .. MaxRetries + 1

\* "deadline comparisons remain valid across one 32-bit counter wrap"
\* (docs/modbus-rtu-master-transaction.md:29): the signed comparison of the
\* wrapping clock says that a deadline is reached exactly when its duration has
\* really passed, wherever the clock stood when the deadline was set.
DeadlineExact ==
    Timed => (deadline_reached(now, deadline) <=> elapsed >= Duration)

\* "two means up to three total transmissions": a request is transmitted once
\* and once more for every retry used, never more than MaxRetries + 1 times, and
\* given up for want of a good response only when that many were made.
RetryBudget ==
    /\ tries <= MaxRetries + 1
    /\ state \in {"TRANSMITTING", "WAITING_RESPONSE", "COMPLETE", "FAILED"} =>
          tries = retries_used + 1
    /\ state = "RETRY_DELAY" => tries = retries_used
    /\ state = "FAILED" /\ result \in {"TIMEOUT", "RESPONSE_ERROR"} =>
          tries = MaxRetries + 1

\* The result is the story of the last attempt: RESPONSE_ERROR if and only if a
\* malformed frame came in that attempt (not in an earlier one), SUCCESS and
\* MODBUS_EXCEPTION only with the stored frame that says so, and no result
\* before the end.
ResultTellsTheStory ==
    /\ result = "TIMEOUT" => tries \notin malformedIn
    /\ result = "RESPONSE_ERROR" => tries \in malformedIn
    /\ result = "SUCCESS" => response_adu = IF expects_response THEN "OK" ELSE "NONE"
    /\ result = "MODBUS_EXCEPTION" => response_adu = "EXCEPTION"
    /\ result = "NONE" <=> state_is_active(state) \/ state = "IDLE"

\* "A frame submitted at or after the response deadline is counted as late and
\* is not accepted as a successful response": a response completes a transaction
\* only while less than the timeout has passed since the transmission.
LateNeverCompletes ==
    [][state = "WAITING_RESPONSE" /\ state' = "COMPLETE" => elapsed < ResponseTimeout]_vars

\* What the application reads of a finished transaction stays as it is, late
\* frames and transport events notwithstanding, until the next start.
FinishedIsFinal ==
    [][~state_is_active(state) =>
          \/ UNCHANGED <<state, result, request, response, diagnostics>>
          \/ tries' = 1 /\ malformedIn' = {}]_vars

\* "WAITING_RESPONSE: transmission completed and the response deadline is
\* active" (docs/modbus-rtu-master-transaction.md:15): while the engine waits
\* for the response, the transport no longer holds the request.
WaitingMeansTransmitted ==
    state = "WAITING_RESPONSE" =>
        /\ expects_response
        /\ \A i \in DOMAIN outgoing : outgoing[i] # "current"

\* While no counter has saturated they balance: every started transaction is
\* active, succeeded, answered with an exception, cancelled, or failed; every
\* timeout or transport error was retried or failed a transaction; and every
\* transmission is a first one or a retry (a cancelled delay leaves one undone).
DiagnosticsBalance ==
    LET D == diagnostics
        failed == D["timeouts"] + D["transport_errors"] - D["retries_performed"]
        active == IF state_is_active(state) THEN 1 ELSE 0
        delayed == IF state = "RETRY_DELAY" THEN 1 ELSE 0
        due == D["transactions_started"] + D["retries_performed"]
    IN  (\A d \in DiagName : D[d] < CounterMax) =>
          /\ D["transactions_started"] =
                active + D["successful_transactions"] + D["exception_responses"]
                  + D["cancelled_transactions"] + failed
          /\ D["transmission_attempts"] + delayed <= due
          /\ due <= D["transmission_attempts"] + delayed + D["cancelled_transactions"]
          /\ D["late_responses"] <= D["timeouts"]

==============================================================================
