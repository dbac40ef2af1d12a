----------------------- MODULE MasterTransactionProofs -----------------------
(***************************************************************************)
(* Proofs about MasterTransaction for every retry budget, timeout, delay,  *)
(* clock width and polling latency.                                        *)
(***************************************************************************)
EXTENDS MasterTransaction, ModularArithmetic

------------------------------------------------------------------------------
(* The wrapping clock *)

\* The wrapping difference of the clock and the deadline is the difference of
\* the time that has passed and the duration, and polling is never so late that
\* this difference leaves half the range.
TimeInv ==
    Timed => /\ elapsed \in 0 .. Duration + PollLatency
             /\ (now - deadline) % ClockModulus = (elapsed - Duration) % ClockModulus

LEMMA ModulusType == ClockModulus \in Nat \ {0} /\ HalfRange < ClockModulus
BY TransactionAssumption DEF ClockModulus

LEMMA ClockType ==
    ASSUME NEW t \in Int
    PROVE  t % ClockModulus \in Clock
BY ModulusType DEF Clock

LEMMA DurationType == Duration \in 0 .. HalfRange - 1
BY TransactionAssumption DEF Duration

\* A deadline that was just set lies its duration ahead.
LEMMA FreshDeadline ==
    ASSUME NEW t \in Clock, NEW d \in Nat
    PROVE  (t - ((t + d) % ClockModulus)) % ClockModulus = (0 - d) % ClockModulus
<1>1. t \in Int /\ t + d \in Int /\ t - (t + d) = 0 - d
  BY ModulusType DEF Clock
<1>2. (t - ((t + d) % ClockModulus)) % ClockModulus = (t - (t + d)) % ClockModulus
  BY <1>1, ModSub, ModulusType, Zenon
<1> QED
  BY <1>1, <1>2, Zenon

\* One tick moves the wrapping difference by one.
LEMMA TickDifference ==
    ASSUME NEW t \in Clock, NEW d \in Clock, NEW x \in Int,
           (t - d) % ClockModulus = x % ClockModulus
    PROVE  (((t + 1) % ClockModulus) - d) % ClockModulus = (x + 1) % ClockModulus
<1> DEFINE m == ClockModulus
<1>1. /\ t + 1 \in Int /\ -d \in Int /\ t - d \in Int /\ 1 \in Int
      /\ (t + 1) + (-d) = (t - d) + 1
      /\ ((t + 1) % m) - d = ((t + 1) % m) + (-d)
  BY ModulusType DEF Clock
<1>2. (((t + 1) % m) + (-d)) % m = ((t + 1) + (-d)) % m
  BY <1>1, ModAdd, ModulusType, Zenon
<1>3. ((t - d) + 1) % m = (((t - d) % m) + 1) % m
  BY <1>1, ModAdd, ModulusType, Zenon
<1>4. ((x % m) + 1) % m = (x + 1) % m
  BY <1>1, ModAdd, ModulusType, Zenon
<1> QED
  BY <1>1, <1>2, <1>3, <1>4, Zenon

\* The signed comparison is exact within half the range.
LEMMA ExactFromTimeInv == TimeInv => DeadlineExact
<1> SUFFICES ASSUME TimeInv, Timed
             PROVE  deadline_reached(now, deadline) <=> elapsed >= Duration
  BY DEF DeadlineExact
<1> DEFINE x == elapsed - Duration
<1>1. /\ x \in Int /\ -ClockModulus <= x /\ x < ClockModulus
      /\ -(HalfRange - 1) <= x /\ x < HalfRange
      /\ elapsed \in Nat /\ Duration \in Nat
  BY DurationType, TransactionAssumption DEF TimeInv, ClockModulus
<1>2. x % ClockModulus = IF x >= 0 THEN x ELSE x + ClockModulus
  BY <1>1, ModNear, ModulusType
<1>3. (now - deadline) % ClockModulus = x % ClockModulus
  BY DEF TimeInv
<1> HIDE DEF x
<1>4. (x % ClockModulus < HalfRange) <=> x >= 0
  BY <1>1, <1>2, TransactionAssumption DEF ClockModulus
<1> QED
  BY <1>1, <1>3, <1>4 DEF deadline_reached, x
------------------------------------------------------------------------------
(* What the helpers do *)

LEMMA CountType ==
    ASSUME diagnostics \in [DiagName -> 0 .. CounterMax], NEW names, Count(names)
    PROVE  diagnostics' \in [DiagName -> 0 .. CounterMax]
<1>1. \A d \in DiagName : /\ diagnostics[d] \in 0 .. CounterMax
                          /\ increment_saturating(diagnostics[d]) \in 0 .. CounterMax
  BY TransactionAssumption DEF increment_saturating
<1> QED
  BY <1>1 DEF Count

LEMMA SetDeadlineFresh ==
    ASSUME TypeOK, NEW d \in Nat, SetDeadline(d)
    PROVE  /\ deadline' \in Clock
           /\ elapsed' = 0
           /\ (now - deadline') % ClockModulus = (0 - d) % ClockModulus
<1>1. now \in Clock /\ now + d \in Int
  BY ModulusType DEF TypeOK, Clock
<1> QED
  BY <1>1, FreshDeadline, ClockType DEF SetDeadline

\* The state is RETRY_DELAY with a fresh deadline and one more retry used.
Rescheduled(used, r) ==
    /\ state' = "RETRY_DELAY"
    /\ result' = r
    /\ used < MaxRetries
    /\ retries_used' = used + 1
    /\ (now - deadline') % ClockModulus = (0 - RetryDelay) % ClockModulus

GivenUp(used, final) ==
    /\ state' = "FAILED"
    /\ result' = final
    /\ retries_used' = used

Settled ==
    /\ deadline' \in Clock
    /\ elapsed' = 0
    /\ diagnostics' \in [DiagName -> 0 .. CounterMax]

LEMMA ScheduleOutcome ==
    ASSUME TypeOK, NEW used \in 0 .. MaxRetries, NEW r, NEW final, NEW events,
           schedule_retry_or_finish(used, r, final, events)
    PROVE  /\ Settled
           /\ \/ Rescheduled(used, r)
              \/ GivenUp(used, final) /\ used = MaxRetries
<1>1. diagnostics' \in [DiagName -> 0 .. CounterMax]
  BY CountType DEF schedule_retry_or_finish, TypeOK
<1>2. CASE CanRetry(used)
  <2>1. SetDeadline(RetryDelay) /\ RetryDelay \in Nat
    BY <1>2, TransactionAssumption DEF schedule_retry_or_finish
  <2> QED
    BY <1>1, <1>2, <2>1, SetDeadlineFresh
    DEF schedule_retry_or_finish, Settled, Rescheduled, CanRetry
<1>3. CASE ~CanRetry(used)
  BY <1>1, <1>3, TransactionAssumption
  DEF schedule_retry_or_finish, finish, Settled, GivenUp, CanRetry, TypeOK
<1> QED
  BY <1>2, <1>3

LEMMA TransportFailedOutcome ==
    ASSUME TypeOK, NEW used \in 0 .. MaxRetries, NEW r, NEW events,
           transport_failed(used, r, events)
    PROVE  /\ Settled
           /\ Rescheduled(used, r) \/ GivenUp(used, "TRANSPORT_ERROR")
<1>1. CASE RetryTransportErrors
  BY <1>1, ScheduleOutcome DEF transport_failed
<1>2. CASE ~RetryTransportErrors
  BY <1>2, CountType DEF transport_failed, finish, Settled, GivenUp, TypeOK
<1> QED
  BY <1>1, <1>2

\* The transmission is under way, or the transport refused it.
LEMMA BeginTransmitOutcome ==
    ASSUME TypeOK, NEW used \in 0 .. MaxRetries, NEW r, NEW events,
           begin_transmit(used, r, events)
    PROVE  /\ Settled
           /\ saw_response_error' = FALSE
           /\ response_adu' = "NONE"
           /\ protocol_result' = "NONE"
           /\ outgoing' \in Seq({"current", "older"})
           /\ Len(outgoing') <= TransportDepth
           /\ \/ state' = "TRANSMITTING" /\ result' = r /\ retries_used' = used
              \/ Rescheduled(used, r)
              \/ GivenUp(used, "TRANSPORT_ERROR")
<1>1. /\ Older \in Seq({"current", "older"})
      /\ Len(Older) = Len(outgoing)
      /\ Len(outgoing) \in Nat
  BY DEF Older, TypeOK
<1>2. /\ Append(Older, "current") \in Seq({"current", "older"})
      /\ Len(Append(Older, "current")) = Len(outgoing) + 1
  BY <1>1
<1>3. /\ saw_response_error' = FALSE
      /\ response_adu' = "NONE"
      /\ protocol_result' = "NONE"
  BY DEF begin_transmit, clear_response
<1>4. CASE /\ Len(outgoing) < TransportDepth
           /\ outgoing' = Append(Older, "current")
           /\ state' = "TRANSMITTING"
           /\ result' = r
           /\ retries_used' = used
           /\ elapsed' = 0
           /\ Count(events \cup {"transmission_attempts"})
           /\ UNCHANGED deadline
  <2>1. Settled
    BY <1>4, CountType DEF Settled, TypeOK
  <2>2. Len(outgoing) + 1 <= TransportDepth
    BY <1>1, <1>4, TransactionAssumption
  <2> QED
    BY <1>2, <1>3, <1>4, <2>1, <2>2
<1>5. CASE /\ outgoing' = Older
           /\ transport_failed(used, r, events \cup {"transmission_attempts"})
  <2>1. Len(outgoing') <= TransportDepth
    BY <1>1, <1>5 DEF TypeOK
  <2> QED
    BY <1>1, <1>3, <1>5, <2>1, TransportFailedOutcome
<1> QED
  BY <1>4, <1>5 DEF begin_transmit
------------------------------------------------------------------------------
(* The inductive invariant *)

\* The error flag belongs to the current attempt, and no frame has been stored
\* for an attempt that is still being transmitted.
AttemptInv ==
    /\ malformedIn \subseteq 1 .. tries
    /\ state = "TRANSMITTING" => response_adu = "NONE" /\ tries \notin malformedIn
                                   /\ ~saw_response_error
    /\ state = "WAITING_RESPONSE" =>
          /\ saw_response_error <=> tries \in malformedIn
          /\ expects_response
    /\ state = "IDLE" => tries = 0

TxnInv ==
    /\ TypeOK
    /\ TimeInv
    /\ RetryBudget
    /\ AttemptInv
    /\ ResultTellsTheStory

\* The invariant depends on the transport only through the length of its queue.
LEMMA NothingElseInv ==
    ASSUME TxnInv, outgoing' \in Seq({"current", "older"}), Len(outgoing') <= TransportDepth,
           UNCHANGED <<state, result, expects_response, retries_used, deadline,
                       saw_response_error, response_adu, protocol_result, diagnostics,
                       now, elapsed, tries, malformedIn>>
    PROVE  TxnInv'
<1>1. TypeOK'
  BY DEF TxnInv, TypeOK
<1>2. TimeInv'
  BY DEF TxnInv, TimeInv, Timed, Duration
<1>3. RetryBudget'
  BY DEF TxnInv, RetryBudget
<1>4. AttemptInv'
  BY DEF TxnInv, AttemptInv
<1>5. ResultTellsTheStory'
  BY DEF TxnInv, ResultTellsTheStory, state_is_active
<1> QED
  BY <1>1, <1>2, <1>3, <1>4, <1>5 DEF TxnInv

LEMMA TxnInit == Init => TxnInv
<1> SUFFICES ASSUME Init PROVE TxnInv
  OBVIOUS
<1>1. TypeOK
  <2>1. outgoing \in Seq({"current", "older"}) /\ Len(outgoing) <= TransportDepth
    BY TransactionAssumption DEF Init
  <2>2. /\ diagnostics \in [DiagName -> 0 .. CounterMax]
        /\ retries_used \in 0 .. MaxRetries
        /\ elapsed \in Nat /\ tries \in 0 .. MaxRetries + 1
        /\ malformedIn \subseteq 1 .. MaxRetries + 1
    BY TransactionAssumption DEF Init
  <2>3. deadline \in Clock /\ now \in Clock
    BY ModulusType DEF Init, Clock
  <2> QED
    BY <2>1, <2>2, <2>3 DEF Init, TypeOK, State, TxnResult
<1> QED
  BY <1>1, TransactionAssumption
  DEF Init, TxnInv, TimeInv, Timed, RetryBudget, AttemptInv, ResultTellsTheStory,
      state_is_active

\* How a call to begin_transmit leaves the invariant, for the request's first
\* transmission (used = 0, t = 1) and for a retry.
LEMMA BeginInv ==
    ASSUME TypeOK, NEW used \in 0 .. MaxRetries, NEW t, t = used + 1,
           NEW events, begin_transmit(used, "NONE", events),
           tries' = t, malformedIn' \subseteq 1 .. used,
           expects_response' \in BOOLEAN, now' = now
    PROVE  TxnInv'
<1>1. /\ Settled
      /\ saw_response_error' = FALSE
      /\ response_adu' = "NONE"
      /\ protocol_result' = "NONE"
      /\ outgoing' \in Seq({"current", "older"})
      /\ Len(outgoing') <= TransportDepth
      /\ \/ state' = "TRANSMITTING" /\ result' = "NONE" /\ retries_used' = used
         \/ Rescheduled(used, "NONE")
         \/ GivenUp(used, "TRANSPORT_ERROR")
  BY BeginTransmitOutcome
<1>2. /\ state' \in {"TRANSMITTING", "RETRY_DELAY", "FAILED"}
      /\ result' = IF state' = "FAILED" THEN "TRANSPORT_ERROR" ELSE "NONE"
      /\ retries_used' = IF state' = "RETRY_DELAY" THEN used + 1 ELSE used
      /\ retries_used' \in 0 .. MaxRetries
  BY <1>1, TransactionAssumption DEF Rescheduled, GivenUp
<1>3. /\ tries' \in 1 .. MaxRetries + 1
      /\ tries' = used + 1
      /\ tries' \notin malformedIn'
      /\ malformedIn' \subseteq 1 .. tries'
      /\ malformedIn' \subseteq 1 .. MaxRetries + 1
  BY TransactionAssumption
<1>4. TypeOK'
  <2>1. /\ state' \in State /\ result' \in TxnResult
        /\ response_adu' \in Verdict \cup {"NONE"}
        /\ protocol_result' \in Verdict \cup {"NONE"}
        /\ saw_response_error' \in BOOLEAN
    BY <1>1, <1>2 DEF State, TxnResult
  <2>2. deadline' \in Clock /\ now' \in Clock /\ elapsed' \in Nat
    BY <1>1 DEF Settled, TypeOK
  <2>3. diagnostics' \in [DiagName -> 0 .. CounterMax]
    BY <1>1 DEF Settled
  <2>4. tries' \in 0 .. MaxRetries + 1
    BY <1>3
  <2> QED
    BY <1>1, <1>2, <1>3, <2>1, <2>2, <2>3, <2>4 DEF TypeOK
<1>5. TimeInv'
  BY <1>1, <1>2, TransactionAssumption
  DEF Settled, Rescheduled, GivenUp, TimeInv, Timed, Duration
<1>6. RetryBudget'
  BY <1>2, <1>3, TransactionAssumption DEF RetryBudget
<1>7. AttemptInv' /\ ResultTellsTheStory'
  BY <1>1, <1>2, <1>3 DEF AttemptInv, ResultTellsTheStory, state_is_active
<1> QED
  BY <1>4, <1>5, <1>6, <1>7 DEF TxnInv

LEMMA StartInv ==
    ASSUME TxnInv, mbrtum_transaction_start
    PROVE  TxnInv'
BY BeginInv, TransactionAssumption DEF TxnInv, mbrtum_transaction_start

LEMMA PollRetryInv ==
    ASSUME TxnInv, PollRetry
    PROVE  TxnInv'
<1>1. /\ TypeOK
      /\ tries = retries_used /\ retries_used \in 0 .. MaxRetries
      /\ tries' = retries_used + 1
      /\ malformedIn' \subseteq 1 .. retries_used
      /\ expects_response' \in BOOLEAN /\ now' = now
  BY DEF TxnInv, TypeOK, PollRetry, RetryBudget, AttemptInv
<1>2. begin_transmit(retries_used, "NONE", {})
  BY DEF TxnInv, PollRetry, ResultTellsTheStory, state_is_active
<1> QED
  BY <1>1, <1>2, BeginInv
\* A failure of the current attempt, with the result it would have.
LEMMA AttemptFailsInv ==
    ASSUME TxnInv, state \in {"TRANSMITTING", "WAITING_RESPONSE"}, NEW final \in TxnResult,
           Settled,
           \/ Rescheduled(retries_used, result)
           \/ GivenUp(retries_used, final),
           state' = "FAILED" /\ final # "TRANSPORT_ERROR" =>
              /\ retries_used = MaxRetries
              /\ final = IF tries \in malformedIn THEN "RESPONSE_ERROR" ELSE "TIMEOUT",
           outgoing' \in Seq({"current", "older"}), Len(outgoing') <= TransportDepth,
           UNCHANGED <<expects_response, response, now, tries, malformedIn>>
    PROVE  TxnInv'
<1> USE DEF TxnInv
<1>1. /\ tries = retries_used + 1 /\ retries_used \in 0 .. MaxRetries
      /\ result = "NONE"
  BY DEF RetryBudget, TypeOK, ResultTellsTheStory, state_is_active
<1>2. /\ state' \in {"RETRY_DELAY", "FAILED"}
      /\ result' = IF state' = "FAILED" THEN final ELSE "NONE"
      /\ retries_used' = IF state' = "RETRY_DELAY" THEN retries_used + 1 ELSE retries_used
      /\ retries_used' \in 0 .. MaxRetries
  BY <1>1, TransactionAssumption DEF Rescheduled, GivenUp
<1>3. TypeOK'
  <2>1. state' \in State /\ result' \in TxnResult
    BY <1>2 DEF State, TxnResult
  <2>2. deadline' \in Clock /\ elapsed' \in Nat
    BY DEF Settled
  <2>3. diagnostics' \in [DiagName -> 0 .. CounterMax]
    BY DEF Settled
  <2> QED
    BY <1>2, <2>1, <2>2, <2>3 DEF TypeOK, response
<1>4. TimeInv'
  BY <1>2, TransactionAssumption
  DEF Settled, Rescheduled, GivenUp, TimeInv, Timed, Duration
<1>5. RetryBudget'
  BY <1>1, <1>2, TransactionAssumption DEF RetryBudget
<1>6. AttemptInv'
  BY <1>2 DEF AttemptInv, response
<1>7. ResultTellsTheStory'
  <2>1. CASE state' = "RETRY_DELAY"
    BY <1>2, <2>1 DEF ResultTellsTheStory, state_is_active
  <2>2. CASE state' = "FAILED" /\ final = "TRANSPORT_ERROR"
    BY <1>2, <2>2 DEF ResultTellsTheStory, state_is_active
  <2>3. CASE state' = "FAILED" /\ final # "TRANSPORT_ERROR"
    BY <1>2, <2>3 DEF ResultTellsTheStory, state_is_active
  <2> QED
    BY <1>2, <2>1, <2>2, <2>3
<1> QED
  BY <1>3, <1>4, <1>5, <1>6, <1>7

LEMMA TimeoutInv ==
    ASSUME TxnInv, state = "WAITING_RESPONSE", NEW events, handle_response_timeout(events),
           UNCHANGED <<expects_response, response, now, outgoing, tries, malformedIn>>
    PROVE  TxnInv'
<1>1. /\ Settled
      /\ \/ Rescheduled(retries_used, result)
         \/ GivenUp(retries_used, timeout_result) /\ retries_used = MaxRetries
  BY ScheduleOutcome DEF TxnInv, TypeOK, handle_response_timeout
<1>2. timeout_result = IF tries \in malformedIn THEN "RESPONSE_ERROR" ELSE "TIMEOUT"
  BY DEF TxnInv, AttemptInv, timeout_result
<1>3. timeout_result \in TxnResult
  BY DEF timeout_result, TxnResult
<1>4. outgoing' \in Seq({"current", "older"}) /\ Len(outgoing') <= TransportDepth
  BY DEF TxnInv, TypeOK
<1>5. state' = "FAILED" => retries_used = MaxRetries
  BY <1>1 DEF Rescheduled
<1> QED
  BY <1>1, <1>2, <1>3, <1>4, <1>5, AttemptFailsInv

\* What the transport holds after it has reported one ADU.
LEMMA ReportedOutgoing ==
    ASSUME TypeOK, outgoing # <<>>, outgoing' = Tail(outgoing)
    PROVE  /\ outgoing' \in Seq({"current", "older"})
           /\ Len(outgoing') <= TransportDepth
           /\ Len(outgoing') = Len(outgoing) - 1
BY TransactionAssumption DEF TypeOK

LEMMA TxErrorInv ==
    ASSUME TxnInv, mbrtum_transaction_on_tx_error
    PROVE  TxnInv'
<1>1. outgoing' \in Seq({"current", "older"}) /\ Len(outgoing') <= TransportDepth
  BY ReportedOutgoing DEF mbrtum_transaction_on_tx_error, TxnInv
<1>2. CASE state = "TRANSMITTING"
  <2>1. /\ Settled
        /\ Rescheduled(retries_used, result) \/ GivenUp(retries_used, "TRANSPORT_ERROR")
    BY <1>2, TransportFailedOutcome DEF mbrtum_transaction_on_tx_error, TxnInv, TypeOK
  <2>2. "TRANSPORT_ERROR" \in TxnResult
    BY DEF TxnResult
  <2> QED
    BY <1>1, <1>2, <2>1, <2>2, AttemptFailsInv DEF mbrtum_transaction_on_tx_error
<1>3. CASE state # "TRANSMITTING"
  <2>1. UNCHANGED <<state, result, retries_used, deadline, elapsed, diagnostics,
                    expects_response, response, now, tries, malformedIn>>
    BY <1>3 DEF mbrtum_transaction_on_tx_error
  <2> QED
    BY <1>1, <2>1, NothingElseInv DEF response
<1> QED
  BY <1>2, <1>3

LEMMA TxCompleteInv ==
    ASSUME TxnInv, mbrtum_transaction_on_tx_complete
    PROVE  TxnInv'
<1> USE DEF TxnInv
<1>1. /\ outgoing' \in Seq({"current", "older"}) /\ Len(outgoing') <= TransportDepth
      /\ UNCHANGED <<request, response, now, tries, malformedIn>>
  BY ReportedOutgoing DEF mbrtum_transaction_on_tx_complete
<1>2. CASE state # "TRANSMITTING"
  <2>1. UNCHANGED <<state, result, deadline, elapsed, diagnostics>>
    BY <1>2 DEF mbrtum_transaction_on_tx_complete
  <2> QED
    BY <1>1, <2>1, NothingElseInv DEF request, response
<1>3. CASE state = "TRANSMITTING" /\ ~expects_response
  <2>1. /\ state' = "COMPLETE" /\ result' = "SUCCESS" /\ elapsed' = 0
        /\ deadline' = deadline
        /\ Count({"successful_transactions"})
    BY <1>3 DEF mbrtum_transaction_on_tx_complete, TransmissionDone, finish
  <2>2. diagnostics' \in [DiagName -> 0 .. CounterMax]
    BY <2>1, CountType DEF TypeOK
  <2>3. TypeOK'
    BY <1>1, <2>1, <2>2 DEF TypeOK, State, TxnResult, request, response
  <2> QED
    BY <1>1, <1>3, <2>1, <2>3
    DEF TimeInv, Timed, RetryBudget, AttemptInv, ResultTellsTheStory, state_is_active,
        request, response
<1>4. CASE state = "TRANSMITTING" /\ expects_response
  <2>1. /\ state' = "WAITING_RESPONSE" /\ SetDeadline(ResponseTimeout)
        /\ UNCHANGED <<result, diagnostics>>
    BY <1>4 DEF mbrtum_transaction_on_tx_complete, TransmissionDone, TypeOK
  <2>2. /\ deadline' \in Clock /\ elapsed' = 0
        /\ (now - deadline') % ClockModulus = (0 - ResponseTimeout) % ClockModulus
    BY <2>1, SetDeadlineFresh, TransactionAssumption
  <2>3. TypeOK'
    BY <1>1, <2>1, <2>2 DEF TypeOK, State, request, response
  <2>4. TimeInv'
    BY <1>1, <2>1, <2>2, TransactionAssumption DEF TimeInv, Timed, Duration
  <2> QED
    BY <1>1, <1>4, <2>1, <2>3, <2>4
    DEF RetryBudget, AttemptInv, ResultTellsTheStory, state_is_active, request, response
<1> QED
  BY <1>2, <1>3, <1>4

LEMMA ResponseInv ==
    ASSUME TxnInv, mbrtum_transaction_on_response
    PROVE  TxnInv'
<1> USE DEF TxnInv
<1>1. /\ state = "WAITING_RESPONSE"
      /\ UNCHANGED <<expects_response, now, outgoing, tries>>
  BY DEF mbrtum_transaction_on_response
<1>2. CASE LateResponse
  BY <1>1, <1>2, TimeoutInv DEF LateResponse
<1>3. tries \in 1 .. MaxRetries + 1 /\ result = "NONE" /\ expects_response
  BY <1>1 DEF RetryBudget, TypeOK, AttemptInv, ResultTellsTheStory, state_is_active
<1>4. CASE BadLength
  <2>1. diagnostics' \in [DiagName -> 0 .. CounterMax]
    BY <1>4, CountType DEF BadLength, TypeOK
  <2>2. TypeOK'
    BY <1>1, <1>3, <1>4, <2>1 DEF BadLength, TypeOK, Verdict
  <2> QED
    BY <1>1, <1>3, <1>4, <2>2
    DEF BadLength, TimeInv, Timed, Duration, RetryBudget, AttemptInv,
        ResultTellsTheStory, state_is_active
<1>5. ASSUME NEW v \in Verdict, StoredResponse(v)
      PROVE  TxnInv'
  <2>1. response_adu' = v /\ protocol_result' = v /\ retries_used' = retries_used
    BY <1>5 DEF StoredResponse
  <2>2. CASE v \in {"OK", "EXCEPTION"}
    <3>1. FrameCompletes(v)
      BY <1>5, <2>2 DEF StoredResponse
    <3>2. diagnostics' \in [DiagName -> 0 .. CounterMax]
      BY <3>1, CountType DEF FrameCompletes, TypeOK
    <3>3. /\ state' = "COMPLETE" /\ deadline' = deadline /\ elapsed' = 0
          /\ result' = IF v = "OK" THEN "SUCCESS" ELSE "MODBUS_EXCEPTION"
          /\ UNCHANGED <<saw_response_error, malformedIn>>
      BY <3>1 DEF FrameCompletes, finish
    <3>4. TypeOK'
      BY <1>1, <2>1, <3>2, <3>3 DEF TypeOK, State, TxnResult
    <3> QED
      BY <1>1, <1>3, <2>1, <2>2, <3>3, <3>4
      DEF TimeInv, Timed, RetryBudget, AttemptInv, ResultTellsTheStory, state_is_active
  <2>3. CASE v \notin {"OK", "EXCEPTION"}
    <3>1. FrameIgnored(v)
      BY <1>5, <2>3 DEF StoredResponse
    <3>2. diagnostics' \in [DiagName -> 0 .. CounterMax]
      BY <3>1, CountType DEF FrameIgnored, TypeOK
    <3>3. /\ UNCHANGED <<state, result, deadline, elapsed>>
          /\ \/ UNCHANGED <<saw_response_error, malformedIn>>
             \/ saw_response_error' = TRUE /\ malformedIn' = malformedIn \cup {tries}
      BY <3>1 DEF FrameIgnored
    <3>4. TypeOK'
      BY <1>1, <1>3, <2>1, <3>2, <3>3 DEF TypeOK
    <3>5. TimeInv' /\ RetryBudget'
      BY <1>1, <2>1, <3>3 DEF TimeInv, Timed, Duration, RetryBudget
    <3>6. malformedIn' \subseteq 1 .. tries
      <4>1. malformedIn \subseteq 1 .. tries /\ tries \in 1 .. tries
        BY <1>3 DEF AttemptInv
      <4> QED
        BY <3>3, <4>1
    <3>7. saw_response_error' <=> tries \in malformedIn'
      <4>1. CASE UNCHANGED <<saw_response_error, malformedIn>>
        BY <1>1, <4>1 DEF AttemptInv
      <4>2. CASE saw_response_error' = TRUE /\ malformedIn' = malformedIn \cup {tries}
        BY <4>2
      <4> QED
        BY <3>3, <4>1, <4>2
    <3>8. AttemptInv'
      BY <1>1, <1>3, <3>3, <3>6, <3>7 DEF AttemptInv
    <3>9. ResultTellsTheStory'
      BY <1>1, <1>3, <3>3 DEF ResultTellsTheStory, state_is_active
    <3> QED
      BY <3>4, <3>5, <3>8, <3>9
  <2> QED
    BY <2>2, <2>3
<1> QED
  BY <1>2, <1>4, <1>5 DEF mbrtum_transaction_on_response

LEMMA CancelInv ==
    ASSUME TxnInv, mbrtum_transaction_cancel
    PROVE  TxnInv'
<1> USE DEF TxnInv
<1>1. /\ state' = "CANCELLED" /\ result' = "CANCELLED" /\ elapsed' = 0
      /\ deadline' = deadline
      /\ UNCHANGED <<request, response, now, outgoing, tries, malformedIn>>
  BY DEF mbrtum_transaction_cancel, finish
<1>2. diagnostics' \in [DiagName -> 0 .. CounterMax]
  BY CountType DEF mbrtum_transaction_cancel, TypeOK
<1>3. TypeOK'
  BY <1>1, <1>2 DEF TypeOK, State, TxnResult, request, response
<1> QED
  BY <1>1, <1>3
  DEF TimeInv, Timed, RetryBudget, AttemptInv, ResultTellsTheStory, state_is_active,
      request, response
LEMMA TickInv ==
    ASSUME TxnInv, Tick
    PROVE  TxnInv'
<1> USE DEF TxnInv
<1>1. /\ now' = (now + 1) % ClockModulus
      /\ elapsed' = IF Timed THEN elapsed + 1 ELSE elapsed
      /\ UNCHANGED <<state, result, request, deadline, response, diagnostics,
                     outgoing, tries, malformedIn>>
  BY DEF Tick
<1>2. now' \in Clock /\ elapsed' \in Nat
  <2>1. now + 1 \in Int
    BY DEF TypeOK, Clock
  <2> QED
    BY <1>1, <2>1, ClockType DEF TypeOK
<1>3. TypeOK'
  BY <1>1, <1>2 DEF TypeOK, request, response
<1>4. TimeInv'
  <2> SUFFICES ASSUME Timed'
               PROVE  /\ elapsed' \in 0 .. Duration' + PollLatency
                      /\ (now' - deadline') % ClockModulus
                            = (elapsed' - Duration') % ClockModulus
    BY DEF TimeInv
  <2>1. Timed /\ Duration' = Duration /\ deadline' = deadline /\ elapsed' = elapsed + 1
    BY <1>1 DEF Timed, Duration
  <2>2. elapsed \in Nat /\ elapsed < Duration + PollLatency /\ Duration \in Nat
    BY <2>1, DurationType DEF Tick, TypeOK
  <2>3. elapsed' \in 0 .. Duration + PollLatency
    BY <2>1, <2>2, TransactionAssumption
  <2>4. /\ elapsed - Duration \in Int
        /\ (elapsed - Duration) + 1 = elapsed' - Duration
        /\ now \in Clock /\ deadline \in Clock
        /\ (now - deadline) % ClockModulus = (elapsed - Duration) % ClockModulus
    BY <2>1, <2>2 DEF TimeInv, TypeOK
  <2>5. (((now + 1) % ClockModulus) - deadline) % ClockModulus
          = ((elapsed - Duration) + 1) % ClockModulus
    BY <2>4, TickDifference
  <2> QED
    BY <1>1, <2>1, <2>3, <2>4, <2>5
<1>5. RetryBudget' /\ AttemptInv' /\ ResultTellsTheStory'
  BY <1>1 DEF RetryBudget, AttemptInv, ResultTellsTheStory, state_is_active, request,
              response
<1> QED
  BY <1>3, <1>4, <1>5

LEMMA TxnStep == TxnInv /\ [Next]_vars => TxnInv'
<1> SUFFICES ASSUME TxnInv, [Next]_vars PROVE TxnInv'
  OBVIOUS
<1>1. CASE PollTimeout
  BY <1>1, TimeoutInv DEF PollTimeout
<1>2. CASE UNCHANGED vars
  <2>1. outgoing \in Seq({"current", "older"}) /\ Len(outgoing) <= TransportDepth
    BY DEF TxnInv, TypeOK
  <2> QED
    BY <1>2, <2>1, NothingElseInv DEF vars
<1> QED
  BY <1>1, <1>2, StartInv, PollRetryInv, TxCompleteInv, TxErrorInv, ResponseInv,
     CancelInv, TickInv
  DEF Next, mbrtum_transaction_poll, TransportReports

------------------------------------------------------------------------------
(* Theorems *)

\* The inductive invariant holds in every reachable state.
THEOREM TxnInvariant == Spec => []TxnInv
BY TxnInit, TxnStep, PTL DEF Spec

\* The transaction context keeps its types; no call exceeds the retry budget's
\* range or the saturation point of a counter.
THEOREM TypeCorrect == Spec => []TypeOK
BY TxnInvariant, PTL DEF TxnInv

\* The wrapping comparison of deadlines is exact for every width of the clock,
\* every admissible duration and every time at which the clock stood.
THEOREM DeadlinesAreExact == Spec => []DeadlineExact
<1>1. TxnInv => DeadlineExact
  BY ExactFromTimeInv DEF TxnInv
<1> QED
  BY <1>1, TxnInvariant, PTL

\* A request is transmitted at most once more than it may be retried, and given
\* up for want of a good response only after exactly that many times.
THEOREM BudgetIsKept == Spec => []RetryBudget
BY TxnInvariant, PTL DEF TxnInv

\* The result reported is the story of the last attempt.
THEOREM StoryIsTold == Spec => []ResultTellsTheStory
BY TxnInvariant, PTL DEF TxnInv

\* No response completes a transaction at or after its deadline.
THEOREM LateResponsesNeverComplete == Spec => LateNeverCompletes
<1> DEFINE A == state = "WAITING_RESPONSE" /\ state' = "COMPLETE"
                  => elapsed < ResponseTimeout
<1>1. TxnInv /\ [Next]_vars => [A]_vars
  <2> SUFFICES ASSUME TxnInv, Next, state = "WAITING_RESPONSE", state' = "COMPLETE"
               PROVE  elapsed < ResponseTimeout
    OBVIOUS
  <2>1. DeadlineExact
    BY ExactFromTimeInv DEF TxnInv
  <2>2. mbrtum_transaction_on_response
    BY DEF Next, mbrtum_transaction_start, state_is_active, mbrtum_transaction_poll,
           PollRetry, PollTimeout, handle_response_timeout, schedule_retry_or_finish,
           finish, TransportReports, mbrtum_transaction_on_tx_complete,
           mbrtum_transaction_on_tx_error, mbrtum_transaction_cancel, Tick
  <2>3. ~deadline_reached(now, deadline)
    BY <2>2 DEF mbrtum_transaction_on_response, LateResponse, BadLength, StoredResponse,
                handle_response_timeout, schedule_retry_or_finish, finish
  <2> QED
    BY <2>1, <2>3, TransactionAssumption DEF DeadlineExact, Timed, Duration, TxnInv, TypeOK
<1> QED
  BY <1>1, TxnInvariant, PTL DEF Spec, LateNeverCompletes
\* A finished transaction changes only by the next start.
THEOREM FinishedStaysFinal == Spec => FinishedIsFinal
<1> DEFINE Kept == UNCHANGED <<state, result, request, response, diagnostics>>
           Anew == tries' = 1 /\ malformedIn' = {}
<1>1. [Next]_vars => [~state_is_active(state) => Kept \/ Anew]_vars
  <2> SUFFICES ASSUME Next, ~state_is_active(state)
               PROVE  Kept \/ Anew
    OBVIOUS
  <2>1. state \notin {"TRANSMITTING", "WAITING_RESPONSE", "RETRY_DELAY"}
    BY DEF state_is_active
  <2>2. CASE mbrtum_transaction_start
    BY <2>2 DEF mbrtum_transaction_start
  <2>3. CASE TransportReports
    BY <2>1, <2>3 DEF TransportReports, mbrtum_transaction_on_tx_complete,
                      mbrtum_transaction_on_tx_error, request
  <2>4. CASE Tick
    BY <2>4 DEF Tick
  <2> QED
    BY <2>1, <2>2, <2>3, <2>4
    DEF Next, mbrtum_transaction_poll, PollRetry, PollTimeout,
        mbrtum_transaction_on_response, mbrtum_transaction_cancel, state_is_active
<1> QED
  BY <1>1, PTL DEF Spec, FinishedIsFinal

\* While the engine waits, a transport that holds one ADU at a time holds none.
NothingOutgoing == state = "WAITING_RESPONSE" => outgoing = <<>>

\* With a transport that takes no ADU before it has reported the one before,
\* the engine waits for a response only when its request has been transmitted.
THEOREM WaitsOnlyWhenTransmitted ==
    ASSUME TransportDepth = 1
    PROVE  Spec => []WaitingMeansTransmitted
<1>1. Init => NothingOutgoing
  BY DEF Init, NothingOutgoing
<1>2. TxnInv /\ NothingOutgoing /\ [Next]_vars => NothingOutgoing'
  <2> SUFFICES ASSUME TxnInv, NothingOutgoing, [Next]_vars, state' = "WAITING_RESPONSE"
               PROVE  outgoing' = <<>>
    BY DEF NothingOutgoing
  <2>1. CASE state = "WAITING_RESPONSE"
    <3>1. outgoing = <<>>
      BY <2>1 DEF NothingOutgoing
    <3> QED
      BY <2>1, <3>1
      DEF Next, mbrtum_transaction_start, state_is_active, mbrtum_transaction_poll,
          PollRetry, PollTimeout, TransportReports, mbrtum_transaction_on_tx_complete,
          mbrtum_transaction_on_tx_error, mbrtum_transaction_on_response,
          mbrtum_transaction_cancel, Tick, vars
  <2>2. CASE state # "WAITING_RESPONSE"
    <3>1. mbrtum_transaction_on_tx_complete
      <4>0. ASSUME NEW used \in 0 .. MaxRetries, NEW r, NEW events
            PROVE  ~begin_transmit(used, r, events)
        BY BeginTransmitOutcome DEF TxnInv, Rescheduled, GivenUp
      <4>1. ~mbrtum_transaction_start
        BY <4>0, TransactionAssumption DEF mbrtum_transaction_start
      <4>2. ~PollRetry
        BY <4>0 DEF PollRetry, TxnInv, TypeOK
      <4>3. ~mbrtum_transaction_on_tx_error
        BY <2>2, TransportFailedOutcome
        DEF mbrtum_transaction_on_tx_error, TxnInv, TypeOK, Rescheduled, GivenUp
      <4> QED
        BY <2>2, <4>1, <4>2, <4>3
        DEF Next, mbrtum_transaction_poll, PollTimeout, TransportReports,
            mbrtum_transaction_on_response, mbrtum_transaction_cancel, finish, Tick, vars
    <3>2. Len(outgoing') = Len(outgoing) - 1 /\ outgoing' \in Seq({"current", "older"})
      BY <3>1, ReportedOutgoing DEF mbrtum_transaction_on_tx_complete, TxnInv
    <3>3. Len(outgoing) <= 1 /\ Len(outgoing) \in Nat /\ Len(outgoing') \in Nat
      BY <3>2 DEF TxnInv, TypeOK
    <3>4. Len(outgoing') = 0
      BY <3>2, <3>3
    <3> QED
      BY <3>2, <3>4
  <2> QED
    BY <2>1, <2>2
<1>3. TxnInv /\ NothingOutgoing => WaitingMeansTransmitted
  BY DEF TxnInv, AttemptInv, NothingOutgoing, WaitingMeansTransmitted
<1> QED
  BY <1>1, <1>2, <1>3, TxnInvariant, PTL DEF Spec
==============================================================================
