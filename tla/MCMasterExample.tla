--------------------------- MODULE MCMasterExample ---------------------------
(* An instance of MasterExample for TLC. *)
EXTENDS MasterExample

\* A time, as its distance from the clock.
Ahead(t) == (t - uwTick) % ClockModulus

\* The clock is only compared with the times taken from it, so two states that
\* differ in where it stands are one state; so are two that differ in a time
\* that is not used before it is set, or in the histories of the engine.
ExampleView ==
    <<state, result, retries_used, saw_response_error, outgoing,
      IF pc = "top" THEN 0 ELSE Ahead(now),
      IF Timed THEN Ahead(deadline) ELSE 0,
      IF outgoing # <<>> THEN Ahead(completed_at) ELSE 0,
      IF cycle_active THEN 0 ELSE Ahead(next_cycle_ms),
      cycle_active, test_step, current_test, last_result, systick_count, rx, armed,
      uart_error_pending, window_open, watch, pc, caller, claimed, carried,
      values.old,
      IF cycle_active THEN values.data ELSE {}, slave, stall>>
==============================================================================
