------------------------- MODULE MCMasterTransaction -------------------------
(* An instance of MasterTransaction for TLC in which the counters count. *)
EXTENDS MasterTransaction

\* Past saturation a counter says nothing, and frames that are only counted
\* and ignored need not come twice.
CountersCount ==
    /\ \A d \in DiagName : diagnostics[d] < CounterMax
    /\ diagnostics["malformed_responses"] + diagnostics["unrelated_responses"] < 2
==============================================================================
