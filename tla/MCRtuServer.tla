---------------------------- MODULE MCRtuServer ----------------------------
(* Values for model checking RtuServer. *)
EXTENDS RtuServer

MCWord == {0, 1}
MCOneWord == {0}
MCAllLengths == {1, 3, 5, 6}
MCTwoLengths == {1, 5}
MCCapacities == {1, 4, 10}
MCLargeCapacity == {64}
MCAllCodes == {2, 4, 6, 7}
MCTwoCodes == {6, 7}
MCOneCode == {6}

\* No operation reads the events in the log, where they are, or what the last call
\* did, and none but their setters tells the exception status from the
\* communication status: two states that differ in these only take the same steps.
ServerView ==
    <<diagnostics.counters, diagnostics.words["diagnostic_register"],
      {diagnostics.words["exception_status"], diagnostics.words["communication_status"]},
      diagnostics.log.count, diagnostics.listen_only, diagnostics.pending, configured>>

\* With room for every response, what the counters become depends on these alone:
\* no operation reads the events in the log, only how many there are and where.
CountersView ==
    <<diagnostics.counters, diagnostics.log.head, diagnostics.log.count,
      diagnostics.listen_only, configured>>
=============================================================================
