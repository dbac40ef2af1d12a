--------------------------- MODULE RegisterHistory ---------------------------
(***************************************************************************)
(* RegisterMap with a memory of what the holding registers have held, to   *)
(* say what a response may show while other tasks write the registers it   *)
(* reads: a request accesses its registers one at a time.                  *)
(***************************************************************************)
EXTENDS RegisterMap

VARIABLE since   \* by task and register the task's request reads: what it has held
                 \* since the request began, or since the request's own store there

history_vars == <<vars, since>>

Holding(m) == m["holding_registers"]

ReadsAt(r, a) == r.function \in {3, 23} /\ a \in r.address .. r.address + r.quantity - 1

StoresAt(t, a) ==
    /\ task'[t].stored \notin {<<>>, task[t].stored}
    /\ LET w == Last(task'[t].stored) IN w[1] = "holding_registers" /\ w[2] = a

Remember ==
    since' = [t \in Task |-> [a \in DOMAIN Holding(map) |->
                 IF task'[t].pc = "idle" \/ ~ReadsAt(task'[t].request, a) THEN {}
                 ELSE IF StoresAt(t, a) THEN {Holding(map')[a]}
                 ELSE since[t][a] \cup {Holding(map')[a]}]]

HistoryInit == Init /\ since = [t \in Task |-> [a \in DOMAIN Holding(map) |-> {}]]

HistoryNext == \E t \in Task : Step(t) /\ Remember

HistorySpec == HistoryInit /\ [][HistoryNext]_history_vars /\ Fairness

\* A response of FC03 or FC23 shows of each register a value that it held while the
\* request was carried out, and of a register FC23 has written itself the value written
\* or one that another task stored after it, never an older one: the registers are
\* locked one by one (modbus_protocol.c:283), so the response as a whole may be of no
\* single moment.
ReadsFresh ==
    \A t \in Task :
        LET r == task[t].request
        IN  (At(t, "done") /\ task[t].exception = 0 /\ r.function \in {3, 23}) =>
               \A n \in 1 .. r.quantity : task[t].data[n] \in since[t][r.address + n - 1]
==============================================================================
