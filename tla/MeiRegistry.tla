----------------------------- MODULE MeiRegistry -----------------------------
(***************************************************************************)
(* The registry of MEI handlers (FC43) of App/src/modbus.c, used by        *)
(* several tasks: the application registers, replaces and removes handlers *)
(* while requests look one up under the library's lock and call it after   *)
(* the unlock.  The two stores of a registration and the two loads of a    *)
(* look-up are steps of their own.                                         *)
(***************************************************************************)
EXTENDS ModbusPdu, FiniteSets

CONSTANTS
    Task,       \* tasks that call the library
    MeiTypes,   \* MEI types registered and asked for
    Pairs,      \* registrations: a handler and the context meant for it
    MaxHandlers,\* MB_MEI_MAX_HANDLERS
    Capacities, \* sizes of a response buffer
    Results,    \* what a handler returns: a code and the length of its data
    NULL

ASSUME MeiAssumption ==
    /\ MaxHandlers \in Nat \ {0} /\ PduMax \in Nat /\ Capacities \subseteq Nat
    /\ \A r \in Results : r.code \in Nat /\ r.length \in Nat
    /\ NULL \notin Task \cup Pairs

VARIABLES
    handlers,  \* mei_state.handlers
    holder,    \* the task inside mb_lock .. mb_unlock, or NULL
    task,      \* where each task is, and its local variables
    offered    \* history, per task: the pairs registered for its type since its call began

mei_vars == <<handlers, holder, task, offered>>

CANOPEN == 13
READ_DEVICE_IDENTIFICATION == 14

OK == 0

Index == 1 .. MaxHandlers

Unused == [in_use |-> FALSE, type |-> 0, handler |-> NULL, context |-> NULL]

MaxDataLength == PduMax - 2

------------------------------------------------------------------------------
(* Tasks *)

Idle == [pc |-> "idle", kind |-> "none", type |-> 0, pair |-> NULL, capacity |-> 0,
         index |-> 0, handler |-> NULL, context |-> NULL, exception |-> 0, length |-> 0]

MutantNoWait(t) == holder' = t

mb_lock(t) == holder = NULL /\ holder' = t

mb_unlock == holder' = NULL

At(t, pc) == task' = [task EXCEPT ![t].pc = pc]

\* A call returns; an exception or a length is what it reports.
Returns(t, exception, length) ==
    task' = [task EXCEPT ![t] = [Idle EXCEPT !.kind = task[t].kind,
                !.capacity = task[t].capacity, !.exception = exception, !.length = length]]

\* The entries in use for a type.
EntriesOf(type) == {i \in Index : handlers[i].in_use /\ handlers[i].type = type}

mei_type_is_application_configurable(type) ==
    type \notin {CANOPEN, READ_DEVICE_IDENTIFICATION}

\* What is refused before the lock: nothing changes.  (A request for one of the two
\* protected types never reaches the registry.)
accepted(kind, type, pair) ==
    /\ kind = "register" => pair # NULL
    /\ mei_type_is_application_configurable(type)

\* A task calls an operation.
Call(t, kind, type, pair, capacity) ==
    /\ task[t].pc = "idle"
    /\ accepted(kind, type, pair)
    /\ task' = [task EXCEPT ![t] = [Idle EXCEPT !.pc = "lock", !.kind = kind,
                   !.type = type, !.pair = pair, !.capacity = capacity]]
    /\ offered' = [offered EXCEPT ![t] =
                      {handlers[i].handler : i \in EntriesOf(type)}]
    /\ UNCHANGED <<handlers, holder>>

Lock(t) ==
    /\ task[t].pc = "lock"
    /\ mb_lock(t)
    /\ At(t, task[t].kind)
    /\ UNCHANGED <<handlers, offered>>

------------------------------------------------------------------------------
(* Registration *)

MutantFirstFree(type) ==
    LET unused == {i \in Index : ~handlers[i].in_use}
    IN  IF unused # {} THEN unused ELSE EntriesOf(type)

\* The entry a registration goes to: the one of its type, or else the first unused one.
target(type) ==
    IF EntriesOf(type) # {} THEN EntriesOf(type) ELSE {i \in Index : ~handlers[i].in_use}

mb_mei_register_handler(t) ==
    LET type == task[t].type
        pair == task[t].pair
        i == Minimum(target(type))
    IN  /\ task[t].pc = "register"
        /\ IF target(type) = {}
           THEN mb_unlock /\ Returns(t, 0, 0) /\ UNCHANGED <<handlers, offered>>
           ELSE /\ handlers' = [handlers EXCEPT ![i] =
                      [@ EXCEPT !.in_use = TRUE, !.type = type, !.handler = pair]]
                /\ task' = [task EXCEPT ![t].pc = "store_context", ![t].index = i]
                /\ offered' = [u \in Task |-> IF task[u].type = type THEN offered[u] \cup {pair}
                                                                     ELSE offered[u]]
                /\ UNCHANGED holder

register_context(t) ==
    /\ task[t].pc = "store_context"
    /\ handlers' = [handlers EXCEPT ![task[t].index].context = task[t].pair]
    /\ mb_unlock
    /\ Returns(t, 0, 0)
    /\ UNCHANGED offered

\* The first entry of the type is cleared; the loop does not look for another.
mb_mei_unregister_handler(t) ==
    LET entries == EntriesOf(task[t].type)
    IN  /\ task[t].pc = "unregister"
        /\ IF entries = {} THEN UNCHANGED handlers
           ELSE handlers' = [handlers EXCEPT ![Minimum(entries)] = Unused]
        /\ mb_unlock
        /\ Returns(t, 0, 0)
        /\ UNCHANGED offered

mb_mei_clear_handlers(t) ==
    /\ task[t].pc = "clear"
    /\ handlers' = [i \in Index |-> Unused]
    /\ mb_unlock
    /\ Returns(t, 0, 0)
    /\ UNCHANGED offered

------------------------------------------------------------------------------
(* Requests *)

\* mb_mei_process_request: the look-up.
lookup_handler(t) ==
    LET entries == EntriesOf(task[t].type)
        i == Minimum(entries)
    IN  /\ task[t].pc = "request"
        /\ IF entries = {}
           THEN mb_unlock /\ Returns(t, ILLEGAL_DATA_VALUE, 0)
           ELSE /\ task' = [task EXCEPT ![t].pc = "load_context", ![t].index = i,
                                        ![t].handler = handlers[i].handler]
                /\ UNCHANGED holder
        /\ UNCHANGED <<handlers, offered>>

lookup_context(t) ==
    /\ task[t].pc = "load_context"
    /\ task' = [task EXCEPT ![t].pc = "call", ![t].context = handlers[task[t].index].context]
    /\ mb_unlock
    /\ UNCHANGED <<handlers, offered>>

Limit(t) == response_limit(task[t].capacity)

\* The handler is called, without the lock, unless the buffer has no room for the header.
call_handler(t) ==
    /\ task[t].pc = "call"
    /\ IF Limit(t) < 2 THEN Returns(t, SERVER_FAILURE, 0) ELSE At(t, "calling")
    /\ UNCHANGED <<handlers, holder, offered>>

mei_exception_is_valid(code) == code \in 1 .. 8 \cup {10, 11}

\* The handler returns, and what it reports is checked.
handler_returns(t, result) ==
    /\ task[t].pc = "calling"
    /\ IF result.code # OK
       THEN Returns(t, IF mei_exception_is_valid(result.code) THEN result.code
                                                              ELSE SERVER_FAILURE, 0)
       ELSE IF result.length > Limit(t) - 2 \/ result.length > MaxDataLength
       THEN Returns(t, SERVER_FAILURE, 0)
       ELSE Returns(t, 0, 2 + result.length)
    /\ UNCHANGED <<handlers, holder, offered>>

------------------------------------------------------------------------------
(* Specification *)

MeiInit ==
    /\ handlers = [i \in Index |-> Unused]
    /\ holder = NULL
    /\ task = [t \in Task |-> Idle]
    /\ offered = [t \in Task |-> {}]

MeiNext ==
    \E t \in Task :
        \/ \E type \in MeiTypes, pair \in Pairs \cup {NULL} : Call(t, "register", type, pair, 0)
        \/ \E type \in MeiTypes : Call(t, "unregister", type, NULL, 0)
        \/ Call(t, "clear", 0, NULL, 0)
        \/ \E type \in MeiTypes, capacity \in Capacities : Call(t, "request", type, NULL, capacity)
        \/ Lock(t)
        \/ mb_mei_register_handler(t) \/ register_context(t)
        \/ mb_mei_unregister_handler(t) \/ mb_mei_clear_handlers(t)
        \/ lookup_handler(t) \/ lookup_context(t)
        \/ call_handler(t)
        \/ \E result \in Results : handler_returns(t, result)

MeiSpec == MeiInit /\ [][MeiNext]_mei_vars

------------------------------------------------------------------------------
(* Properties *)

\* The registry has at most one entry for a type, also after removals have left unused
\* entries in front of it; so unregistering a type removes it altogether.
OneEntryPerType ==
    \A i, j \in Index : (handlers[i].in_use /\ handlers[j].in_use /\ i # j) =>
        handlers[i].type # handlers[j].type

\* "Registering an existing type atomically replaces its callback and context"
\* (docs/modbus-fc43-mei-transport.md:46): a handler is called with the context it was
\* registered with, and was registered for that type at some time since the request began.
PairWhole ==
    \A t \in Task : task[t].pc = "calling" =>
        /\ task[t].handler = task[t].context
        /\ task[t].handler \in offered[t]
===============================================================================
