----------------------------- MODULE RegisterMap -----------------------------
(***************************************************************************)
(* The register map of App/src/modbus.c, the register functions of the PDU *)
(* engine (App/src/modbus_protocol.c) and the lock of                      *)
(* App/src/platform_stm32.c, as tasks of an RTOS use them (WITH_RTOS).  A  *)
(* request is carried out one register at a time: only the access to one   *)
(* register is under the lock, reads take no lock, and the write hooks run *)
(* after the unlock.  A word is the set of its bits that are one.          *)
(***************************************************************************)
EXTENDS ModbusExceptions, Integers, Sequences, SequencesExt

CONSTANTS
    Task,           \* the tasks that call the library
    Bits,           \* bit positions of a register word
    Size,           \* MB_MAX_COILS ... MB_MAX_IREGS: the size of each table
    Requests,       \* the request PDUs and calls of the setters considered
    CreateMayFail,  \* whether xSemaphoreCreateMutex may find no memory
    MaxHandles      \* bound on the mutexes ever created

Table == {"coils", "discrete_inputs", "holding_registers", "input_registers"}

\* Tables whose setters call mb_on_write_coil or mb_on_write_hreg.
Hooked == {"coils", "holding_registers"}

NULL == 0
NoTask == "none"

Handle == 1 .. MaxHandles

ASSUME RegisterMapAssumption ==
    /\ Size \in [Table -> Nat \ {0}]
    /\ CreateMayFail \in BOOLEAN
    /\ MaxHandles \in Nat \ {0}
    /\ NoTask \notin Task
    /\ 0 \in Bits

VARIABLES
    map,     \* the four tables
    mutex,   \* mb_mutex: NULL, or the handle of a mutex
    created, \* how many mutexes were created
    holder,  \* FreeRTOS: who holds each mutex
    task     \* each task: where it is in which call

vars == <<map, mutex, created, holder, task>>

------------------------------------------------------------------------------
(* Requests.  A request has all fields a PDU can have: its function code and *)
(* length, the address and quantity, those of the write part of FC23, the    *)
(* byte count and the data, and the room there is for the response.          *)

range_is_valid(first, quantity, limit) ==
    quantity > 0 /\ first < limit /\ quantity <= limit - first

\* The exception of the first check that fails, 0 if none does.  A check is a
\* condition that must hold and the exception for its failure.
FirstFailure(checks) ==
    LET failing == {i \in DOMAIN checks : ~checks[i][1]}
    IN  IF failing = {} THEN 0
        ELSE checks[CHOOSE i \in failing : \A j \in failing : i <= j][2]

Packed(quantity) == (quantity + 7) \div 8

check_read(r, table, max, byte_count) == <<
    <<r.len = 5, ILLEGAL_DATA_VALUE>>,
    <<r.quantity \in 1 .. max, ILLEGAL_DATA_VALUE>>,
    <<range_is_valid(r.address, r.quantity, Size[table]), ILLEGAL_DATA_ADDRESS>>,
    <<r.capacity >= 2 + byte_count, SERVER_FAILURE>> >>

check_write_coil(r) == <<
    <<r.len = 5, ILLEGAL_DATA_VALUE>>,
    <<range_is_valid(r.address, 1, Size["coils"]), ILLEGAL_DATA_ADDRESS>>,
    <<r.quantity \in {65280, 0}, ILLEGAL_DATA_VALUE>>,
    <<r.capacity >= 5, SERVER_FAILURE>> >>

\* FC06 and FC22: a PDU of a fixed length that is echoed.
check_write_register(r, length) == <<
    <<r.len = length, ILLEGAL_DATA_VALUE>>,
    <<range_is_valid(r.address, 1, Size["holding_registers"]), ILLEGAL_DATA_ADDRESS>>,
    <<r.capacity >= length, SERVER_FAILURE>> >>

MutantFirstOnly(r, table, max, byte_count) == <<
    <<r.len >= 6, ILLEGAL_DATA_VALUE>>,
    <<r.quantity \in 1 .. max, ILLEGAL_DATA_VALUE>>,
    <<range_is_valid(r.address, 1, Size[table]), ILLEGAL_DATA_ADDRESS>>,
    <<r.count = byte_count /\ r.len = 6 + byte_count, ILLEGAL_DATA_VALUE>>,
    <<r.capacity >= 5, SERVER_FAILURE>> >>

check_write_multiple(r, table, max, byte_count) == <<
    <<r.len >= 6, ILLEGAL_DATA_VALUE>>,
    <<r.quantity \in 1 .. max, ILLEGAL_DATA_VALUE>>,
    <<range_is_valid(r.address, r.quantity, Size[table]), ILLEGAL_DATA_ADDRESS>>,
    <<r.count = byte_count /\ r.len = 6 + byte_count, ILLEGAL_DATA_VALUE>>,
    <<r.capacity >= 5, SERVER_FAILURE>> >>

check_read_write(r) == <<
    <<r.len >= 10, ILLEGAL_DATA_VALUE>>,
    <<r.quantity \in 1 .. 125 /\ r.wquantity \in 1 .. 121, ILLEGAL_DATA_VALUE>>,
    <<range_is_valid(r.address, r.quantity, Size["holding_registers"])
        /\ range_is_valid(r.waddress, r.wquantity, Size["holding_registers"]),
      ILLEGAL_DATA_ADDRESS>>,
    <<r.count = 2 * r.wquantity /\ r.len = 10 + 2 * r.wquantity, ILLEGAL_DATA_VALUE>>,
    <<r.capacity >= 2 + 2 * r.quantity, SERVER_FAILURE>> >>

\* The table a function code reads or writes.
TableOf(function) ==
    CASE function \in {1, 5, 15} -> "coils"
      [] function = 2 -> "discrete_inputs"
      [] function \in {3, 6, 16, 22, 23} -> "holding_registers"
      [] function = 4 -> "input_registers"

exception_of(r) ==
    CASE r.function \in {1, 2} ->
            FirstFailure(check_read(r, TableOf(r.function), 2000, Packed(r.quantity)))
      [] r.function \in {3, 4} ->
            FirstFailure(check_read(r, TableOf(r.function), 125, 2 * r.quantity))
      [] r.function = 5 -> FirstFailure(check_write_coil(r))
      [] r.function = 6 -> FirstFailure(check_write_register(r, 5))
      [] r.function = 15 ->
            FirstFailure(check_write_multiple(r, "coils", 1968, Packed(r.quantity)))
      [] r.function = 16 ->
            FirstFailure(check_write_multiple(r, "holding_registers", 123, 2 * r.quantity))
      [] r.function = 22 -> FirstFailure(check_write_register(r, 7))
      [] r.function = 23 -> FirstFailure(check_read_write(r))
      [] OTHER -> ILLEGAL_FUNCTION

------------------------------------------------------------------------------
(* What a request does once it is accepted: the calls it makes, in order.    *)

\* A coil or discrete input is stored as 0 or 1.
normalized(table, value) ==
    IF table \in {"coils", "discrete_inputs"} /\ value # {} THEN {0} ELSE value

Set(table, address, value) ==
    [do |-> "set", table |-> table, address |-> address,
     value |-> normalized(table, value), or |-> {}, i |-> 0]
Mask(address, and_mask, or_mask) ==
    [do |-> "mask", table |-> "holding_registers", address |-> address,
     value |-> and_mask, or |-> or_mask, i |-> 0]
Get(table, address, i) ==
    [do |-> "get", table |-> table, address |-> address, value |-> {}, or |-> {}, i |-> i]

read_calls(table, address, quantity) ==
    [n \in 1 .. quantity |-> Get(table, address + n - 1, n - 1)]

\* Coil i of FC15 is bit i % 8 of byte i / 8.
coil_calls(r) ==
    [n \in 1 .. r.quantity |->
        Set("coils", r.address + n - 1,
            IF ((n - 1) % 8) \in r.data[((n - 1) \div 8) + 1] THEN {0} ELSE {})]

register_calls(address, quantity, data) ==
    [n \in 1 .. quantity |-> Set("holding_registers", address + n - 1, data[n])]

\* FC23 writes before it reads.
MutantReadsFirst(r) ==
    read_calls("holding_registers", r.address, r.quantity)
        \o register_calls(r.waddress, r.wquantity, r.data)

read_write_calls(r) ==
    register_calls(r.waddress, r.wquantity, r.data)
        \o read_calls("holding_registers", r.address, r.quantity)

process_pdu_function(r) ==
    CASE r.function \in {1, 2, 3, 4} -> read_calls(TableOf(r.function), r.address, r.quantity)
      [] r.function = 5 ->
            <<Set("coils", r.address, IF r.quantity = 65280 THEN {0} ELSE {})>>
      [] r.function = 6 -> <<Set("holding_registers", r.address, r.data[1])>>
      [] r.function = 15 -> coil_calls(r)
      [] r.function = 16 -> register_calls(r.address, r.quantity, r.data)
      [] r.function = 22 -> <<Mask(r.address, r.data[1], r.data[2])>>
      [] r.function = 23 -> read_write_calls(r)

\* The response's data before the first read: a bit response is zeroed.
BlankData(r) == IF r.function \in {1, 2} THEN [j \in 1 .. Packed(r.quantity) |-> {}] ELSE <<>>

\* The value read goes to the response.
with_value(data, c, v) ==
    IF c.table \in {"coils", "discrete_inputs"}
    THEN [data EXCEPT ![(c.i \div 8) + 1] = @ \cup {c.i % 8 : b \in v}]
    ELSE Append(data, v)

------------------------------------------------------------------------------
(* Steps.  A task is between two calls at "next", and at "done" when the     *)
(* request is finished.                                                      *)

InRange(c) == c.address < Size[c.table]

Idle == [pc |-> "idle", request |-> <<>>, exception |-> 0, todo |-> <<>>, data |-> <<>>,
         handle |-> NULL, value |-> {}, stored |-> <<>>, notified |-> <<>>]

Goto(t, pc) == task' = [task EXCEPT ![t].pc = pc]

At(t, pc) == task[t].pc = pc

Current(t) == Head(task[t].todo)

\* Access to one register is over.
Finished(s) == [s EXCEPT !.pc = "next", !.todo = Tail(@), !.value = {}, !.handle = NULL]

\* mb_process_pdu with a request PDU, or a call of a setter by the application.
mb_process_pdu(t) ==
    /\ At(t, "idle")
    /\ \E r \in Requests :
          LET exception == IF r.function = 0 THEN 0 ELSE exception_of(r)
          IN  task' = [task EXCEPT ![t] =
                  [Idle EXCEPT !.request = r,
                               !.exception = exception,
                               !.pc = IF exception = 0 THEN "next" ELSE "done",
                               !.todo = IF r.function = 0 THEN r.data
                                        ELSE IF exception = 0 THEN process_pdu_function(r)
                                        ELSE <<>>,
                               !.data = IF exception = 0 THEN BlankData(r) ELSE <<>>]]
    /\ UNCHANGED <<map, mutex, created, holder>>

\* The getters read without the lock.
get(t) ==
    /\ At(t, "next") /\ task[t].todo # <<>>
    /\ Current(t).do = "get"
    /\ LET c == Current(t)
           v == IF InRange(c) THEN map[c.table][c.address] ELSE {}
       IN  task' = [task EXCEPT ![t] =
               [Finished(task[t]) EXCEPT !.data = with_value(@, c, v)]]
    /\ UNCHANGED <<map, mutex, created, holder>>

\* A setter returns at once when the address is outside its table.
begin_set(t) ==
    /\ At(t, "next") /\ task[t].todo # <<>>
    /\ Current(t).do # "get"
    /\ task' = [task EXCEPT ![t] = IF InRange(Current(t)) THEN [@ EXCEPT !.pc = "lock"]
                                   ELSE Finished(@)]
    /\ UNCHANGED <<map, mutex, created, holder>>

return(t) ==
    /\ At(t, "next") /\ task[t].todo = <<>>
    /\ Goto(t, "done")
    /\ UNCHANGED <<map, mutex, created, holder>>

\* The response has been sent; the task is free for another request.
forget(t) ==
    /\ At(t, "done")
    /\ task' = [task EXCEPT ![t] = Idle]
    /\ UNCHANGED <<map, mutex, created, holder>>

(* mb_lock and mb_unlock *)

lock(t) ==
    /\ At(t, "lock")
    /\ Goto(t, IF mutex = NULL THEN "create" ELSE "take")
    /\ UNCHANGED <<mutex, created>>

xSemaphoreCreateMutex(t) ==
    /\ At(t, "create")
    /\ \/ /\ created < MaxHandles
          /\ created' = created + 1
          /\ mutex' = created + 1
       \/ /\ CreateMayFail
          /\ mutex' = NULL
          /\ UNCHANGED created
    /\ Goto(t, "take")

\* The mutex is created by the first call of mb_lock that finds none.
find_mutex(t) ==
    /\ lock(t) \/ xSemaphoreCreateMutex(t)
    /\ UNCHANGED <<map, holder>>

\* Without a mutex the task goes on unprotected.
take(t) ==
    /\ At(t, "take")
    /\ task' = [task EXCEPT ![t].pc = IF mutex = NULL THEN "inside" ELSE "wait",
                            ![t].handle = mutex]
    /\ UNCHANGED <<map, mutex, created, holder>>

MutantSpin(t) ==
    /\ At(t, "wait")
    /\ IF holder[task[t].handle] = NoTask
       THEN holder' = [holder EXCEPT ![task[t].handle] = t] /\ Goto(t, "inside")
       ELSE Goto(t, "lock") /\ UNCHANGED holder
    /\ UNCHANGED <<map, mutex, created>>

xSemaphoreTake(t) ==
    /\ At(t, "wait")
    /\ holder[task[t].handle] = NoTask
    /\ holder' = [holder EXCEPT ![task[t].handle] = t]
    /\ Goto(t, "inside")
    /\ UNCHANGED <<map, mutex, created>>

\* The mutex given is the one mb_mutex holds now.
unlock(t) ==
    /\ At(t, "unlock")
    /\ holder' = IF mutex = NULL THEN holder ELSE [holder EXCEPT ![mutex] = NoTask]
    /\ task' = [task EXCEPT ![t] =
          IF Current(t).table \in Hooked THEN [@ EXCEPT !.pc = "hook"] ELSE Finished(@)]
    /\ UNCHANGED <<map, mutex, created>>

(* Inside: the assignment of a setter, or the two halves of mb_mask_write_hreg. *)

Stored(t, v) ==
    LET c == Current(t)
    IN  /\ map' = [map EXCEPT ![c.table][c.address] = v]
        /\ task' = [task EXCEPT ![t].pc = "unlock",
                                ![t].value = v,
                                ![t].stored = Append(@, <<c.table, c.address, v>>)]

store(t) ==
    /\ At(t, "inside") /\ Current(t).do = "set"
    /\ Stored(t, Current(t).value)
    /\ UNCHANGED <<mutex, created, holder>>

\* FC22: the current value through the masks.
masked(current, and_mask, or_mask) ==
    (current \cap and_mask) \cup (or_mask \ and_mask)

MutantTwoLocks(t) ==
    /\ At(t, "inside") /\ Current(t).do = "mask"
    /\ IF task[t].data = <<>>
       THEN LET c == Current(t)
            IN  /\ task' = [task EXCEPT ![t].pc = "lock",
                                        ![t].data = <<{}>>,
                                        ![t].value = masked(map[c.table][c.address], c.value, c.or)]
                /\ holder' = [holder EXCEPT ![mutex] = NoTask]
       ELSE Goto(t, "masked") /\ UNCHANGED holder
    /\ UNCHANGED <<map, mutex, created>>

mask_load(t) ==
    /\ At(t, "inside") /\ Current(t).do = "mask"
    /\ LET c == Current(t)
       IN  task' = [task EXCEPT ![t].pc = "masked",
                                ![t].value = masked(map[c.table][c.address], c.value, c.or)]
    /\ UNCHANGED <<map, mutex, created, holder>>

mask_store(t) ==
    /\ At(t, "masked")
    /\ Stored(t, task[t].value)
    /\ UNCHANGED <<mutex, created, holder>>

MutantHookOld(t) ==
    /\ At(t, "hook")
    /\ LET c == Current(t)
       IN  task' = [task EXCEPT ![t] =
               [Finished(task[t]) EXCEPT !.notified =
                   Append(@, <<c.table, c.address, map[c.table][c.address]>>)]]
    /\ UNCHANGED <<map, mutex, created, holder>>

\* mb_on_write_coil or mb_on_write_hreg, with the value written.
hook(t) ==
    /\ At(t, "hook")
    /\ LET c == Current(t)
       IN  task' = [task EXCEPT ![t] =
               [Finished(task[t]) EXCEPT !.notified = Append(@, <<c.table, c.address, task[t].value>>)]]
    /\ UNCHANGED <<map, mutex, created, holder>>

------------------------------------------------------------------------------
(* Specification.  mb_init has cleared the map, alone, before the tasks run; *)
(* it was the first to call mb_lock.                                         *)

MutantLazyMutex ==
    /\ map = [table \in Table |-> [a \in 0 .. Size[table] - 1 |-> {}]]
    /\ created = 0 /\ mutex = NULL
    /\ holder = [h \in Handle |-> NoTask]
    /\ task = [t \in Task |-> Idle]

Init ==
    /\ map = [table \in Table |-> [a \in 0 .. Size[table] - 1 |-> {}]]
    /\ \/ created = 1 /\ mutex = 1
       \/ CreateMayFail /\ created = 0 /\ mutex = NULL
    /\ holder = [h \in Handle |-> NoTask]
    /\ task = [t \in Task |-> Idle]

Access(t) ==
    \/ find_mutex(t) \/ take(t) \/ xSemaphoreTake(t)
    \/ store(t) \/ mask_load(t) \/ mask_store(t) \/ unlock(t) \/ hook(t)

Step(t) == mb_process_pdu(t) \/ get(t) \/ begin_set(t) \/ return(t) \/ forget(t) \/ Access(t)

Next == \E t \in Task : Step(t)

Spec == Init /\ [][Next]_vars

\* A task that can run eventually does, and the tasks that wait for a mutex get it
\* in turn.
Fairness ==
    \A t \in Task :
        /\ WF_vars(get(t) \/ begin_set(t) \/ return(t) \/ forget(t) \/ Access(t))
        /\ SF_vars(xSemaphoreTake(t))

------------------------------------------------------------------------------
(* Properties *)

\* The value FC22 is about to store (mb_mask_write_hreg) is still the masks applied to
\* what the register holds: no other task's write came between its load and its store.
MaskWriteAtomic ==
    \A t \in Task : At(t, "masked") =>
        LET c == Current(t) IN task[t].value = masked(map[c.table][c.address], c.value, c.or)

\* What a write request asks for, read off the PDU.
Wanted(r) ==
    CASE r.function = 5 -> << <<"coils", r.address, IF r.quantity = 0 THEN {} ELSE {0}>> >>
      [] r.function = 6 -> << <<"holding_registers", r.address, r.data[1]>> >>
      [] r.function = 15 ->
            [n \in 1 .. r.quantity |->
                <<"coils", r.address + n - 1,
                  IF \E j \in DOMAIN r.data : \E b \in r.data[j] : 8 * (j - 1) + b = n - 1
                  THEN {0} ELSE {}>>]
      [] r.function = 16 ->
            [n \in 1 .. r.quantity |-> <<"holding_registers", r.address + n - 1, r.data[n]>>]
      [] r.function = 23 ->
            [n \in 1 .. r.wquantity |-> <<"holding_registers", r.waddress + n - 1, r.data[n]>>]
      [] OTHER -> <<>>

\* All or nothing, whatever other tasks do meanwhile: a request that was answered
\* normally has stored exactly what it asks for, in order, and one that was refused has
\* stored nothing ("malformed requests, invalid addresses, and insufficient response
\* capacity do not partially apply a write", docs/modbus-fc23.md:83).
WritesExact ==
    \A t \in Task : (At(t, "done") /\ task[t].request.function \notin {0, 22}) =>
        task[t].stored = IF task[t].exception = 0 THEN Wanted(task[t].request) ELSE <<>>

\* The application's hook hears of every write to a coil or holding register exactly
\* once, in the order of the stores and with the value stored, even when another task
\* has overwritten the register by the time the hook runs.
HookPerWrite ==
    \A t \in Task :
        LET heard == SelectSeq(task[t].stored, LAMBDA w : w[1] \in Hooked)
        IN  /\ IsPrefix(task[t].notified, heard)
            /\ At(t, "done") => task[t].notified = heard

StoredByHolder ==
    map' # map => \E t \in Task : /\ mutex # NULL
                                  /\ holder[mutex] = t
                                  /\ task'[t] # task[t]

\* A register changes only by the task that holds the mutex.
OnlyHolderStores == [][StoredByHolder]_vars

\* What a request that is finished did, on its own: it stored what WritesExact says, and
\* a read response is the table's contents: bit i of a coil response is the coil at
\* address + i, the padding bits are zero, and registers follow in order; in FC23's case
\* the contents after its write ("the response contains the newly written values for
\* overlapping registers", docs/modbus-fc23.md:21).
RequestsExact ==
    /\ WritesExact
    /\ \A t \in Task : (At(t, "done") /\ task[t].exception = 0) =>
        LET r == task[t].request
        IN  /\ r.function \in {1, 2} =>
                 \A j \in 1 .. Packed(r.quantity) :
                    task[t].data[j] =
                       {b \in 0 .. 7 : /\ 8 * (j - 1) + b < r.quantity
                                       /\ map[TableOf(r.function)][r.address + 8 * (j - 1) + b] # {}}
            /\ r.function \in {3, 4, 23} =>
                 task[t].data = [n \in 1 .. r.quantity |->
                                    map[TableOf(r.function)][r.address + n - 1]]

\* Every request is finished: the lock is always given back, so that no task waits
\* for ever.
RequestsFinish == \A t \in Task : ~At(t, "idle") ~> At(t, "idle")
==============================================================================
