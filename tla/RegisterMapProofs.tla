-------------------------- MODULE RegisterMapProofs --------------------------
(***************************************************************************)
(* What the lock of the register map guarantees when mb_init got its mutex *)
(* (~CreateMayFail), for any number of tasks, any table sizes and any      *)
(* requests.                                                               *)
(***************************************************************************)
EXTENDS RegisterMap, TLAPS

\* Where a task is inside the critical section.
Section == {"inside", "masked", "unlock"}

Fields == DOMAIN Idle

\* The masks applied to what the register of a call holds in the tables m.
MaskedIn(m, c) == masked(m[c.table][c.address], c.value, c.or)

\* What holds of a task's state s: inside the section it holds the mutex, it never
\* creates another, and the value of an FC22 that is half done is up to date.
TaskOK(t, s, h, m) ==
    /\ DOMAIN s = Fields
    /\ s.pc \in Section => h[1] = t
    /\ s.pc = "wait" => s.handle = 1
    /\ s.pc # "create"
    /\ s.pc = "masked" => s.value = MaskedIn(m, Head(s.todo))

\* The inductive invariant: there is the one mutex of mb_init, and every task is OK.
LockInv ==
    /\ mutex = 1
    /\ holder \in [Handle -> Task \cup {NoTask}]
    /\ DOMAIN task = Task
    /\ \A t \in Task : TaskOK(t, task[t], holder, map)

LEMMA FieldsOf ==
    Fields = {"pc", "request", "exception", "todo", "data", "handle", "value", "stored", "notified"}
BY DEF Fields, Idle

\* A step that replaces the state of t alone.
LEMMA Replaces ==
    ASSUME DOMAIN task = Task, NEW t \in Task, NEW s, task' = [task EXCEPT ![t] = s]
    PROVE  /\ DOMAIN task' = Task
           /\ task'[t] = s
           /\ \A u \in Task : u # t => task'[u] = task[u]
OBVIOUS

\* A step of t that leaves the tables and the mutex alone, and goes to a place where
\* nothing is required of t but its shape.
LEMMA QuietStep ==
    ASSUME LockInv, NEW t \in Task, NEW s,
           task' = [task EXCEPT ![t] = s],
           TaskOK(t, s, holder, map),
           UNCHANGED <<map, mutex, holder>>
    PROVE  LockInv'
<1>1. /\ DOMAIN task' = Task
      /\ task'[t] = s
      /\ \A u \in Task : u # t => task'[u] = task[u]
  BY Replaces DEF LockInv
<1>2. ASSUME NEW u \in Task
      PROVE  TaskOK(u, task'[u], holder', map')
  <2>1. CASE u = t
    BY <1>1, <2>1
  <2>2. CASE u # t
    BY <1>1, <2>2 DEF LockInv
  <2> QED BY <2>1, <2>2
<1> QED BY <1>1, <1>2 DEF LockInv

\* A step of t, the holder, that changes a table: no other task is in the section.
LEMMA HolderStep ==
    ASSUME LockInv, NEW t \in Task, NEW s,
           task[t].pc \in Section,
           task' = [task EXCEPT ![t] = s],
           DOMAIN s = Fields,
           s.pc = "unlock",
           UNCHANGED <<mutex, holder>>
    PROVE  LockInv'
<1>1. /\ DOMAIN task' = Task
      /\ task'[t] = s
      /\ \A u \in Task : u # t => task'[u] = task[u]
  BY Replaces DEF LockInv
<1>2. holder[1] = t
  BY DEF LockInv, TaskOK
<1>3. ASSUME NEW u \in Task
      PROVE  TaskOK(u, task'[u], holder', map')
  <2>1. CASE u = t
    BY <1>1, <1>2, <2>1 DEF TaskOK
  <2>2. CASE u # t
    <3>1. task[u].pc \notin Section
      BY <1>2, <2>2 DEF LockInv, TaskOK
    <3> QED BY <1>1, <2>2, <3>1 DEF LockInv, TaskOK, Section
  <2> QED BY <2>1, <2>2
<1> QED BY <1>1, <1>3 DEF LockInv

\* Replacing the program counter keeps the rest of a task's state.
LEMMA PcOnly ==
    ASSUME NEW s, DOMAIN s = Fields, NEW pc
    PROVE  /\ DOMAIN [s EXCEPT !.pc = pc] = Fields
           /\ [s EXCEPT !.pc = pc].pc = pc
           /\ [s EXCEPT !.pc = pc].handle = s.handle
           /\ [s EXCEPT !.pc = pc].todo = s.todo
           /\ [s EXCEPT !.pc = pc].value = s.value
BY FieldsOf

LEMMA FinishedState ==
    ASSUME NEW s, DOMAIN s = Fields
    PROVE  DOMAIN Finished(s) = Fields /\ Finished(s).pc = "next"
BY FieldsOf DEF Finished

LEMMA InitLock ==
    ASSUME ~CreateMayFail, Init
    PROVE  LockInv
<1>1. mutex = 1 /\ holder \in [Handle -> Task \cup {NoTask}]
  BY DEF Init
<1>2. ASSUME NEW t \in Task
      PROVE  TaskOK(t, task[t], holder, map)
  <2>1. task[t] = Idle /\ Idle.pc = "idle"
    BY DEF Init, Idle
  <2> QED BY <2>1 DEF TaskOK, Section, Fields
<1> QED BY <1>1, <1>2 DEF LockInv, Init

LEMMA StepLock ==
    ASSUME LockInv, NEW t \in Task, Step(t)
    PROVE  LockInv'
<1> USE DEF At
<1>0. TaskOK(t, task[t], holder, map) /\ DOMAIN task[t] = Fields
  BY DEF LockInv, TaskOK
<1>1. CASE mb_process_pdu(t)
  <2> DEFINE exc(r) == IF r.function = 0 THEN 0 ELSE exception_of(r)
             todo(r) == IF r.function = 0 THEN r.data
                        ELSE IF exc(r) = 0 THEN process_pdu_function(r) ELSE <<>>
             data(r) == IF exc(r) = 0 THEN BlankData(r) ELSE <<>>
             pc(r) == IF exc(r) = 0 THEN "next" ELSE "done"
             new(r) == [Idle EXCEPT !.request = r, !.exception = exc(r), !.pc = pc(r),
                                    !.todo = todo(r), !.data = data(r)]
  <2>1. PICK r \in Requests : task' = [task EXCEPT ![t] = new(r)]
    BY <1>1 DEF mb_process_pdu
  <2>2. DOMAIN new(r) = Fields /\ new(r).pc = pc(r)
    <3> HIDE DEF exc, todo, data, pc
    <3> QED BY FieldsOf DEF Idle
  <2>3. TaskOK(t, new(r), holder, map)
    <3> HIDE DEF new
    <3> QED BY <2>2 DEF TaskOK, Section
  <2>4. UNCHANGED <<map, mutex, holder>>
    BY <1>1 DEF mb_process_pdu
  <2> HIDE DEF new
  <2> QED BY <2>1, <2>3, <2>4, QuietStep
<1>2. CASE get(t)
  <2> DEFINE c == Current(t)
             v == IF InRange(c) THEN map[c.table][c.address] ELSE {}
             f == Finished(task[t])
             new == [f EXCEPT !.data = with_value(@, c, v)]
  <2>1. task' = [task EXCEPT ![t] = new]
    BY <1>2 DEF get
  <2>2. DOMAIN f = Fields /\ f.pc = "next"
    BY <1>0, FinishedState
  <2>3. DOMAIN new = Fields /\ new.pc = "next"
    <3> HIDE DEF c, v, f
    <3> QED BY <2>2, FieldsOf
  <2>4. TaskOK(t, new, holder, map)
    <3> HIDE DEF new
    <3> QED BY <2>3 DEF TaskOK, Section
  <2>5. UNCHANGED <<map, mutex, holder>>
    BY <1>2 DEF get
  <2> HIDE DEF new
  <2> QED BY <2>1, <2>4, <2>5, QuietStep
<1>3. CASE begin_set(t)
  <2> DEFINE new == IF InRange(Current(t)) THEN [task[t] EXCEPT !.pc = "lock"]
                    ELSE Finished(task[t])
  <2>1. task' = [task EXCEPT ![t] = new] /\ UNCHANGED <<map, mutex, holder>>
    BY <1>3 DEF begin_set
  <2>2. DOMAIN new = Fields /\ new.pc \in {"lock", "next"}
    BY <1>0, PcOnly, FinishedState
  <2>3. TaskOK(t, new, holder, map)
    <3> HIDE DEF new
    <3> QED BY <2>2 DEF TaskOK, Section
  <2> HIDE DEF new
  <2> QED BY <2>1, <2>3, QuietStep
<1>4. CASE return(t)
  <2> DEFINE new == [task[t] EXCEPT !.pc = "done"]
  <2>1. task' = [task EXCEPT ![t] = new] /\ UNCHANGED <<map, mutex, holder>>
    BY <1>4 DEF return, Goto
  <2>2. DOMAIN new = Fields /\ new.pc = "done"
    BY <1>0, PcOnly
  <2>3. TaskOK(t, new, holder, map)
    <3> HIDE DEF new
    <3> QED BY <2>2 DEF TaskOK, Section
  <2> HIDE DEF new
  <2> QED BY <2>1, <2>3, QuietStep
<1>5. CASE forget(t)
  <2>1. task' = [task EXCEPT ![t] = Idle] /\ UNCHANGED <<map, mutex, holder>>
    BY <1>5 DEF forget
  <2>2. TaskOK(t, Idle, holder, map)
    BY DEF TaskOK, Section, Idle, Fields
  <2> QED BY <2>1, <2>2, QuietStep
<1>6. CASE lock(t) /\ UNCHANGED <<map, holder>>
  <2> DEFINE new == [task[t] EXCEPT !.pc = "take"]
  <2>1. mutex # NULL
    BY DEF LockInv, NULL
  <2>2. task' = [task EXCEPT ![t] = new] /\ UNCHANGED <<map, mutex, holder>>
    BY <1>6, <2>1 DEF lock, Goto
  <2>3. DOMAIN new = Fields /\ new.pc = "take"
    BY <1>0, PcOnly
  <2>4. TaskOK(t, new, holder, map)
    <3> HIDE DEF new
    <3> QED BY <2>3 DEF TaskOK, Section
  <2> HIDE DEF new
  <2> QED BY <2>2, <2>4, QuietStep
<1>7. CASE xSemaphoreCreateMutex(t)
  BY <1>0, <1>7 DEF xSemaphoreCreateMutex, TaskOK
<1>8. CASE take(t)
  <2> DEFINE new == [task[t] EXCEPT !.pc = "wait", !.handle = 1]
  <2>1. mutex = 1 /\ mutex # NULL
    BY DEF LockInv, NULL
  <2>2. task' = [task EXCEPT ![t] = new] /\ UNCHANGED <<map, mutex, holder>>
    BY <1>8, <2>1 DEF take
  <2>3. DOMAIN new = Fields /\ new.pc = "wait" /\ new.handle = 1
    BY <1>0, FieldsOf
  <2>4. TaskOK(t, new, holder, map)
    <3> HIDE DEF new
    <3> QED BY <2>3 DEF TaskOK, Section
  <2> HIDE DEF new
  <2> QED BY <2>2, <2>4, QuietStep
<1>9. CASE xSemaphoreTake(t)
  <2> DEFINE new == [task[t] EXCEPT !.pc = "inside"]
  <2>1. task[t].handle = 1 /\ holder[1] = NoTask
    BY <1>0, <1>9 DEF xSemaphoreTake, TaskOK
  <2>2. /\ task' = [task EXCEPT ![t] = new]
        /\ holder' = [holder EXCEPT ![1] = t]
        /\ UNCHANGED <<map, mutex>>
    BY <1>9, <2>1 DEF xSemaphoreTake, Goto
  <2>3. DOMAIN new = Fields /\ new.pc = "inside"
    BY <1>0, PcOnly
  <2>4. 1 \in Handle
    BY RegisterMapAssumption DEF Handle
  <2>5. holder' \in [Handle -> Task \cup {NoTask}] /\ holder'[1] = t
    BY <2>2, <2>4 DEF LockInv
  <2> HIDE DEF new
  <2>6. /\ DOMAIN task' = Task /\ task'[t] = new
        /\ \A u \in Task : u # t => task'[u] = task[u]
    BY <2>2, Replaces DEF LockInv
  <2>7. ASSUME NEW u \in Task
        PROVE  TaskOK(u, task'[u], holder', map')
    <3>1. CASE u = t
      BY <2>3, <2>5, <2>6, <3>1 DEF TaskOK, Section
    <3>2. CASE u # t
      <4>1. task[u].pc \notin Section
        BY <2>1, RegisterMapAssumption DEF LockInv, TaskOK
      <4> QED BY <2>2, <2>6, <3>2, <4>1 DEF LockInv, TaskOK, Section
    <3> QED BY <3>1, <3>2
  <2> QED BY <2>2, <2>5, <2>6, <2>7 DEF LockInv
<1>10. CASE store(t)
  <2> DEFINE c == Current(t)
             new == [task[t] EXCEPT !.pc = "unlock", !.value = c.value,
                                    !.stored = Append(@, <<c.table, c.address, c.value>>)]
  <2>1. task' = [task EXCEPT ![t] = new] /\ UNCHANGED <<mutex, holder>>
    BY <1>10 DEF store, Stored
  <2>2. DOMAIN new = Fields /\ new.pc = "unlock"
    <3> HIDE DEF c
    <3> QED BY <1>0, FieldsOf
  <2>3. task[t].pc \in Section
    BY <1>10 DEF store, Section
  <2> HIDE DEF new
  <2> QED BY <2>1, <2>2, <2>3, HolderStep
<1>11. CASE mask_load(t)
  <2> DEFINE c == Current(t)
             w == MaskedIn(map, c)
             new == [task[t] EXCEPT !.pc = "masked", !.value = w]
  <2>1. task' = [task EXCEPT ![t] = new] /\ UNCHANGED <<map, mutex, holder>>
    BY <1>11 DEF mask_load, MaskedIn
  <2>2. DOMAIN new = Fields /\ new.pc = "masked" /\ new.value = w /\ new.todo = task[t].todo
    <3> HIDE DEF w
    <3> QED BY <1>0, FieldsOf
  <2>3. holder[1] = t
    BY <1>0, <1>11 DEF mask_load, TaskOK, Section
  <2>4. TaskOK(t, new, holder, map)
    <3>1. w = MaskedIn(map, Head(new.todo))
      <4>1. c = Head(task[t].todo)
        BY DEF Current
      <4> HIDE DEF c, new
      <4> QED BY <2>2, <4>1
    <3> HIDE DEF new, w
    <3> QED BY <2>2, <2>3, <3>1 DEF TaskOK, Section
  <2> HIDE DEF new
  <2> QED BY <2>1, <2>4, QuietStep
<1>12. CASE mask_store(t)
  <2> DEFINE c == Current(t)
             w == task[t].value
             new == [task[t] EXCEPT !.pc = "unlock", !.value = w,
                                    !.stored = Append(@, <<c.table, c.address, w>>)]
  <2>1. task' = [task EXCEPT ![t] = new] /\ UNCHANGED <<mutex, holder>>
    BY <1>12 DEF mask_store, Stored
  <2>2. DOMAIN new = Fields /\ new.pc = "unlock"
    <3> HIDE DEF c, w
    <3> QED BY <1>0, FieldsOf
  <2>3. task[t].pc \in Section
    BY <1>12 DEF mask_store, Section
  <2> HIDE DEF new
  <2> QED BY <2>1, <2>2, <2>3, HolderStep
<1>13. CASE unlock(t)
  <2> DEFINE new == IF Current(t).table \in Hooked THEN [task[t] EXCEPT !.pc = "hook"]
                    ELSE Finished(task[t])
  <2>1. mutex = 1 /\ mutex # NULL
    BY DEF LockInv, NULL
  <2>2. /\ task' = [task EXCEPT ![t] = new]
        /\ holder' = [holder EXCEPT ![1] = NoTask]
        /\ UNCHANGED <<map, mutex>>
    BY <1>13, <2>1 DEF unlock
  <2>3. DOMAIN new = Fields /\ new.pc \in {"hook", "next"}
    BY <1>0, PcOnly, FinishedState
  <2>4. holder[1] = t
    BY <1>0, <1>13 DEF unlock, TaskOK, Section
  <2>5. holder' \in [Handle -> Task \cup {NoTask}]
    BY <2>2 DEF LockInv
  <2> HIDE DEF new
  <2>6. /\ DOMAIN task' = Task /\ task'[t] = new
        /\ \A u \in Task : u # t => task'[u] = task[u]
    BY <2>2, Replaces DEF LockInv
  <2>7. ASSUME NEW u \in Task
        PROVE  TaskOK(u, task'[u], holder', map')
    <3>1. CASE u = t
      BY <2>3, <2>6, <3>1 DEF TaskOK, Section
    <3>2. CASE u # t
      <4>1. task[u].pc \notin Section
        BY <2>4, <3>2 DEF LockInv, TaskOK
      <4> QED BY <2>2, <2>6, <3>2, <4>1 DEF LockInv, TaskOK, Section
    <3> QED BY <3>1, <3>2
  <2> QED BY <2>2, <2>5, <2>6, <2>7 DEF LockInv
<1>14. CASE hook(t)
  <2> DEFINE c == Current(t)
             f == Finished(task[t])
             new == [f EXCEPT !.notified = Append(@, <<c.table, c.address, task[t].value>>)]
  <2>1. task' = [task EXCEPT ![t] = new] /\ UNCHANGED <<map, mutex, holder>>
    BY <1>14 DEF hook
  <2>2. DOMAIN f = Fields /\ f.pc = "next"
    BY <1>0, FinishedState
  <2>3. DOMAIN new = Fields /\ new.pc = "next"
    <3> HIDE DEF c, f
    <3> QED BY <2>2, FieldsOf
  <2>4. TaskOK(t, new, holder, map)
    <3> HIDE DEF new
    <3> QED BY <2>3 DEF TaskOK, Section
  <2> HIDE DEF new
  <2> QED BY <2>1, <2>4, QuietStep
<1> QED
  BY <1>1, <1>2, <1>3, <1>4, <1>5, <1>6, <1>7, <1>8, <1>9, <1>10, <1>11, <1>12, <1>13, <1>14
     DEF Step, Access, find_mutex

LEMMA LockInvariant ==
    ASSUME ~CreateMayFail
    PROVE  Spec => []LockInv
<1>1. Init => LockInv
  BY InitLock
<1>2. LockInv /\ [Next]_vars => LockInv'
  <2>1. ASSUME LockInv, Next PROVE LockInv'
    BY <2>1, StepLock DEF Next
  <2>2. ASSUME LockInv, UNCHANGED vars PROVE LockInv'
    BY <2>2 DEF LockInv, vars
  <2> QED BY <2>1, <2>2
<1> QED BY <1>1, <1>2, PTL DEF Spec

\* FC22 is atomic (mb_mask_write_hreg): between its load and its store no other task
\* writes the register, for any number of tasks and any requests, once mb_init has got
\* its mutex.
THEOREM MaskWriteIsAtomic ==
    ASSUME ~CreateMayFail
    PROVE  Spec => []MaskWriteAtomic
<1>1. LockInv => MaskWriteAtomic
  BY DEF LockInv, TaskOK, MaskWriteAtomic, MaskedIn, At, Current
<1> QED BY <1>1, LockInvariant, PTL

LEMMA StepStores ==
    ASSUME LockInv, NEW t \in Task, Step(t), map' # map
    PROVE  mutex # NULL /\ holder[mutex] = t /\ task'[t] # task[t]
<1> USE DEF At
<1>1. mutex = 1 /\ mutex # NULL
  BY DEF LockInv, NULL
<1>2. store(t) \/ mask_store(t)
  BY DEF Step, Access, mb_process_pdu, get, begin_set, return, forget, find_mutex, lock,
         xSemaphoreCreateMutex, take, xSemaphoreTake, mask_load, unlock, hook
<1>3. task[t].pc \in {"inside", "masked"}
  BY <1>2 DEF store, mask_store
<1>4. holder[mutex] = t
  BY <1>1, <1>3 DEF LockInv, TaskOK, Section
<1>5. ASSUME NEW v, Stored(t, v)
      PROVE  task'[t].pc = "unlock"
  <2> DEFINE c == Current(t)
             new == [task[t] EXCEPT !.pc = "unlock", !.value = v,
                                    !.stored = Append(@, <<c.table, c.address, v>>)]
  <2>1. task' = [task EXCEPT ![t] = new]
    BY <1>5 DEF Stored
  <2>2. new.pc = "unlock"
    <3>1. DOMAIN task[t] = Fields
      BY DEF LockInv, TaskOK
    <3> HIDE DEF c
    <3> QED BY <3>1, FieldsOf
  <2> HIDE DEF new
  <2>3. task'[t] = new
    BY <2>1, Replaces DEF LockInv
  <2> QED BY <2>2, <2>3
<1>6. task'[t].pc = "unlock"
  BY <1>2, <1>5 DEF store, mask_store
<1> QED BY <1>1, <1>3, <1>4, <1>6

\* No register changes except by the task that holds the mutex (mb_lock, mb_unlock),
\* once mb_init has got its mutex.
THEOREM HolderStores ==
    ASSUME ~CreateMayFail
    PROVE  Spec => OnlyHolderStores
<1>1. LockInv /\ [Next]_vars => [StoredByHolder]_vars
  <2>1. ASSUME LockInv, Next PROVE StoredByHolder
    <3>1. PICK t \in Task : Step(t)
      BY <2>1 DEF Next
    <3> QED BY <2>1, <3>1, StepStores DEF StoredByHolder
  <2> QED BY <2>1
<1>2. Spec => [][Next]_vars
  BY PTL DEF Spec
<1> QED BY <1>1, <1>2, LockInvariant, PTL DEF OnlyHolderStores
==============================================================================
