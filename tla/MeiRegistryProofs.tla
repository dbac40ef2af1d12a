-------------------------- MODULE MeiRegistryProofs --------------------------
(***************************************************************************)
(* The MEI registry for any number of tasks, entries, types and handlers:  *)
(* one entry per type, and no handler called with another's context.       *)
(***************************************************************************)
EXTENDS MeiRegistry, WellFoundedInduction, TLAPS

\* A set of indices that is not empty has a least element.
LEMMA MinimumIsMember ==
    ASSUME NEW S \in SUBSET Nat, S # {}
    PROVE  Minimum(S) \in S
<1> DEFINE R == OpToRel(<, Nat)
<1>1. IsWellFoundedOn(R, Nat)
  BY NatLessThanWellFounded
<1>2. \A x, y \in Nat : y < x => <<y, x>> \in R
  BY DEF OpToRel
<1> HIDE DEF R
<1>3. PICK x \in S : \A y \in S : ~(<<y, x>> \in R)
  BY <1>1, WFMin
<1>4. \A y \in S : x <= y
  <2> TAKE y \in S
  <2>1. x \in Nat /\ y \in Nat
    OBVIOUS
  <2>2. ~(y < x)
    BY <1>2, <1>3, <2>1, Zenon
  <2> QED
    BY <2>1, <2>2
<1> QED
  BY <1>4 DEF Minimum

------------------------------------------------------------------------------
(* The inductive invariant *)

Pair == Pairs \cup {NULL}

Entry == [in_use : BOOLEAN, type : MeiTypes \cup {0}, handler : Pair, context : Pair]

Inside == {"register", "store_context", "unregister", "clear", "request", "load_context"}

Local ==
    [pc : Inside \cup {"idle", "lock", "call", "calling"},
     kind : {"none", "register", "unregister", "clear", "request"},
     type : MeiTypes \cup {0}, pair : Pair, capacity : Nat, index : Index \cup {0},
     handler : Pair, context : Pair, exception : Nat, length : Nat]

Types ==
    /\ handlers \in [Index -> Entry]
    /\ holder \in Task \cup {NULL}
    /\ task \in [Task -> Local]
    /\ offered \in [Task -> SUBSET Pair]

\* Whoever works on the registry holds the lock; a task about to take it has an operation.
LockHeld ==
    \A t \in Task : /\ task[t].pc \in Inside => holder = t
                    /\ task[t].pc = "lock" => task[t].kind # "none"

\* An entry is whole, or the lock's holder is about to store its context.
EntriesWhole ==
    \A i \in Index : handlers[i].in_use =>
        \/ handlers[i].handler = handlers[i].context
        \/ \E t \in Task : task[t].pc = "store_context" /\ task[t].index = i

\* What a task in the middle of an operation knows of the entry it has found.
HandOf(t) ==
    /\ task[t].pc = "store_context" =>
          task[t].index \in Index /\ handlers[task[t].index].handler = task[t].pair
    /\ task[t].pc = "load_context" =>
          /\ task[t].index \in Index /\ handlers[task[t].index].in_use
          /\ handlers[task[t].index].handler = task[t].handler
          /\ task[t].handler \in offered[t]
    /\ task[t].pc \in {"call", "calling"} =>
          task[t].handler = task[t].context /\ task[t].handler \in offered[t]

InHand == \A t \in Task : HandOf(t)

\* What a look-up may still find has been offered to it.
EntriesOffered ==
    \A t \in Task : task[t].pc \in {"lock", "request"} =>
        \A i \in EntriesOf(task[t].type) : handlers[i].handler \in offered[t]

RegistryInv ==
    Types /\ LockHeld /\ EntriesWhole /\ InHand /\ EntriesOffered /\ OneEntryPerType

USE DEF Pair

------------------------------------------------------------------------------
(* One lemma per action *)

\* The entries of a type are indices.
LEMMA EntriesAreIndices ==
    ASSUME NEW type
    PROVE  EntriesOf(type) \in SUBSET Nat /\ EntriesOf(type) \subseteq Index
BY MeiAssumption DEF EntriesOf, Index

\* A task that does not move, in a registry that stays as it is, keeps what it knows.
LEMMA HandKept ==
    ASSUME InHand, NEW u \in Task, task'[u] = task[u], offered'[u] = offered[u],
           handlers' = handlers
    PROVE  HandOf(u)'
<1>1. HandOf(u)
  BY DEF InHand
<1> QED
  BY <1>1 DEF HandOf

\* A call that begins has been offered the entries of its type.
LEMMA CallKeeps ==
    ASSUME RegistryInv, NEW t \in Task,
           NEW kind \in {"register", "unregister", "clear", "request"},
           NEW type \in MeiTypes \cup {0}, NEW pair \in Pair, NEW capacity \in Nat,
           Call(t, kind, type, pair, capacity)
    PROVE  RegistryInv'
<1> DEFINE next == [Idle EXCEPT !.pc = "lock", !.kind = kind, !.type = type,
                                !.pair = pair, !.capacity = capacity]
<1>1. /\ task[t].pc = "idle" /\ task' = [task EXCEPT ![t] = next]
      /\ offered' = [offered EXCEPT ![t] = {handlers[i].handler : i \in EntriesOf(type)}]
      /\ handlers' = handlers /\ holder' = holder
  BY DEF Call
<1>2. next \in Local /\ next.pc = "lock" /\ next.kind = kind /\ next.type = type
  BY DEF Idle, Local, Inside
<1>3. Types'
  <2>1. {handlers[i].handler : i \in EntriesOf(type)} \subseteq Pair
    BY EntriesAreIndices DEF RegistryInv, Types, Entry
  <2> QED
    BY <1>1, <1>2, <2>1 DEF RegistryInv, Types
<1> HIDE DEF next
<1>4. \A u \in Task : u # t => task'[u] = task[u] /\ offered'[u] = offered[u]
  BY <1>1 DEF RegistryInv, Types
<1>5. task'[t] = next /\ offered'[t] = {handlers[i].handler : i \in EntriesOf(type)}
  BY <1>1 DEF RegistryInv, Types
<1>6. \A x : EntriesOf(x)' = EntriesOf(x)
  BY <1>1 DEF EntriesOf
<1>7. LockHeld'
  BY <1>1, <1>2, <1>4, <1>5 DEF RegistryInv, LockHeld, Inside
<1>8. EntriesWhole'
  BY <1>1, <1>2, <1>4, <1>5 DEF RegistryInv, EntriesWhole
<1>9. InHand'
  <2>1. HandOf(t)'
    BY <1>2, <1>5 DEF HandOf
  <2>2. \A u \in Task : u # t => HandOf(u)'
    BY <1>1, <1>4, HandKept DEF RegistryInv
  <2> QED
    BY <2>1, <2>2 DEF InHand
<1>10. EntriesOffered'
  BY <1>1, <1>2, <1>4, <1>5, <1>6 DEF RegistryInv, EntriesOffered
<1>11. OneEntryPerType'
  BY <1>1 DEF RegistryInv, OneEntryPerType
<1> QED
  BY <1>3, <1>7, <1>8, <1>9, <1>10, <1>11 DEF RegistryInv

\* Nobody is inside when a task enters.
LEMMA LockKeeps ==
    ASSUME RegistryInv, NEW t \in Task, Lock(t)
    PROVE  RegistryInv'
<1>1. /\ task[t].pc = "lock" /\ holder = NULL /\ holder' = t
      /\ task' = [task EXCEPT ![t].pc = task[t].kind]
      /\ handlers' = handlers /\ offered' = offered
  BY DEF Lock, mb_lock, At
<1>2. task[t] \in Local /\ task[t].kind \in {"register", "unregister", "clear", "request"}
  BY <1>1 DEF RegistryInv, Types, LockHeld, Local
<1>3. Types'
  BY <1>1, <1>2 DEF RegistryInv, Types, Local, Inside
<1>4. \A u \in Task : u # t => task'[u] = task[u]
  BY <1>1 DEF RegistryInv, Types
<1>5. task'[t].pc = task[t].kind /\ task'[t].type = task[t].type
  BY <1>1, <1>2 DEF RegistryInv, Types, Local
<1>6. \A x : EntriesOf(x)' = EntriesOf(x)
  BY <1>1 DEF EntriesOf
<1>7. \A u \in Task : task[u].pc \notin Inside
  BY <1>1, MeiAssumption DEF RegistryInv, LockHeld
<1>8. LockHeld'
  BY <1>1, <1>2, <1>4, <1>5, <1>7 DEF RegistryInv, LockHeld, Inside
<1>9. EntriesWhole'
  BY <1>1, <1>4, <1>5, <1>7 DEF RegistryInv, EntriesWhole, Inside
<1>10. InHand'
  <2>1. HandOf(t)'
    BY <1>2, <1>5 DEF HandOf
  <2>2. \A u \in Task : u # t => HandOf(u)'
    BY <1>1, <1>4, HandKept DEF RegistryInv
  <2> QED
    BY <2>1, <2>2 DEF InHand
<1>11. EntriesOffered'
  BY <1>1, <1>2, <1>4, <1>5, <1>6 DEF RegistryInv, EntriesOffered
<1>12. OneEntryPerType'
  BY <1>1 DEF RegistryInv, OneEntryPerType
<1> QED
  BY <1>3, <1>8, <1>9, <1>10, <1>11, <1>12 DEF RegistryInv

\* A task that goes back to idle, and leaves the registry as it is, disturbs nobody.
LEMMA LeavingKeeps ==
    ASSUME RegistryInv, NEW t \in Task, NEW next \in Local, next.pc = "idle",
           task' = [task EXCEPT ![t] = next], handlers' = handlers, offered' = offered,
           \/ task[t].pc \notin Inside /\ holder' = holder
           \/ task[t].pc \in Inside \ {"store_context"} /\ holder' = NULL
    PROVE  RegistryInv'
<1>1. Types'
  BY DEF RegistryInv, Types
<1>2. \A u \in Task : u # t => task'[u] = task[u]
  BY DEF RegistryInv, Types
<1>3. task'[t] = next
  BY DEF RegistryInv, Types
<1>4. \A u \in Task : u # t /\ task[u].pc \in Inside => task[t].pc \notin Inside
  BY DEF RegistryInv, LockHeld
<1>5. \A x : EntriesOf(x)' = EntriesOf(x)
  BY DEF EntriesOf
<1>6. LockHeld'
  BY <1>2, <1>3, <1>4 DEF RegistryInv, LockHeld, Inside
<1>7. EntriesWhole'
  BY <1>2, <1>3 DEF RegistryInv, EntriesWhole, Inside
<1>8. InHand'
  <2>1. HandOf(t)'
    BY <1>3 DEF HandOf
  <2>2. \A u \in Task : u # t => HandOf(u)'
    BY <1>2, HandKept DEF RegistryInv
  <2> QED
    BY <2>1, <2>2 DEF InHand
<1>9. EntriesOffered'
  BY <1>2, <1>3, <1>5 DEF RegistryInv, EntriesOffered
<1>10. OneEntryPerType'
  BY DEF RegistryInv, OneEntryPerType
<1> QED
  BY <1>1, <1>6, <1>7, <1>8, <1>9, <1>10 DEF RegistryInv

\* What a call leaves behind is a local state.
LEMMA ReturnIsLocal ==
    ASSUME Types, NEW t \in Task, NEW exception \in Nat, NEW length \in Nat
    PROVE  LET next == [Idle EXCEPT !.kind = task[t].kind, !.capacity = task[t].capacity,
                                    !.exception = exception, !.length = length]
           IN  next \in Local /\ next.pc = "idle"
<1>1. task[t] \in Local
  BY DEF Types
<1> QED
  BY <1>1 DEF Idle, Local, Inside

\* A call that returns, and leaves the registry as it is, disturbs nobody.
LEMMA ReturnKeeps ==
    ASSUME RegistryInv, NEW t \in Task, NEW exception \in Nat, NEW length \in Nat,
           Returns(t, exception, length), handlers' = handlers, offered' = offered,
           \/ task[t].pc \notin Inside /\ holder' = holder
           \/ task[t].pc \in Inside \ {"store_context"} /\ holder' = NULL
    PROVE  RegistryInv'
<1> DEFINE next == [Idle EXCEPT !.kind = task[t].kind, !.capacity = task[t].capacity,
                                !.exception = exception, !.length = length]
<1>1. task' = [task EXCEPT ![t] = next]
  BY DEF Returns
<1>2. next \in Local /\ next.pc = "idle"
  BY ReturnIsLocal DEF RegistryInv
<1> HIDE DEF next
<1> QED
  BY <1>1, <1>2, LeavingKeeps

\* The first store of a registration: the entry of the type, or an unused one if the
\* type has none.
LEMMA RegisterKeeps ==
    ASSUME RegistryInv, NEW t \in Task, mb_mei_register_handler(t)
    PROVE  RegistryInv'
<1> DEFINE type == task[t].type
           pair == task[t].pair
           i == Minimum(target(type))
<1>1. task[t].pc = "register" /\ task[t] \in Local /\ holder = t
  BY DEF mb_mei_register_handler, RegistryInv, Types, LockHeld, Inside
<1>2. CASE target(type) = {}
  <2>1. /\ holder' = NULL /\ handlers' = handlers /\ offered' = offered
        /\ Returns(t, 0, 0)
    BY <1>2 DEF mb_mei_register_handler, mb_unlock
  <2> QED
    BY <1>1, <2>1, ReturnKeeps DEF Inside
<1>3. CASE target(type) # {}
  <2>1. i \in target(type) /\ i \in Index
    <3>1. target(type) \in SUBSET Nat /\ target(type) \subseteq Index
      BY EntriesAreIndices, MeiAssumption DEF target, Index
    <3>2. i \in target(type)
      BY <1>3, <3>1, MinimumIsMember, Zenon
    <3> QED
      BY <3>1, <3>2
  <2>2. /\ handlers' = [handlers EXCEPT ![i] =
              [@ EXCEPT !.in_use = TRUE, !.type = type, !.handler = pair]]
        /\ task' = [task EXCEPT ![t].pc = "store_context", ![t].index = i]
        /\ offered' = [u \in Task |-> IF task[u].type = type THEN offered[u] \cup {pair}
                                                             ELSE offered[u]]
        /\ holder' = holder
    BY <1>3 DEF mb_mei_register_handler
  <2>3. i \in EntriesOf(type) \/ (EntriesOf(type) = {} /\ ~handlers[i].in_use)
    BY <2>1 DEF target
  <2> HIDE DEF i
  <2>4. /\ type \in MeiTypes \cup {0} /\ pair \in Pair
        /\ handlers[i] \in Entry
    BY <1>1, <2>1 DEF Local, RegistryInv, Types
  <2>5. /\ \A j \in Index : j # i => handlers'[j] = handlers[j]
        /\ handlers'[i].in_use /\ handlers'[i].type = type /\ handlers'[i].handler = pair
        /\ handlers'[i].context = handlers[i].context /\ handlers'[i] \in Entry
    BY <2>1, <2>2, <2>4 DEF RegistryInv, Types, Entry
  <2>6. /\ \A u \in Task : u # t => task'[u] = task[u]
        /\ task'[t].pc = "store_context" /\ task'[t].index = i /\ task'[t].pair = pair
        /\ task'[t].type = type /\ task'[t].kind = task[t].kind /\ task'[t] \in Local
    BY <1>1, <2>1, <2>2 DEF RegistryInv, Types, Local, Inside
  <2>7. Types'
    <3>1. handlers' \in [Index -> Entry]
      BY <2>2, <2>5 DEF RegistryInv, Types
    <3>2. task' \in [Task -> Local]
      BY <2>2, <2>6 DEF RegistryInv, Types
    <3>3. offered' \in [Task -> SUBSET Pair]
      BY <2>2, <2>4 DEF RegistryInv, Types
    <3> QED
      BY <2>2, <3>1, <3>2, <3>3 DEF RegistryInv, Types
  <2>8. \A u \in Task : u # t => task[u].pc \notin Inside
    BY <1>1 DEF RegistryInv, LockHeld
  <2>9. LockHeld'
    BY <1>1, <2>2, <2>6 DEF RegistryInv, LockHeld, Inside
  <2>10. EntriesWhole'
    BY <1>1, <2>5, <2>6, <2>8 DEF RegistryInv, EntriesWhole, Inside
  <2>11. \A u \in Task : offered[u] \subseteq offered'[u]
    BY <2>2 DEF RegistryInv, Types
  <2>12. InHand'
    <3>1. HandOf(t)'
      BY <2>1, <2>5, <2>6 DEF HandOf
    <3>2. ASSUME NEW u \in Task, u # t
          PROVE  HandOf(u)'
      <4>1. HandOf(u) /\ task'[u] = task[u] /\ task[u].pc \notin Inside
        BY <2>6, <2>8, <3>2 DEF RegistryInv, InHand
      <4> QED
        BY <2>11, <4>1 DEF HandOf, Inside
    <3> QED
      BY <3>1, <3>2 DEF InHand
  <2>13. EntriesOffered'
    <3> SUFFICES ASSUME NEW u \in Task, task'[u].pc \in {"lock", "request"},
                        NEW j \in Index, handlers'[j].in_use,
                        handlers'[j].type = task'[u].type
                 PROVE  handlers'[j].handler \in offered'[u]
      BY DEF EntriesOffered, EntriesOf
    <3>1. u # t /\ task'[u] = task[u]
      BY <2>6
    <3>2. CASE j = i
      BY <2>2, <2>5, <3>1, <3>2 DEF RegistryInv, Types
    <3>3. CASE j # i
      BY <2>5, <2>11, <3>1, <3>3 DEF RegistryInv, EntriesOffered, EntriesOf
    <3> QED
      BY <3>2, <3>3
  <2>14. OneEntryPerType'
    BY <2>3, <2>5 DEF RegistryInv, OneEntryPerType, EntriesOf
  <2> QED
    BY <2>7, <2>9, <2>10, <2>12, <2>13, <2>14 DEF RegistryInv
<1> QED
  BY <1>2, <1>3

\* The second store of a registration makes the entry whole again.
LEMMA ContextKeeps ==
    ASSUME RegistryInv, NEW t \in Task, register_context(t)
    PROVE  RegistryInv'
<1> DEFINE i == task[t].index
           pair == task[t].pair
           next == [Idle EXCEPT !.kind = task[t].kind, !.capacity = task[t].capacity,
                                !.exception = 0, !.length = 0]
<1>1. /\ task[t].pc = "store_context" /\ holder' = NULL /\ offered' = offered
      /\ handlers' = [handlers EXCEPT ![i].context = pair]
      /\ task' = [task EXCEPT ![t] = next]
  BY DEF register_context, mb_unlock, Returns
<1>2. /\ task[t] \in Local /\ holder = t
      /\ i \in Index /\ handlers[i].handler = pair /\ handlers[i] \in Entry
  BY <1>1 DEF RegistryInv, Types, LockHeld, InHand, HandOf, Inside
<1>3. pair \in Pair
  BY <1>2 DEF Local
<1>4. next \in Local /\ next.pc = "idle"
  BY ReturnIsLocal DEF RegistryInv
<1> HIDE DEF next, i, pair
<1>5. /\ \A j \in Index : j # i => handlers'[j] = handlers[j]
      /\ handlers'[i].in_use = handlers[i].in_use /\ handlers'[i].type = handlers[i].type
      /\ handlers'[i].handler = pair /\ handlers'[i].context = pair
      /\ handlers'[i] \in Entry
  BY <1>1, <1>2, <1>3 DEF RegistryInv, Types, Entry
<1>6. task'[t] = next /\ \A u \in Task : u # t => task'[u] = task[u]
  BY <1>1 DEF RegistryInv, Types
<1>7. Types'
  BY <1>1, <1>4, <1>5 DEF RegistryInv, Types
<1>8. \A u \in Task : u # t => task[u].pc \notin Inside
  BY <1>2 DEF RegistryInv, LockHeld
<1>9. LockHeld'
  BY <1>4, <1>6, <1>8 DEF RegistryInv, LockHeld, Inside
<1>10. EntriesWhole'
  <2> SUFFICES ASSUME NEW j \in Index, handlers'[j].in_use, j # i
               PROVE  handlers'[j].handler = handlers'[j].context
    BY <1>2, <1>5 DEF EntriesWhole
  <2>1. \A u \in Task : ~(task[u].pc = "store_context" /\ task[u].index = j)
    BY <1>8 DEF Inside, i
  <2> QED
    BY <1>5, <2>1 DEF RegistryInv, EntriesWhole
<1>11. InHand'
  <2>1. HandOf(t)'
    BY <1>4, <1>6 DEF HandOf
  <2>2. ASSUME NEW u \in Task, u # t
        PROVE  HandOf(u)'
    <3>1. HandOf(u) /\ task'[u] = task[u] /\ task[u].pc \notin Inside
      BY <1>6, <1>8, <2>2 DEF RegistryInv, InHand
    <3> QED
      BY <1>1, <3>1 DEF HandOf, Inside
  <2> QED
    BY <2>1, <2>2 DEF InHand
<1>12. EntriesOffered'
  BY <1>1, <1>2, <1>4, <1>5, <1>6 DEF RegistryInv, EntriesOffered, EntriesOf
<1>13. OneEntryPerType'
  BY <1>5 DEF RegistryInv, OneEntryPerType
<1> QED
  BY <1>7, <1>9, <1>10, <1>11, <1>12, <1>13 DEF RegistryInv

\* Entries that become unused, one or all, are nobody's.
LEMMA RemovalKeeps ==
    ASSUME RegistryInv, NEW t \in Task,
           task[t].pc \in {"unregister", "clear"},
           handlers' \in [Index -> Entry],
           \A i \in Index : handlers'[i].in_use => handlers'[i] = handlers[i],
           holder' = NULL, offered' = offered, Returns(t, 0, 0)
    PROVE  RegistryInv'
<1> DEFINE next == [Idle EXCEPT !.kind = task[t].kind, !.capacity = task[t].capacity,
                                !.exception = 0, !.length = 0]
<1>1. task' = [task EXCEPT ![t] = next] /\ holder = t
  BY DEF Returns, RegistryInv, LockHeld, Inside
<1>2. next \in Local /\ next.pc = "idle"
  <2>1. Types /\ 0 \in Nat
    BY DEF RegistryInv
  <2> QED
    BY <2>1, ReturnIsLocal, Zenon
<1> HIDE DEF next
<1>3. \A i \in Index : handlers'[i].in_use => handlers'[i] = handlers[i]
  OBVIOUS
<1>4. task'[t] = next /\ \A u \in Task : u # t => task'[u] = task[u]
  BY <1>1 DEF RegistryInv, Types
<1>5. Types'
  BY <1>1, <1>2 DEF RegistryInv, Types
<1>6. \A u \in Task : u # t => task[u].pc \notin Inside
  BY <1>1 DEF RegistryInv, LockHeld
<1>7. LockHeld'
  BY <1>2, <1>4, <1>6 DEF RegistryInv, LockHeld, Inside
<1>8. EntriesWhole'
  BY <1>3, <1>4, <1>6 DEF RegistryInv, EntriesWhole, Inside
<1>9. InHand'
  <2>1. HandOf(t)'
    BY <1>2, <1>4 DEF HandOf
  <2>2. ASSUME NEW u \in Task, u # t
        PROVE  HandOf(u)'
    <3>1. HandOf(u) /\ task'[u] = task[u] /\ task[u].pc \notin Inside
      BY <1>4, <1>6, <2>2 DEF RegistryInv, InHand
    <3> QED
      BY <3>1 DEF HandOf, Inside
  <2> QED
    BY <2>1, <2>2 DEF InHand
<1>10. EntriesOffered'
  <2> SUFFICES ASSUME NEW u \in Task, task'[u].pc \in {"lock", "request"},
                      NEW j \in Index, handlers'[j].in_use,
                      handlers'[j].type = task'[u].type
               PROVE  handlers'[j].handler \in offered[u]
    BY DEF EntriesOffered, EntriesOf
  <2>1. task'[u] = task[u] /\ handlers'[j] = handlers[j]
    BY <1>2, <1>3, <1>4
  <2> QED
    BY <2>1 DEF RegistryInv, EntriesOffered, EntriesOf
<1>11. OneEntryPerType'
  BY <1>3 DEF RegistryInv, OneEntryPerType
<1> QED
  BY <1>5, <1>7, <1>8, <1>9, <1>10, <1>11 DEF RegistryInv

\* A task that moves on with what it has found, the registry as it is.
LEMMA MovingKeeps ==
    ASSUME RegistryInv, NEW t \in Task, NEW next \in Local,
           task' = [task EXCEPT ![t] = next], handlers' = handlers, offered' = offered,
           task[t].pc # "store_context",
           \/ /\ next.pc = "load_context" /\ task[t].pc \in Inside /\ holder' = holder
              /\ next.index \in Index /\ handlers[next.index].in_use
              /\ handlers[next.index].handler = next.handler
           \/ /\ next.pc \in {"call", "calling"} /\ next.handler = next.context
              /\ \/ task[t].pc \in Inside /\ holder' = NULL
                 \/ task[t].pc \notin Inside /\ holder' = holder,
           next.handler \in offered[t]
    PROVE  RegistryInv'
<1>1. task'[t] = next /\ \A u \in Task : u # t => task'[u] = task[u]
  BY DEF RegistryInv, Types
<1>2. Types'
  BY DEF RegistryInv, Types
<1>3. \A u \in Task : u # t /\ task[u].pc \in Inside => task[t].pc \notin Inside
  BY DEF RegistryInv, LockHeld
<1>4. LockHeld'
  BY <1>1, <1>3 DEF RegistryInv, LockHeld, Inside
<1>5. EntriesWhole'
  BY <1>1 DEF RegistryInv, EntriesWhole
<1>6. InHand'
  <2>1. HandOf(t)'
    BY <1>1 DEF HandOf
  <2>2. \A u \in Task : u # t => HandOf(u)'
    BY <1>1, HandKept DEF RegistryInv
  <2> QED
    BY <2>1, <2>2 DEF InHand
<1>7. EntriesOffered'
  BY <1>1 DEF RegistryInv, EntriesOffered, EntriesOf
<1>8. OneEntryPerType'
  BY DEF RegistryInv, OneEntryPerType
<1> QED
  BY <1>2, <1>4, <1>5, <1>6, <1>7, <1>8 DEF RegistryInv

\* The look-up finds an entry of the type, which has been offered to the request.
LEMMA LookupKeeps ==
    ASSUME RegistryInv, NEW t \in Task, lookup_handler(t)
    PROVE  RegistryInv'
<1> DEFINE entries == EntriesOf(task[t].type)
           i == Minimum(entries)
           next == [task[t] EXCEPT !.pc = "load_context", !.index = i,
                                   !.handler = handlers[i].handler]
<1>1. /\ task[t].pc = "request" /\ task[t] \in Local
      /\ handlers' = handlers /\ offered' = offered
  BY DEF lookup_handler, RegistryInv, Types
<1>2. CASE entries = {}
  <2>1. holder' = NULL /\ Returns(t, ILLEGAL_DATA_VALUE, 0) /\ ILLEGAL_DATA_VALUE \in Nat
    BY <1>2 DEF lookup_handler, mb_unlock, ILLEGAL_DATA_VALUE
  <2> QED
    BY <1>1, <2>1, ReturnKeeps DEF Inside
<1>3. CASE entries # {}
  <2>1. i \in entries
    BY <1>3, EntriesAreIndices, MinimumIsMember, Zenon
  <2>2. /\ i \in Index /\ handlers[i].in_use /\ handlers[i].handler \in offered[t]
        /\ handlers[i].handler \in Pair
    BY <1>1, <2>1 DEF RegistryInv, EntriesOffered, EntriesOf, Types, Entry
  <2>3. task' = [task EXCEPT ![t] = next] /\ holder' = holder
    <3>1. /\ task' = [task EXCEPT ![t].pc = "load_context", ![t].index = i,
                                  ![t].handler = handlers[i].handler]
          /\ holder' = holder
      BY <1>3 DEF lookup_handler
    <3> HIDE DEF i
    <3> QED
      BY <1>1, <3>1 DEF RegistryInv, Types, Local
  <2> HIDE DEF i
  <2>4. /\ next \in Local /\ next.pc = "load_context" /\ next.index = i
        /\ next.handler = handlers[i].handler
    BY <1>1, <2>2 DEF Local, Inside
  <2> HIDE DEF next
  <2> QED
    BY <1>1, <2>2, <2>3, <2>4, MovingKeeps DEF Inside
<1> QED
  BY <1>2, <1>3

\* The context is loaded under the same lock as the handler: the entry is still whole.
LEMMA LoadKeeps ==
    ASSUME RegistryInv, NEW t \in Task, lookup_context(t)
    PROVE  RegistryInv'
<1> DEFINE i == task[t].index
           next == [task[t] EXCEPT !.pc = "call", !.context = handlers[i].context]
<1>1. /\ task[t].pc = "load_context" /\ task[t] \in Local /\ holder = t /\ holder' = NULL
      /\ handlers' = handlers /\ offered' = offered
      /\ task' = [task EXCEPT ![t].pc = "call", ![t].context = handlers[i].context]
  BY DEF lookup_context, mb_unlock, RegistryInv, Types, LockHeld, Inside
<1>2. /\ i \in Index /\ handlers[i].in_use /\ handlers[i].handler = task[t].handler
      /\ task[t].handler \in offered[t] /\ handlers[i].context \in Pair
  BY <1>1 DEF RegistryInv, InHand, HandOf, Types, Entry
<1>3. \A u \in Task : task[u].pc # "store_context"
  BY <1>1 DEF RegistryInv, LockHeld, Inside
<1>4. handlers[i].context = task[t].handler
  BY <1>2, <1>3 DEF RegistryInv, EntriesWhole
<1>5. task' = [task EXCEPT ![t] = next]
  BY <1>1 DEF RegistryInv, Types, Local
<1>6. /\ next \in Local /\ next.pc = "call" /\ next.handler = task[t].handler
      /\ next.context = next.handler
  BY <1>1, <1>2, <1>4 DEF Local, Inside
<1> HIDE DEF next
<1> QED
  BY <1>1, <1>2, <1>5, <1>6, MovingKeeps DEF Inside

\* Without the lock the task goes by what it has loaded.
LEMMA CallingKeeps ==
    ASSUME RegistryInv, NEW t \in Task, call_handler(t)
    PROVE  RegistryInv'
<1> DEFINE next == [task[t] EXCEPT !.pc = "calling"]
<1>1. /\ task[t].pc = "call" /\ task[t] \in Local
      /\ handlers' = handlers /\ offered' = offered /\ holder' = holder
  BY DEF call_handler, RegistryInv, Types
<1>2. task[t].handler = task[t].context /\ task[t].handler \in offered[t]
  BY <1>1 DEF RegistryInv, InHand, HandOf
<1>3. CASE Limit(t) < 2
  <2>1. Returns(t, SERVER_FAILURE, 0) /\ SERVER_FAILURE \in Nat
    BY <1>3 DEF call_handler, SERVER_FAILURE
  <2> QED
    BY <1>1, <2>1, ReturnKeeps DEF Inside
<1>4. CASE ~(Limit(t) < 2)
  <2>1. task' = [task EXCEPT ![t] = next]
    BY <1>1, <1>4 DEF call_handler, At, RegistryInv, Types, Local
  <2>2. /\ next \in Local /\ next.pc = "calling" /\ next.handler = task[t].handler
        /\ next.context = task[t].context
    BY <1>1 DEF Local, Inside
  <2> HIDE DEF next
  <2> QED
    BY <1>1, <1>2, <2>1, <2>2, MovingKeeps DEF Inside
<1> QED
  BY <1>3, <1>4

\* Whatever the handler returns, the task goes back to idle.
LEMMA ReturningKeeps ==
    ASSUME RegistryInv, NEW t \in Task, NEW result \in Results, handler_returns(t, result)
    PROVE  RegistryInv'
<1>1. /\ task[t].pc = "calling"
      /\ handlers' = handlers /\ offered' = offered /\ holder' = holder
  BY DEF handler_returns
<1>2. result.code \in Nat /\ result.length \in Nat
  BY MeiAssumption
<1>3. \E exception \in Nat, length \in Nat : Returns(t, exception, length)
  BY <1>2 DEF handler_returns, SERVER_FAILURE
<1>4. PICK exception \in Nat, length \in Nat : Returns(t, exception, length)
  BY <1>3
<1> QED
  BY <1>1, <1>4, ReturnKeeps DEF Inside

------------------------------------------------------------------------------
(* The theorems *)

\* The invariant holds in every state of the registry.
THEOREM RegistryInvariant == MeiSpec => []RegistryInv
<1>1. MeiInit => RegistryInv
  <2> SUFFICES ASSUME MeiInit PROVE RegistryInv
    OBVIOUS
  <2>1. Idle \in Local /\ Idle.pc = "idle" /\ Unused \in Entry /\ ~Unused.in_use
    BY DEF Idle, Local, Unused, Entry, Inside
  <2>2. (\A t \in Task : task[t] = Idle) /\ (\A i \in Index : handlers[i] = Unused)
    BY DEF MeiInit
  <2> QED
    BY <2>1, <2>2 DEF MeiInit, RegistryInv, Types, LockHeld, EntriesWhole, InHand, HandOf,
                      EntriesOffered, EntriesOf, OneEntryPerType, Inside
<1>2. RegistryInv /\ [MeiNext]_mei_vars => RegistryInv'
  <2> SUFFICES ASSUME RegistryInv, [MeiNext]_mei_vars
               PROVE  RegistryInv'
    OBVIOUS
  <2>0. Unused \in Entry /\ ~Unused.in_use
    BY DEF Unused, Entry
  <2>1. CASE UNCHANGED mei_vars
    BY <2>1 DEF mei_vars, RegistryInv, Types, LockHeld, EntriesWhole, InHand, HandOf,
                EntriesOffered, EntriesOf, OneEntryPerType
  <2>2. CASE MeiNext
    <3> SUFFICES ASSUME NEW t \in Task,
                   \/ \E type \in MeiTypes, pair \in Pairs \cup {NULL} :
                         Call(t, "register", type, pair, 0)
                   \/ \E type \in MeiTypes : Call(t, "unregister", type, NULL, 0)
                   \/ Call(t, "clear", 0, NULL, 0)
                   \/ \E type \in MeiTypes, capacity \in Capacities :
                         Call(t, "request", type, NULL, capacity)
                   \/ Lock(t)
                   \/ mb_mei_register_handler(t) \/ register_context(t)
                   \/ mb_mei_unregister_handler(t) \/ mb_mei_clear_handlers(t)
                   \/ lookup_handler(t) \/ lookup_context(t)
                   \/ call_handler(t)
                   \/ \E result \in Results : handler_returns(t, result)
                 PROVE  RegistryInv'
      BY <2>2 DEF MeiNext
    <3>1. CASE \/ \E type \in MeiTypes, pair \in Pairs \cup {NULL} :
                     Call(t, "register", type, pair, 0)
               \/ \E type \in MeiTypes : Call(t, "unregister", type, NULL, 0)
               \/ Call(t, "clear", 0, NULL, 0)
               \/ \E type \in MeiTypes, capacity \in Capacities :
                     Call(t, "request", type, NULL, capacity)
      <4>1. NULL \in Pair /\ Capacities \subseteq Nat
        BY MeiAssumption
      <4> QED
        BY <3>1, <4>1, CallKeeps
    <3>2. CASE mb_mei_unregister_handler(t)
      <4>1. /\ task[t].pc \in {"unregister", "clear"} /\ holder' = NULL
            /\ offered' = offered /\ Returns(t, 0, 0)
        BY <3>2 DEF mb_mei_unregister_handler, mb_unlock
      <4>2. \/ handlers' = handlers
            \/ handlers' = [handlers EXCEPT ![Minimum(EntriesOf(task[t].type))] = Unused]
        BY <3>2 DEF mb_mei_unregister_handler
      <4>3. /\ handlers' \in [Index -> Entry]
            /\ \A i \in Index : handlers'[i].in_use => handlers'[i] = handlers[i]
        BY <2>0, <4>2 DEF RegistryInv, Types
      <4> QED
        BY <4>1, <4>3, RemovalKeeps
    <3>3. CASE mb_mei_clear_handlers(t)
      <4>1. /\ task[t].pc \in {"unregister", "clear"} /\ holder' = NULL
            /\ offered' = offered /\ Returns(t, 0, 0)
        BY <3>3 DEF mb_mei_clear_handlers, mb_unlock
      <4>2. handlers' = [i \in Index |-> Unused]
        BY <3>3 DEF mb_mei_clear_handlers
      <4>3. /\ handlers' \in [Index -> Entry]
            /\ \A i \in Index : handlers'[i].in_use => handlers'[i] = handlers[i]
        BY <2>0, <4>2
      <4> QED
        BY <4>1, <4>3, RemovalKeeps
    <3> QED
      BY <3>1, <3>2, <3>3, LockKeeps, RegisterKeeps, ContextKeeps, LookupKeeps, LoadKeeps,
         CallingKeeps, ReturningKeeps
  <2> QED
    BY <2>1, <2>2
<1> QED
  BY <1>1, <1>2, PTL DEF MeiSpec

\* For any number of entries and tasks mb_mei_register_handler never enters a type twice,
\* whatever removals came before (modbus.c:167-205).
THEOREM TypesEnteredOnce == MeiSpec => []OneEntryPerType
<1>1. RegistryInv => OneEntryPerType
  BY DEF RegistryInv
<1> QED
  BY <1>1, RegistryInvariant, PTL

\* For any number of tasks a handler is called with its own context, and was registered
\* for the type during the request, although the call comes after the unlock.
THEOREM PairsStayWhole == MeiSpec => []PairWhole
<1>1. RegistryInv => PairWhole
  BY DEF RegistryInv, InHand, HandOf, PairWhole
<1> QED
  BY <1>1, RegistryInvariant, PTL
==============================================================================
