--------------------------- MODULE RtuServerProofs ---------------------------
(* Proofs about the frame processing and the diagnostics of RtuServer. *)
EXTENDS RtuServer, ModularArithmetic

\* What LogIsHistory says of a log.
RingOK(log) ==
    /\ log.count = Len(log.history)
    /\ \A i \in 0 .. log.count - 1 :
          mbrtu_diagnostics_get_event(log, i) = log.history[i + 1]

------------------------------------------------------------------------------
(* The event ring *)

LEMMA NextHead ==
    ASSUME NEW log \in EventLog
    PROVE  /\ next_head(log) \in Slot
           /\ log.count # 0 => next_head(log) = IF log.head = 0 THEN LogCapacity - 1
                                                ELSE log.head - 1
BY ServerAssumption DEF EventLog, Slot, next_head

LEMMA NewestIs ==
    ASSUME NEW h \in Seq(Event), NEW e \in Event, Len(h) <= LogCapacity
    PROVE  /\ Newest(<<e>> \o h) \in Seq(Event)
           /\ Len(Newest(<<e>> \o h)) =
                 IF Len(h) < LogCapacity THEN Len(h) + 1 ELSE LogCapacity
           /\ Newest(<<e>> \o h)[1] = e
           /\ \A i \in 1 .. Len(Newest(<<e>> \o h)) - 1 :
                 Newest(<<e>> \o h)[i + 1] = h[i]
<1> DEFINE s == <<e>> \o h
<1>1. /\ s \in Seq(Event)
      /\ Len(s) = Len(h) + 1
      /\ s[1] = e
      /\ \A i \in 1 .. Len(h) : s[i + 1] = h[i]
  OBVIOUS
<1>2. LogCapacity \in Nat \ {0} /\ Len(h) \in Nat
  BY ServerAssumption
<1> HIDE DEF s
<1>3. DEFINE k == IF Len(s) <= LogCapacity THEN Len(s) ELSE LogCapacity
<1>4. k \in 1 .. Len(s) /\ k = IF Len(h) < LogCapacity THEN Len(h) + 1 ELSE LogCapacity
  BY <1>1, <1>2
<1> HIDE DEF k
<1>5. /\ SubSeq(s, 1, k) \in Seq(Event)
      /\ Len(SubSeq(s, 1, k)) = k
      /\ \A i \in 1 .. k : SubSeq(s, 1, k)[i] = s[i]
  BY <1>1, <1>4
<1>6. Newest(s) = SubSeq(s, 1, k)
  BY DEF Newest, k
<1>7. \A i \in 1 .. k - 1 : i + 1 \in 1 .. k /\ i \in 1 .. Len(h)
  BY <1>1, <1>2, <1>4
<1>8. 1 \in 1 .. k
  BY <1>1, <1>4
<1>9. SubSeq(s, 1, k)[1] = e
  BY <1>1, <1>5, <1>8
<1>10. \A i \in 1 .. k - 1 : SubSeq(s, 1, k)[i + 1] = h[i]
  BY <1>1, <1>5, <1>7
<1> QED
  BY <1>4, <1>5, <1>6, <1>9, <1>10 DEF s

LEMMA LogType ==
    ASSUME NEW a \in [Slot -> Event], NEW b \in Slot, NEW c \in 0 .. LogCapacity,
           NEW h \in Seq(Event)
    PROVE  [slots |-> a, head |-> b, count |-> c, history |-> h] \in EventLog
BY DEF EventLog

LEMMA LoggedRing ==
    ASSUME NEW log \in EventLog, RingOK(log), NEW e \in Event
    PROVE  logged(log, e) \in EventLog /\ RingOK(logged(log, e))
<1> DEFINE new == logged(log, e)
           m == LogCapacity
<1>1. m \in Nat \ {0}
  BY ServerAssumption
<1>2. /\ log.slots \in [Slot -> Event] /\ log.head \in 0 .. m - 1
      /\ log.count \in 0 .. m /\ log.history \in Seq(Event)
      /\ log.count = Len(log.history)
  BY DEF EventLog, Slot, RingOK
<1>3. /\ new.slots = [log.slots EXCEPT ![next_head(log)] = e]
      /\ new.head = next_head(log)
      /\ new.count = IF log.count < m THEN log.count + 1 ELSE log.count
      /\ new.history = Newest(<<e>> \o log.history)
      /\ new = [slots |-> new.slots, head |-> new.head, count |-> new.count,
                history |-> new.history]
  BY DEF logged
<1>4. /\ new.head \in 0 .. m - 1
      /\ log.count # 0 => new.head = IF log.head = 0 THEN m - 1 ELSE log.head - 1
  BY <1>3, NextHead DEF Slot
<1>5. /\ new.history \in Seq(Event)
      /\ Len(new.history) = new.count
      /\ new.history[1] = e
      /\ \A i \in 1 .. new.count - 1 : new.history[i + 1] = log.history[i]
  <2>1. Len(log.history) <= LogCapacity
    BY <1>1, <1>2
  <2>2. /\ Newest(<<e>> \o log.history) \in Seq(Event)
        /\ Len(Newest(<<e>> \o log.history)) =
              IF Len(log.history) < LogCapacity THEN Len(log.history) + 1 ELSE LogCapacity
        /\ Newest(<<e>> \o log.history)[1] = e
        /\ \A i \in 1 .. Len(Newest(<<e>> \o log.history)) - 1 :
              Newest(<<e>> \o log.history)[i + 1] = log.history[i]
    BY <1>2, <2>1, NewestIs, Zenon
  <2>3. new.count = IF Len(log.history) < LogCapacity THEN Len(log.history) + 1
                    ELSE LogCapacity
    BY <1>1, <1>2, <1>3
  <2> HIDE DEF new
  <2> QED
    BY <1>3, <2>2, <2>3, Zenon
<1>6. new.count \in 1 .. m
  BY <1>1, <1>2, <1>3
<1>7. new.slots \in [Slot -> Event] /\ new.slots[new.head] = e
  BY <1>2, <1>3, <1>4 DEF Slot
<1>8. \A j \in 0 .. m - 1 : j # new.head => new.slots[j] = log.slots[j]
  BY <1>2, <1>3 DEF Slot
<1> HIDE DEF new
<1>9. new \in EventLog
  <2>1. new.head \in Slot /\ new.count \in 0 .. LogCapacity
    BY <1>1, <1>4, <1>6 DEF Slot
  <2>2. [slots |-> new.slots, head |-> new.head, count |-> new.count,
         history |-> new.history] \in EventLog
    BY <1>5, <1>7, <2>1, LogType, Zenon
  <2> QED
    BY <1>3, <2>2, Zenon
<1>10. ASSUME NEW i \in 0 .. new.count - 1
       PROVE  new.slots[(new.head + i) % m] = new.history[i + 1]
  <2>1. i \in 0 .. m - 1
    BY <1>1, <1>6
  <2>2. (new.head + i) % m = IF new.head + i < m THEN new.head + i ELSE new.head + i - m
    BY <1>1, <1>4, <2>1, ModSum
  <2>3. CASE i = 0
    BY <1>1, <1>4, <1>5, <1>7, <2>2, <2>3
  <2>4. CASE i # 0
    <3>1. i - 1 \in 0 .. m - 1 /\ i \in 1 .. new.count - 1 /\ i - 1 \in 0 .. log.count - 1
      BY <1>1, <1>2, <1>3, <1>6, <2>1, <2>4
    <3>2. log.count # 0
      BY <1>2, <3>1
    <3>3. (log.head + (i - 1)) % m = IF log.head + (i - 1) < m THEN log.head + (i - 1)
                                     ELSE log.head + (i - 1) - m
      BY <1>1, <1>2, <3>1, ModSum
    <3>4. (log.head + (i - 1)) % m = (new.head + i) % m
      <4> HIDE DEF m
      <4>1. CASE log.head = 0
        BY <1>1, <1>4, <2>1, <2>2, <2>4, <3>2, <3>3, <4>1
      <4>2. CASE log.head # 0
        <5>1. new.head + i = log.head + (i - 1)
          BY <1>2, <1>4, <2>1, <3>2, <4>2
        <5> QED
          BY <5>1, Zenon
      <4> QED
        BY <4>1, <4>2
    <3>5. (new.head + i) % m \in 0 .. m - 1 /\ (new.head + i) % m # new.head
      BY <1>1, <1>4, <2>1, <2>2, <2>4
    <3>6. log.slots[(log.head + (i - 1)) % m] = log.history[(i - 1) + 1]
      BY <3>1 DEF RingOK, mbrtu_diagnostics_get_event
    <3>7. (i - 1) + 1 = i
      BY <3>1
    <3> QED
      BY <1>5, <1>8, <3>1, <3>4, <3>5, <3>6, <3>7
  <2> QED
    BY <2>3, <2>4
<1>11. RingOK(new)
  BY <1>5, <1>10 DEF RingOK, mbrtu_diagnostics_get_event
<1> QED
  BY <1>9, <1>11 DEF new

------------------------------------------------------------------------------
(* The diagnostics object *)

\* What PendingTellsMode says of a diagnostics object.
ModeOK(d) ==
    /\ d.pending = {"RESTART"} => ~d.listen_only
    /\ d.pending = {"ENTER_LISTEN_ONLY"} => d.listen_only

Sound(d) == d \in Diagnostics /\ RingOK(d.log)

Good(d) == Sound(d) /\ ModeOK(d)

\* e is sound and in the mode of d, with the same actions pending.
Keeps(d, e) == Sound(e) /\ e.listen_only = d.listen_only /\ e.pending = d.pending

Fields(d) ==
    /\ d.counters \in [CounterName -> 0 .. CounterMax]
    /\ d.words \in [WordName -> Word]
    /\ d.log \in EventLog
    /\ RingOK(d.log)
    /\ d.trail \in Seq(Event)
    /\ d.listen_only \in BOOLEAN
    /\ d.pending \in SUBSET PendingAction

LEMMA FieldsOfSound ==
    ASSUME NEW d, Sound(d)
    PROVE  Fields(d)
BY DEF Sound, Fields, Diagnostics

LEMMA SoundFrom ==
    ASSUME NEW c \in [CounterName -> 0 .. CounterMax], NEW w \in [WordName -> Word],
           NEW l \in EventLog, RingOK(l), NEW t \in Seq(Event), NEW o \in BOOLEAN,
           NEW p \in SUBSET PendingAction
    PROVE  Sound([counters |-> c, words |-> w, log |-> l, trail |-> t,
                  listen_only |-> o, pending |-> p])
BY DEF Sound, Diagnostics

LEMMA KeepsGood ==
    ASSUME NEW d, Good(d), NEW e, Keeps(d, e)
    PROVE  Good(e)
BY DEF Good, ModeOK, Keeps

LEMMA BumpKeeps ==
    ASSUME NEW d, Sound(d), NEW names
    PROVE  Keeps(d, Bump(d, names))
<1>1. Fields(d)
  BY FieldsOfSound
<1> DEFINE c == [n \in CounterName |-> IF n \in names
                                       THEN increment_saturating(d.counters[n])
                                       ELSE d.counters[n]]
<1>2. c \in [CounterName -> 0 .. CounterMax]
  <2>1. \A x \in 0 .. CounterMax : increment_saturating(x) \in 0 .. CounterMax
    BY ServerAssumption DEF increment_saturating
  <2> QED
    BY <1>1, <2>1, Zenon DEF Fields
<1> HIDE DEF c
<1>3. Sound([counters |-> c, words |-> d.words, log |-> d.log, trail |-> d.trail,
             listen_only |-> d.listen_only, pending |-> d.pending])
  BY <1>1, <1>2, SoundFrom, Zenon DEF Fields
<1> QED
  BY <1>3 DEF Keeps, Bump, c

LEMMA PushKeeps ==
    ASSUME NEW d, Sound(d), NEW e \in Event
    PROVE  Keeps(d, push_event(d, e))
<1>1. Fields(d)
  BY FieldsOfSound
<1>2. logged(d.log, e) \in EventLog /\ RingOK(logged(d.log, e))
  BY <1>1, LoggedRing DEF Fields
<1>3. Append(d.trail, e) \in Seq(Event)
  BY <1>1 DEF Fields
<1>4. Sound(push_event(d, e))
  BY <1>1, <1>2, <1>3, SoundFrom, Zenon DEF push_event, Fields
<1> QED
  BY <1>4 DEF Keeps, push_event

LEMMA EmptyLogGood ==
    ASSUME NEW slots \in [Slot -> Event]
    PROVE  EmptyLog(slots) \in EventLog /\ RingOK(EmptyLog(slots))
<1>1. 0 \in Slot /\ 0 \in 0 .. LogCapacity /\ <<>> \in Seq(Event) /\ Len(<<>>) = 0
  BY ServerAssumption DEF Slot
<1>2. EmptyLog(slots) \in EventLog
  BY <1>1, LogType, Zenon DEF EmptyLog
<1>3. /\ EmptyLog(slots).count = 0
      /\ Len(EmptyLog(slots).history) = 0
  BY DEF EmptyLog
<1>4. 0 .. EmptyLog(slots).count - 1 = {}
  BY <1>3
<1> QED
  BY <1>2, <1>3, <1>4 DEF RingOK

LEMMA EventsTyped ==
    /\ \A d, b, x, o : make_receive_event(d, b, x, o) \in Event
    /\ \A d, code : make_send_event(d, code) \in Event
    /\ RestartEvent \in Event
    /\ ListenOnlyEvent \in Event
<1>1. \A p : \A f \in EventFlag : Flag(p, f) \subseteq EventFlag
  BY DEF Flag
<1>2. {"RECEIVE", "BROADCAST", "LISTEN_ONLY", "COMM_ERROR", "CHARACTER_OVERRUN",
       "SEND", "READ_EXCEPTION", "SERVER_ABORT", "SERVER_BUSY", "SERVER_NAK",
       "ENTERED_LISTEN_ONLY"} = EventFlag
  BY DEF EventFlag
<1>3. ASSUME NEW d, NEW b, NEW x, NEW o
      PROVE  make_receive_event(d, b, x, o) \in Event
  <2>1. /\ Flag(b, "BROADCAST") \subseteq EventFlag
        /\ Flag(d.listen_only, "LISTEN_ONLY") \subseteq EventFlag
        /\ Flag(x, "COMM_ERROR") \subseteq EventFlag
        /\ Flag(o, "CHARACTER_OVERRUN") \subseteq EventFlag
    BY DEF Flag, EventFlag
  <2>2. {"RECEIVE"} \subseteq EventFlag
    BY DEF EventFlag
  <2> QED
    BY <2>1, <2>2, Zenon DEF make_receive_event, Event
<1>4. ASSUME NEW d, NEW code
      PROVE  make_send_event(d, code) \in Event
  <2>1. /\ Flag(d.listen_only, "LISTEN_ONLY") \subseteq EventFlag
        /\ Flag(code \in 1 .. 3, "READ_EXCEPTION") \subseteq EventFlag
        /\ Flag(code = 4, "SERVER_ABORT") \subseteq EventFlag
        /\ Flag(code \in {5, 6}, "SERVER_BUSY") \subseteq EventFlag
        /\ Flag(code = 7, "SERVER_NAK") \subseteq EventFlag
    BY DEF Flag, EventFlag
  <2>2. {"SEND"} \subseteq EventFlag
    BY DEF EventFlag
  <2> QED
    BY <2>1, <2>2, Zenon DEF make_send_event, Event
<1> QED
  BY <1>2, <1>3, <1>4, Zenon DEF RestartEvent, ListenOnlyEvent, Event

LEMMA NotesKeep ==
    ASSUME NEW d, Sound(d)
    PROVE  /\ \A b : Keeps(d, note_bus_message(d, b))
           /\ Keeps(d, note_server_message(d))
           /\ \A n, x : Keeps(d, note_normal_completion(d, n, x))
           /\ \A code : Keeps(d, note_exception(d, code))
           /\ \A b : Keeps(d, note_communication_error(d, b))
           /\ \A b, a : Keeps(d, note_character_overrun(d, b, a))
<1>1. \A names : Keeps(d, Bump(d, names))
  BY BumpKeeps, Zenon
<1>2. ASSUME NEW names, NEW e \in Event
      PROVE  Keeps(d, push_event(Bump(d, names), e))
  <2> DEFINE b == Bump(d, names)
  <2>1. Keeps(d, b)
    BY <1>1
  <2> HIDE DEF b
  <2>2. Keeps(b, push_event(b, e))
    BY <2>1, PushKeeps, Zenon DEF Keeps
  <2>3. Keeps(d, push_event(b, e))
    BY <2>1, <2>2, Zenon DEF Keeps
  <2> QED
    BY <2>3 DEF b
<1>3. \A b : Keeps(d, note_bus_message(d, b))
  BY <1>2, EventsTyped, Zenon DEF note_bus_message
<1>4. \A n, x : Keeps(d, note_normal_completion(d, n, x))
  BY <1>2, EventsTyped, Zenon DEF note_normal_completion
<1>5. \A code : Keeps(d, note_exception(d, code))
  BY <1>2, EventsTyped, Zenon DEF note_exception
<1>6. \A b : Keeps(d, note_communication_error(d, b))
  BY <1>2, EventsTyped, Zenon DEF note_communication_error
<1>7. \A b, a : Keeps(d, note_character_overrun(d, b, a))
  BY <1>2, EventsTyped, Zenon DEF note_character_overrun
<1> QED
  BY <1>1, <1>3, <1>4, <1>5, <1>6, <1>7, Zenon DEF note_server_message

LEMMA NotesGood ==
    ASSUME NEW d, Good(d)
    PROVE  /\ \A b : Good(note_bus_message(d, b))
           /\ Good(note_server_message(d))
           /\ \A n, x : Good(note_normal_completion(d, n, x))
           /\ \A code : Good(note_exception(d, code))
           /\ \A b : Good(note_communication_error(d, b))
           /\ \A b, a : Good(note_character_overrun(d, b, a))
<1>1. Sound(d)
  BY DEF Good
<1> QED
  BY <1>1, NotesKeep, KeepsGood, Zenon

------------------------------------------------------------------------------
(* What the state-changing FC08 operations leave *)

LEMMA ChangesGood ==
    ASSUME NEW d, Good(d)
    PROVE  /\ \A clear : Good(push_event(restarted(d, clear), RestartEvent))
           /\ \A n : Good(push_event(entering(note_normal_completion(listening(d), n, FALSE)),
                                     ListenOnlyEvent))
           /\ Good(cleared(d))
           /\ Good(overrun_cleared(d))
<1>1. Fields(d) /\ ModeOK(d)
  BY FieldsOfSound DEF Good
<1>2. ZeroCounters \in [CounterName -> 0 .. CounterMax]
  BY ServerAssumption DEF ZeroCounters
<1>3. ASSUME NEW clear
      PROVE  Good(push_event(restarted(d, clear), RestartEvent))
  <2> DEFINE log == IF clear THEN EmptyLog(d.log.slots) ELSE d.log
             p == d.pending \cup {"RESTART"}
  <2>1. log \in EventLog /\ RingOK(log)
    <3>1. d.log.slots \in [Slot -> Event]
      BY <1>1 DEF Fields, EventLog
    <3> QED
      BY <1>1, <3>1, EmptyLogGood DEF Fields
  <2>2. p \in SUBSET PendingAction /\ p # {"ENTER_LISTEN_ONLY"}
    <3>1. d.pending \in SUBSET PendingAction /\ "RESTART" \in p
      BY <1>1 DEF Fields
    <3>2. p \in SUBSET PendingAction
      BY <3>1 DEF PendingAction
    <3> QED
      BY <3>1, <3>2
  <2>3. restarted(d, clear) = [counters |-> ZeroCounters, words |-> d.words,
                               log |-> log, trail |-> d.trail, listen_only |-> FALSE,
                               pending |-> p]
    BY DEF restarted
  <2> HIDE DEF log, p
  <2>4. Sound(restarted(d, clear))
    BY <1>1, <1>2, <2>1, <2>2, <2>3, SoundFrom, Zenon DEF Fields
  <2>5. ModeOK(restarted(d, clear))
    BY <2>2, <2>3 DEF ModeOK
  <2> QED
    BY <2>4, <2>5, PushKeeps, KeepsGood, EventsTyped, Zenon DEF Good
<1>4. ASSUME NEW n
      PROVE  Good(push_event(entering(note_normal_completion(listening(d), n, FALSE)),
                             ListenOnlyEvent))
  <2> DEFINE x == note_normal_completion(listening(d), n, FALSE)
  <2>1. Sound(listening(d)) /\ listening(d).listen_only = TRUE
    BY <1>1, SoundFrom, Zenon DEF listening, Fields
  <2>2. Sound(x) /\ x.listen_only = TRUE
    BY <2>1, NotesKeep, Zenon DEF Keeps
  <2> HIDE DEF x
  <2>3. Fields(x)
    BY <2>2, FieldsOfSound
  <2>4. /\ x.pending \cup {"ENTER_LISTEN_ONLY"} \in SUBSET PendingAction
        /\ x.pending \cup {"ENTER_LISTEN_ONLY"} # {"RESTART"}
    BY <2>3 DEF Fields, PendingAction
  <2>5. Sound(entering(x))
    BY <2>3, <2>4, SoundFrom, Zenon DEF entering, Fields
  <2>6. ModeOK(entering(x))
    BY <2>2, <2>4 DEF ModeOK, entering
  <2>7. Good(push_event(entering(x), ListenOnlyEvent))
    BY <2>5, <2>6, PushKeeps, KeepsGood, EventsTyped, Zenon DEF Good
  <2> QED
    BY <2>7 DEF x
<1>5. Good(cleared(d))
  <2>1. [d.words EXCEPT !["diagnostic_register"] = 0] \in [WordName -> Word]
    BY <1>1, ServerAssumption DEF Fields
  <2>2. Sound(cleared(d))
    BY <1>1, <1>2, <2>1, SoundFrom, Zenon DEF cleared, Fields
  <2>3. ModeOK(cleared(d))
    BY <1>1 DEF ModeOK, cleared
  <2> QED
    BY <2>2, <2>3 DEF Good
<1>6. Good(overrun_cleared(d))
  <2>1. [d.counters EXCEPT !["bus_character_overrun_count"] = 0]
          \in [CounterName -> 0 .. CounterMax]
    <3>1. d.counters \in [CounterName -> 0 .. CounterMax] /\ 0 \in 0 .. CounterMax
      BY <1>1, ServerAssumption DEF Fields
    <3> QED
      BY <3>1, Zenon
  <2>2. Sound(overrun_cleared(d))
    BY <1>1, <2>1, SoundFrom, Zenon DEF overrun_cleared, Fields
  <2>3. ModeOK(overrun_cleared(d))
    BY <1>1 DEF ModeOK, overrun_cleared
  <2> QED
    BY <2>2, <2>3 DEF Good
<1> QED
  BY <1>3, <1>4, <1>5, <1>6, Zenon

------------------------------------------------------------------------------
(* The request handlers *)

\* What a handler of a request may return.
Outcome(h, broadcast) ==
    /\ Good(h.diagnostics)
    /\ h.exception \in Nat
    /\ h.result \in {"RESPONSE", "NO_RESPONSE", "ERROR", "NOT_HANDLED"}
    /\ broadcast => h.result \in {"NO_RESPONSE", "NOT_HANDLED"}

LEMMA SilentOutcome ==
    ASSUME NEW d, Good(d), NEW b
    PROVE  Outcome(Silent(d), b)
BY DEF Outcome, Silent, Handled

LEMMA AnswerOutcome ==
    ASSUME NEW d, Good(d), NEW b, ~b, NEW code \in Nat
    PROVE  /\ Outcome(Handled("RESPONSE", d, code), b)
           /\ Outcome(Handled("ERROR", d, 0), b)
           /\ \A capacity : Outcome(make_exception(d, code, capacity), b)
           /\ \A len, capacity : Outcome(Respond(d, len, capacity), b)
<1>1. Outcome(Handled("RESPONSE", d, code), b) /\ Outcome(Handled("RESPONSE", d, 0), b)
  BY DEF Outcome, Handled
<1>2. Outcome(Handled("ERROR", d, 0), b)
  BY DEF Outcome, Handled
<1> QED
  BY <1>1, <1>2, Zenon DEF make_exception, Respond

LEMMA RefuseOutcome ==
    ASSUME NEW d, Good(d), NEW b, NEW code \in Nat, NEW capacity
    PROVE  Outcome(Refuse(d, b, code, capacity), b)
<1>1. CASE b
  BY <1>1, NotesGood, SilentOutcome, Zenon DEF Refuse
<1>2. CASE ~b
  BY <1>2, AnswerOutcome, Zenon DEF Refuse
<1> QED
  BY <1>1, <1>2, Zenon

LEMMA RestartOutcome ==
    ASSUME NEW d, Good(d), NEW b, NEW q, NEW allowed, NEW capacity
    PROVE  Outcome(restart_communications(d, b, q, allowed, capacity), b)
<1> DEFINE done == push_event(restarted(d, q.data = "FF00"), RestartEvent)
<1>1. Good(done)
  BY ChangesGood, Zenon
<1> HIDE DEF done
<1>2. 3 \in Nat /\ 0 \in Nat
  OBVIOUS
<1>3. Outcome(Refuse(d, b, 3, capacity), b)
  BY <1>2, RefuseOutcome, Zenon
<1>4. Outcome(Silent(note_normal_completion(d, ~b, TRUE)), b) /\ Outcome(Silent(done), b)
  BY <1>1, NotesGood, SilentOutcome, Zenon
<1>5. ~b => /\ Outcome(make_exception(d, 3, capacity), b)
            /\ Outcome(Handled("ERROR", d, 0), b)
            /\ Outcome(Handled("RESPONSE", done, 0), b)
  BY <1>1, <1>2, AnswerOutcome, Zenon
<1> QED
  BY <1>3, <1>4, <1>5, Zenon DEF restart_communications, done

LEMMA OperationsOutcome ==
    ASSUME NEW d, Good(d), NEW b, NEW q, NEW allowed, NEW capacity
    PROVE  /\ Outcome(force_listen_only(d, b, q, allowed, capacity), b)
           /\ Outcome(clear_counters_and_register(d, b, q, allowed, capacity), b)
           /\ Outcome(clear_overrun_counter(d, b, q, allowed, capacity), b)
<1>1. 3 \in Nat /\ 0 \in Nat
  OBVIOUS
<1>2. Outcome(Refuse(d, b, 3, capacity), b)
  BY <1>1, RefuseOutcome, Zenon
<1>3. ~b => Outcome(Handled("ERROR", d, 0), b)
  BY <1>1, AnswerOutcome, Zenon
<1>4. Outcome(force_listen_only(d, b, q, allowed, capacity), b)
  BY <1>2, ChangesGood, SilentOutcome, Zenon DEF force_listen_only
<1>5. Outcome(clear_counters_and_register(d, b, q, allowed, capacity), b)
  <2> DEFINE done == note_normal_completion(cleared(d), FALSE, TRUE)
  <2>1. Good(done)
    BY ChangesGood, NotesGood, Zenon
  <2> HIDE DEF done
  <2>2. Outcome(Silent(done), b) /\ (~b => Outcome(Handled("RESPONSE", done, 0), b))
    BY <1>1, <2>1, SilentOutcome, AnswerOutcome, Zenon
  <2> QED
    BY <1>2, <1>3, <2>2, Zenon DEF clear_counters_and_register, done
<1>6. Outcome(clear_overrun_counter(d, b, q, allowed, capacity), b)
  <2>1. Good(overrun_cleared(d))
    BY ChangesGood, Zenon
  <2>2. Good(note_normal_completion(overrun_cleared(d), FALSE, FALSE))
    BY <2>1, NotesGood, Zenon
  <2>3. Outcome(Silent(note_normal_completion(overrun_cleared(d), FALSE, FALSE)), b)
    BY <2>2, SilentOutcome, Zenon
  <2>4. ~b => Outcome(Handled("RESPONSE", overrun_cleared(d), 0), b)
    BY <1>1, <2>1, AnswerOutcome, Zenon
  <2> QED
    BY <1>2, <1>3, <2>3, <2>4, Zenon DEF clear_overrun_counter
<1> QED
  BY <1>4, <1>5, <1>6

LEMMA Fc08Outcome ==
    ASSUME NEW d, Good(d), NEW b, NEW q, q.sub \in Subfunction, NEW allowed, NEW capacity
    PROVE  Outcome(process_fc08(d, b, q, allowed, capacity), b)
<1>1. 3 \in Nat /\ 0 \in Nat /\ 1 \in Nat
  OBVIOUS
<1>2. /\ \A code \in {0, 1, 3} : Outcome(Refuse(d, b, code, capacity), b)
      /\ b => Outcome(Refuse(d, TRUE, 0, capacity), b)
  BY <1>1, RefuseOutcome, Zenon
<1>3. Outcome(Silent(d), b)
  BY SilentOutcome, Zenon
<1>4. ~b => \A len : Outcome(Respond(d, len, capacity), b)
  BY <1>1, AnswerOutcome, Zenon
<1>5. /\ Outcome(restart_communications(d, b, q, allowed, capacity), b)
      /\ Outcome(force_listen_only(d, b, q, allowed, capacity), b)
      /\ Outcome(clear_counters_and_register(d, b, q, allowed, capacity), b)
      /\ Outcome(clear_overrun_counter(d, b, q, allowed, capacity), b)
  BY RestartOutcome, OperationsOutcome, Zenon
<1>6. q.sub \in {"RETURN_QUERY_DATA", "RESTART_COMMUNICATIONS", "RETURN_WORD",
                 "FORCE_LISTEN_ONLY", "CLEAR_COUNTERS_AND_REGISTER",
                 "CLEAR_OVERRUN_COUNTER", "UNSUPPORTED"}
  BY DEF Subfunction
<1>7. Outcome(Refuse(d, b, 1, capacity), b) /\ Outcome(Refuse(d, b, 3, capacity), b)
  BY <1>2
<1>8. CASE q.len < 3 \/ (q.len - 3) % 2 # 0
  BY <1>7, <1>8, Zenon DEF process_fc08
<1>9. CASE d.listen_only /\ q.sub # "RESTART_COMMUNICATIONS"
  BY <1>3, <1>7, <1>9, Zenon DEF process_fc08
<1>10. CASE /\ ~(q.len < 3 \/ (q.len - 3) % 2 # 0)
            /\ ~(d.listen_only /\ q.sub # "RESTART_COMMUNICATIONS")
  <2>1. CASE q.sub = "RETURN_QUERY_DATA"
    BY <1>2, <1>4, <1>10, <2>1 DEF process_fc08
  <2>2. CASE q.sub = "RETURN_WORD"
    BY <1>4, <1>7, <1>10, <2>2 DEF process_fc08
  <2>3. CASE q.sub = "RESTART_COMMUNICATIONS"
    BY <1>5, <1>10, <2>3 DEF process_fc08
  <2>4. CASE q.sub = "FORCE_LISTEN_ONLY"
    BY <1>5, <1>10, <2>4 DEF process_fc08
  <2>5. CASE q.sub = "CLEAR_COUNTERS_AND_REGISTER"
    BY <1>5, <1>10, <2>5 DEF process_fc08
  <2>6. CASE q.sub = "CLEAR_OVERRUN_COUNTER"
    BY <1>5, <1>10, <2>6 DEF process_fc08
  <2>7. CASE q.sub = "UNSUPPORTED"
    BY <1>7, <1>10, <2>7 DEF process_fc08
  <2> QED
    BY <1>6, <2>1, <2>2, <2>3, <2>4, <2>5, <2>6, <2>7
<1> QED
  BY <1>8, <1>9, <1>10, Zenon

LEMMA DiagnosticsOutcome ==
    ASSUME NEW d, Good(d), NEW b, NEW q, q.sub \in Subfunction, NEW allowed, NEW capacity
    PROVE  Outcome(mbrtu_diagnostics_process_pdu(d, b, q, allowed, capacity), b)
<1>1. Outcome(Handled("NOT_HANDLED", d, 0), b)
  BY DEF Outcome, Handled
<1>2. 3 \in Nat
  OBVIOUS
<1>3. /\ Outcome(Refuse(d, b, 3, capacity), b)
      /\ ~b => \A len : Outcome(Respond(d, len, capacity), b)
  BY <1>2, RefuseOutcome, AnswerOutcome, Zenon
<1>4. Outcome(Silent(d), b) /\ Outcome(process_fc08(d, b, q, allowed, capacity), b)
  BY SilentOutcome, Fc08Outcome, Zenon
<1> QED
  BY <1>1, <1>3, <1>4, Zenon DEF mbrtu_diagnostics_process_pdu

------------------------------------------------------------------------------
(* The dispatcher *)

\* What the processing of a frame may return.
Finished(p, broadcast) ==
    /\ Good(p.diagnostics)
    /\ p.exception \in Nat
    /\ p.result \in {"RESPONSE", "NO_RESPONSE", "ERROR"}
    /\ p.executed \in BOOLEAN
    /\ broadcast => p.result = "NO_RESPONSE"

LEMMA ProcessedFinished ==
    ASSUME NEW h, NEW b, Outcome(h, b), h.result # "NOT_HANDLED", NEW x \in BOOLEAN
    PROVE  Finished(Processed(h, x), b)
BY DEF Outcome, Finished, Processed

LEMMA SilentFinished ==
    ASSUME NEW d, Good(d), NEW b, NEW x \in BOOLEAN
    PROVE  Finished(Processed(Silent(d), x), b)
BY DEF Finished, Processed, Silent, Handled

LEMMA AnswerFinished ==
    ASSUME NEW d, Good(d), NEW b, ~b, NEW code \in Nat, NEW x \in BOOLEAN
    PROVE  /\ Finished(Processed(Handled("RESPONSE", d, code), x), b)
           /\ Finished(Processed(Handled("ERROR", d, 0), x), b)
BY DEF Finished, Processed, Handled

LEMMA OrdinaryFinished ==
    ASSUME NEW d, Good(d), NEW b, NEW q, NEW capacity, NEW code \in Nat
    PROVE  Finished(ordinary_request(d, b, q, capacity, code), b)
<1>1. \A x \in BOOLEAN : \A n, e : Finished(Processed(Silent(note_normal_completion(d, n, e)), x), b)
  BY NotesGood, SilentFinished, Zenon
<1>2. ~b => Finished(Processed(Handled("ERROR", d, 0), FALSE), b)
  <2>1. 0 \in Nat
    OBVIOUS
  <2> QED
    BY <2>1, AnswerFinished, Zenon
<1> DEFINE r == note_response(Handled("RESPONSE", d, code))
<1>3. Good(r)
  <2>1. Handled("RESPONSE", d, code).diagnostics = d
    BY DEF Handled
  <2> QED
    BY <2>1, NotesGood, Zenon DEF note_response
<1> HIDE DEF r
<1>4. ~b => Finished(Processed(Handled("RESPONSE", r, code), TRUE), b)
  BY <1>3, AnswerFinished, Zenon
<1> QED
  BY <1>1, <1>2, <1>4, Zenon DEF ordinary_request, r

LEMMA ServerIdFinished ==
    ASSUME NEW d, Good(d), NEW b, NEW q, NEW capacity
    PROVE  Finished(server_id_request(d, b, q, capacity), b)
<1> DEFINE h == mbrtu_server_id_process_pdu(d, q, capacity)
<1>1. CASE b
  BY <1>1, NotesGood, SilentFinished, Zenon DEF server_id_request
<1>2. CASE ~b
  <2>1. 0 \in Nat /\ 3 \in Nat /\ 4 \in Nat
    OBVIOUS
  <2>2. Outcome(h, b)
    BY <1>2, <2>1, AnswerOutcome, Zenon DEF mbrtu_server_id_process_pdu
  <2>3. h.result # "NOT_HANDLED"
    BY DEF mbrtu_server_id_process_pdu, Handled, Respond
  <2> HIDE DEF h
  <2>4. Good(note_response(h))
    BY <2>2, NotesGood, Zenon DEF note_response, Outcome
  <2>5. Finished(Processed(Handled("RESPONSE", note_response(h), h.exception), FALSE), b)
    BY <1>2, <2>2, <2>4, AnswerFinished, Zenon DEF Outcome
  <2>6. Finished(Processed(h, FALSE), b)
    BY <2>2, <2>3, ProcessedFinished, Zenon
  <2> QED
    BY <1>2, <2>5, <2>6, Zenon DEF server_id_request, h
<1> QED
  BY <1>1, <1>2, Zenon

LEMMA AddressedFinished ==
    ASSUME NEW d, Good(d), NEW b, NEW q, q.sub \in Subfunction, NEW allowed,
           NEW capacity, NEW code \in Nat
    PROVE  Finished(addressed_request(d, b, q, allowed, capacity, code), b)
<1> DEFINE h == mbrtu_diagnostics_process_pdu(d, b, q, allowed, capacity)
<1>1. Outcome(h, b)
  BY DiagnosticsOutcome, Zenon
<1> HIDE DEF h
<1>2. Finished(Processed(Silent(note_normal_completion(d, ~b, TRUE)), FALSE), b)
  BY NotesGood, SilentFinished, Zenon
<1>3. ASSUME h.result = "RESPONSE"
      PROVE  Finished(Processed(Handled("RESPONSE", note_diagnostic_response(q, h),
                                        h.exception), FALSE), b)
  <2>1. ~b
    BY <1>1, <1>3 DEF Outcome
  <2>2. Good(note_diagnostic_response(q, h))
    BY <1>1, NotesGood, Zenon DEF note_diagnostic_response, Outcome
  <2> QED
    BY <1>1, <2>1, <2>2, AnswerFinished, Zenon DEF Outcome
<1>4. h.result # "NOT_HANDLED" => Finished(Processed(h, FALSE), b)
  BY <1>1, ProcessedFinished, Zenon
<1>5. Finished(server_id_request(d, b, q, capacity), b)
  BY ServerIdFinished, Zenon
<1>6. Finished(ordinary_request(d, b, q, capacity, code), b)
  BY OrdinaryFinished, Zenon
<1> QED
  BY <1>2, <1>3, <1>4, <1>5, <1>6, Zenon DEF addressed_request, h

------------------------------------------------------------------------------
(* The invariant *)

ServerInv == TypeOK /\ Good(diagnostics) /\ BroadcastsUnanswered

LEMMA UntrailedGood ==
    ASSUME ServerInv
    PROVE  Good(Untrailed)
<1>1. Fields(diagnostics) /\ ModeOK(diagnostics)
  BY FieldsOfSound DEF ServerInv, Good
<1>2. <<>> \in Seq(Event)
  OBVIOUS
<1>3. Sound(Untrailed)
  BY <1>1, <1>2, SoundFrom, Zenon DEF Untrailed, Fields
<1>4. ModeOK(Untrailed)
  BY <1>1 DEF Untrailed, ModeOK
<1> QED
  BY <1>3, <1>4 DEF Good

LEMMA EndsInv ==
    ASSUME ServerInv, NEW address \in Address, NEW allowed \in BOOLEAN, NEW done,
           Finished(done, address = "broadcast"), Ends(address, allowed, done)
    PROVE  ServerInv'
<1>1. diagnostics' = done.diagnostics /\ Good(done.diagnostics)
  BY DEF Ends, Finished
<1>2. Good(diagnostics)'
  BY <1>1, Zenon DEF Good, Sound, ModeOK, RingOK, mbrtu_diagnostics_get_event
<1>3. (diagnostics \in Diagnostics)'
  BY <1>1 DEF Good, Sound
<1>4. configured' \in BOOLEAN /\ diagnostics.listen_only \in BOOLEAN
  BY DEF Ends, ServerInv, TypeOK, Diagnostics
<1>5. /\ done.result \in {"NONE", "RESPONSE", "NO_RESPONSE", "ERROR"}
      /\ done.exception \in Nat /\ done.executed \in BOOLEAN
  BY DEF Finished
<1>6. call' = [address |-> address, allowed |-> allowed,
               listening |-> diagnostics.listen_only, result |-> done.result,
               exception |-> done.exception, executed |-> done.executed]
  BY DEF Ends
<1>7. (call \in [address : Address, allowed : BOOLEAN, listening : BOOLEAN,
                 result : {"NONE", "RESPONSE", "NO_RESPONSE", "ERROR"},
                 exception : Nat, executed : BOOLEAN])'
  BY <1>4, <1>5, <1>6, Zenon
<1>8. BroadcastsUnanswered'
  BY <1>6 DEF BroadcastsUnanswered, Finished
<1> QED
  BY <1>2, <1>3, <1>4, <1>7, <1>8 DEF ServerInv, TypeOK

LEMMA SoundFrameInv ==
    ASSUME ServerInv, SoundFrame
    PROVE  ServerInv'
<1>1. PICK address \in Address, capacity \in PduCapacity :
        \E q \in RequestsTo(address) :
          \E allowed \in PolicySays(q), code \in MapAnswers(q) :
            mbrtu_process_adu_with_diagnostics(address, q, allowed, capacity, code)
  BY Zenon DEF SoundFrame
<1>2. PICK q \in RequestsTo(address) :
        \E allowed \in PolicySays(q), code \in MapAnswers(q) :
          mbrtu_process_adu_with_diagnostics(address, q, allowed, capacity, code)
  BY <1>1, Zenon
<1>3. PICK allowed \in PolicySays(q), code \in MapAnswers(q) :
        mbrtu_process_adu_with_diagnostics(address, q, allowed, capacity, code)
  BY <1>2, Zenon
<1>4. q.sub \in Subfunction
  <2>1. q \in Request
    BY DEF RequestsTo
  <2> QED
    BY <2>1 DEF Request, Subfunction
<1>5. allowed \in BOOLEAN
  BY DEF PolicySays
<1>6. code \in Nat
  BY ServerAssumption DEF MapAnswers
<1> DEFINE b == address = "broadcast"
           noted == note_bus_message(Untrailed, b)
<1>7. Good(noted) /\ Good(note_server_message(noted))
  BY UntrailedGood, NotesGood, Zenon
<1> HIDE DEF noted
<1>8. Finished(Processed(Silent(noted), FALSE), b)
  BY <1>7, SilentFinished, Zenon
<1>9. Finished(addressed_request(note_server_message(noted), b, q, allowed, capacity, code),
               b)
  BY <1>4, <1>6, <1>7, AddressedFinished, Zenon
<1> DEFINE done == IF address = "other" THEN Processed(Silent(noted), FALSE)
                   ELSE addressed_request(note_server_message(noted), b, q, allowed,
                                          capacity, code)
<1>10. Finished(done, b)
  BY <1>8, <1>9, Zenon
<1>11. Ends(address, allowed, done)
  BY <1>3, Zenon DEF mbrtu_process_adu_with_diagnostics, noted
<1> HIDE DEF done
<1> QED
  BY <1>5, <1>10, <1>11, EndsInv, Zenon

LEMMA UnsoundFrameInv ==
    ASSUME ServerInv, UnsoundFrame
    PROVE  ServerInv'
<1>1. PICK address \in Address : DamagedFrame(address) \/ OverrunFrame(address)
  BY DEF UnsoundFrame
<1>2. Good(Untrailed)
  BY UntrailedGood
<1>3. FALSE \in BOOLEAN
  OBVIOUS
<1>4. CASE DamagedFrame(address)
  <2> DEFINE done == Processed(Silent(note_communication_error(Untrailed,
                                                               address = "broadcast")),
                               FALSE)
  <2>1. Finished(done, address = "broadcast")
    BY <1>2, <1>3, NotesGood, SilentFinished, Zenon
  <2>2. Ends(address, FALSE, done)
    BY <1>4, Zenon DEF DamagedFrame
  <2> HIDE DEF done
  <2> QED
    BY <1>3, <2>1, <2>2, EndsInv, Zenon
<1>5. CASE OverrunFrame(address)
  <2> DEFINE done == Processed(Silent(note_character_overrun(Untrailed,
                                                             address = "broadcast",
                                                             address = "own")),
                               FALSE)
  <2>1. Finished(done, address = "broadcast")
    BY <1>2, <1>3, NotesGood, SilentFinished, Zenon
  <2>2. Ends(address, FALSE, done)
    BY <1>5, Zenon DEF OverrunFrame
  <2> HIDE DEF done
  <2> QED
    BY <1>3, <2>1, <2>2, EndsInv, Zenon
<1> QED
  BY <1>1, <1>4, <1>5

\* A step that leaves the last call alone needs a good diagnostics object only.
LEMMA QuietInv ==
    ASSUME ServerInv, NEW d, Good(d), diagnostics' = d, configured' \in BOOLEAN,
           call' = call
    PROVE  ServerInv'
<1>1. Good(diagnostics)'
  BY Zenon DEF Good, Sound, ModeOK, RingOK, mbrtu_diagnostics_get_event
<1>2. (diagnostics \in Diagnostics)'
  BY DEF Good, Sound
<1> QED
  BY <1>1, <1>2 DEF ServerInv, TypeOK, BroadcastsUnanswered

LEMMA SetWordInv ==
    ASSUME ServerInv, NEW name \in WordName, NEW value \in Word, SetWord(name, value)
    PROVE  ServerInv'
<1>1. Fields(diagnostics) /\ ModeOK(diagnostics)
  BY FieldsOfSound DEF ServerInv, Good
<1> DEFINE w == [diagnostics.words EXCEPT ![name] = value]
           d == [counters |-> diagnostics.counters, words |-> w,
                 log |-> diagnostics.log, trail |-> diagnostics.trail,
                 listen_only |-> diagnostics.listen_only,
                 pending |-> diagnostics.pending]
<1>2. w \in [WordName -> Word]
  BY <1>1 DEF Fields
<1>3. diagnostics' = d /\ call' = call /\ configured' \in BOOLEAN
  BY DEF SetWord, ServerInv, TypeOK
<1> HIDE DEF w
<1>4. Sound(d)
  BY <1>1, <1>2, SoundFrom, Zenon DEF Fields
<1>5. ModeOK(d)
  BY <1>1 DEF ModeOK
<1> HIDE DEF d
<1> QED
  BY <1>3, <1>4, <1>5, QuietInv, Zenon DEF Good

LEMMA TakeInv ==
    ASSUME ServerInv, mbrtu_diagnostics_take_pending_actions
    PROVE  ServerInv'
<1>1. Fields(diagnostics)
  BY FieldsOfSound DEF ServerInv, Good
<1> DEFINE d == [counters |-> diagnostics.counters, words |-> diagnostics.words,
                 log |-> diagnostics.log, trail |-> diagnostics.trail,
                 listen_only |-> diagnostics.listen_only, pending |-> {}]
<1>2. diagnostics' = d /\ call' = call /\ configured' \in BOOLEAN
  BY DEF mbrtu_diagnostics_take_pending_actions, ServerInv, TypeOK
<1>3. {} \in SUBSET PendingAction
  OBVIOUS
<1>4. Sound(d)
  BY <1>1, <1>3, SoundFrom, Zenon DEF Fields
<1>5. ModeOK(d)
  BY DEF ModeOK
<1> HIDE DEF d
<1> QED
  BY <1>2, <1>4, <1>5, QuietInv, Zenon DEF Good

LEMMA ServerIdInv ==
    ASSUME ServerInv, mbrtu_server_id_configure \/ mbrtu_server_id_clear
    PROVE  ServerInv'
<1>1. diagnostics' = diagnostics /\ call' = call /\ configured' \in BOOLEAN
  BY DEF mbrtu_server_id_configure, mbrtu_server_id_clear
<1> QED
  BY <1>1, QuietInv, Zenon DEF ServerInv

LEMMA InitServerInv ==
    ASSUME Init
    PROVE  ServerInv
<1> DEFINE w == [x \in WordName |-> 0]
           l == EmptyLog([i \in Slot |-> {}])
<1>1. ZeroCounters \in [CounterName -> 0 .. CounterMax] /\ w \in [WordName -> Word]
  BY ServerAssumption DEF ZeroCounters
<1>2. l \in EventLog /\ RingOK(l)
  <2>1. [i \in Slot |-> {}] \in [Slot -> Event]
    BY DEF Event
  <2> QED
    BY <2>1, EmptyLogGood, Zenon
<1>3. <<>> \in Seq(Event) /\ FALSE \in BOOLEAN /\ {} \in SUBSET PendingAction
  OBVIOUS
<1>4. diagnostics = [counters |-> ZeroCounters, words |-> w, log |-> l, trail |-> <<>>,
                     listen_only |-> FALSE, pending |-> {}]
  BY DEF Init
<1> HIDE DEF w, l
<1>5. Sound(diagnostics)
  BY <1>1, <1>2, <1>3, <1>4, SoundFrom, Zenon
<1>6. ModeOK(diagnostics)
  BY <1>4 DEF ModeOK
<1>7. configured \in BOOLEAN /\ call = NoCall
  BY DEF Init
<1>8. call \in [address : Address, allowed : BOOLEAN, listening : BOOLEAN,
                result : {"NONE", "RESPONSE", "NO_RESPONSE", "ERROR"},
                exception : Nat, executed : BOOLEAN]
  BY <1>7 DEF NoCall, Address
<1>9. BroadcastsUnanswered
  BY <1>7 DEF BroadcastsUnanswered, NoCall
<1> QED
  BY <1>5, <1>6, <1>7, <1>8, <1>9 DEF ServerInv, TypeOK, Good, Sound

LEMMA ServerInvariant == Spec => []ServerInv
<1>1. Init => ServerInv
  BY InitServerInv
<1>2. ServerInv /\ [Next]_vars => ServerInv'
  <2> SUFFICES ASSUME ServerInv, [Next]_vars
               PROVE  ServerInv'
    OBVIOUS
  <2>1. CASE SoundFrame
    BY <2>1, SoundFrameInv
  <2>2. CASE UnsoundFrame
    BY <2>2, UnsoundFrameInv
  <2>3. CASE \E name \in WordName, value \in Word : SetWord(name, value)
    BY <2>3, SetWordInv
  <2>4. CASE mbrtu_diagnostics_take_pending_actions
    BY <2>4, TakeInv
  <2>5. CASE mbrtu_server_id_configure \/ mbrtu_server_id_clear
    BY <2>5, ServerIdInv
  <2>6. CASE UNCHANGED vars
    BY <2>6, QuietInv, Zenon DEF vars, ServerInv, TypeOK
  <2> QED
    BY <2>1, <2>2, <2>3, <2>4, <2>5, <2>6 DEF Next
<1> QED
  BY <1>1, <1>2, PTL DEF Spec

\* Type correctness: counters stop at their maximum, the ring's head and count stay
\* in range, and every call ends in a result the callers know.
THEOREM ServerTypeCorrect == Spec => []TypeOK
<1>1. ServerInv => TypeOK
  BY DEF ServerInv
<1> QED
  BY <1>1, ServerInvariant, PTL

\* For every capacity of the log: what mbrtu_diagnostics_get_event returns is the
\* list of the last events pushed since push_event's ring was cleared.
THEOREM EventLogCorrect == Spec => []LogIsHistory
<1>1. ServerInv => LogIsHistory
  BY Zenon DEF ServerInv, Good, Sound, RingOK, LogIsHistory
<1> QED
  BY <1>1, ServerInvariant, PTL

\* No path of mbrtu_process_adu_with_diagnostics answers a broadcast, whatever the
\* request, the policy, the register map and the room in the response buffer.
THEOREM BroadcastSilence == Spec => []BroadcastsUnanswered
<1>1. ServerInv => BroadcastsUnanswered
  BY DEF ServerInv
<1> QED
  BY <1>1, ServerInvariant, PTL

\* The bits mbrtu_diagnostics_take_pending_actions would return tell the mode.
THEOREM PendingModeCorrect == Spec => []PendingTellsMode
<1>1. ServerInv => PendingTellsMode
  BY DEF ServerInv, Good, ModeOK, PendingTellsMode
<1> QED
  BY <1>1, ServerInvariant, PTL
==============================================================================
