------------------------------ MODULE ModbusTcp ------------------------------
(***************************************************************************)
(* The lwIP transport of App/src/modbus_tcp.c: a fixed table of client     *)
(* slots, and the reassembly of ADUs from a byte stream that arrives in    *)
(* segments of any size.  lwIP runs the callbacks one after the other, so  *)
(* a callback is one step.  The MBAP header keeps its shape with fewer     *)
(* bytes: a protocol identifier, a length field that counts what follows   *)
(* it, and the unit identifier.                                            *)
(***************************************************************************)
EXTENDS Integers, FiniteSets, Sequences, SequencesExt

CONSTANTS
    Pcb,         \* connection control blocks of lwIP
    MaxClients,  \* MBTCP_MAX_CLIENTS
    AduMax,      \* MODBUS_TCP_ADU_MAX_SIZE, the size of rx_buffer
    Byte,
    Streams,     \* what a peer may send over a connection
    MaxWrites    \* bound on the responses lwIP accepts during one callback

\* The header: protocol identifier, length field, unit identifier.
PrefixSize == 2
HeaderSize == PrefixSize + 1

NULL == "NULL"

\* Slots are numbered from 1; NoSlot is the argument NULL.
Slot == 1 .. MaxClients
NoSlot == 0

ASSUME TcpAssumption ==
    /\ MaxClients \in Nat \ {0}
    /\ AduMax \in Nat /\ AduMax > HeaderSize
    /\ Byte \subseteq Nat
    /\ Streams \subseteq Seq(Byte)
    /\ MaxWrites \in Nat
    /\ NULL \notin Pcb

VARIABLES
    listen_pcb,  \* whether mbtcp_init got as far as listening
    clients,     \* the slots: the connection and the bytes in its rx_buffer
    arg,         \* what tcp_arg registered with a connection, a slot or none
    wire,        \* history: what each connection's peer sent and got
    last         \* history: what the last callback did to its connection

vars == <<listen_pcb, clients, arg, wire, last>>

------------------------------------------------------------------------------
(* Client slots *)

FreeSlots == {i \in Slot : clients[i].pcb = NULL}

\* The first free slot is given to p, with an empty buffer.
allocate_client(p) ==
    LET i == CHOOSE j \in FreeSlots : \A k \in FreeSlots : j <= k
    IN  [clients EXCEPT ![i] = [pcb |-> p, rx |-> <<>>]]

\* i may be NoSlot, and may have been released before.
release_client(slots, i) ==
    IF i = NoSlot THEN slots ELSE [slots EXCEPT ![i] = [pcb |-> NULL, rx |-> <<>>]]

------------------------------------------------------------------------------
(* Reassembly.  c is the state of a callback that feeds bytes to a client:   *)
(* its buffer, the responses lwIP still has room for, the ADUs processed,    *)
(* the number of responses written, and whether all went well.               *)

LengthField(rx) == rx[PrefixSize]

expected_adu_size(rx) == PrefixSize + LengthField(rx)

HeaderKnown(rx) == Len(rx) >= HeaderSize

MutantMaxExcluded(rx) == LengthField(rx) >= 2 /\ expected_adu_size(rx) < AduMax

LengthValid(rx) == LengthField(rx) >= 2 /\ expected_adu_size(rx) <= AduMax

\* mbtcp_process_adu refuses a foreign protocol identifier; the other faults it
\* looks for have been excluded by then.
mbtcp_process_adu(adu) == adu[1] = 0

Feeding ==
    [rx : Seq(Byte), room : Nat, adus : Seq(Seq(Byte)), answered : Nat, ok : BOOLEAN]

Failed(c) == [c EXCEPT !.ok = FALSE]

Remaining(rx, n) == SubSeq(rx, n + 1, Len(rx))

MutantDropRemainder(rx, n) == <<>>

memmove(rx, n) == Remaining(rx, n)

process_buffered_frames[c \in Feeding] ==
    IF ~HeaderKnown(c.rx) THEN c
    ELSE IF ~LengthValid(c.rx) THEN Failed(c)
    ELSE LET n == expected_adu_size(c.rx)
             adu == SubSeq(c.rx, 1, n)
         IN  IF Len(c.rx) < n THEN c
             ELSE IF ~mbtcp_process_adu(adu) THEN Failed(c)
             ELSE IF c.room = 0 THEN Failed([c EXCEPT !.adus = Append(@, adu)])
             ELSE process_buffered_frames[
                    [rx |-> memmove(c.rx, n), room |-> c.room - 1,
                     adus |-> Append(c.adus, adu), answered |-> c.answered + 1,
                     ok |-> TRUE]]

\* Room is made in a full buffer before bytes are copied to it.
made_room(c) ==
    IF Len(c.rx) < AduMax THEN c
    ELSE LET p == process_buffered_frames[c]
         IN  IF Len(p.rx) = AduMax THEN Failed(p) ELSE p

feed_received_bytes[c \in Feeding, data \in Seq(Byte)] ==
    IF data = <<>> \/ ~c.ok THEN c
    ELSE LET m == made_room(c)
             free == AduMax - Len(m.rx)
             n == IF Len(data) < free THEN Len(data) ELSE free
         IN  IF ~m.ok THEN m
             ELSE feed_received_bytes[
                    process_buffered_frames[[m EXCEPT !.rx = @ \o SubSeq(data, 1, n)]],
                    Remaining(data, n)]

------------------------------------------------------------------------------
(* Callbacks *)

Open(p) == arg[p] # NoSlot

Unused == [stream |-> <<>>, delivered |-> 0, adus |-> <<>>, answered |-> 0]

\* The callback returns, having aborted the connection or not.
Returns(p, callback, aborted) ==
    last' = [pcb |-> p, callback |-> callback, aborted |-> aborted]

\* A new connection: it gets a slot, or is aborted when there is none.
mb_accept(p) ==
    /\ listen_pcb # NULL
    /\ ~Open(p)
    /\ \E stream \in Streams :
          wire' = [wire EXCEPT ![p] = [stream |-> stream, delivered |-> 0,
                                       adus |-> <<>>, answered |-> 0]]
    /\ IF FreeSlots # {}
       THEN /\ clients' = allocate_client(p)
            /\ \E i \in Slot : clients'[i].pcb = p /\ arg' = [arg EXCEPT ![p] = i]
            /\ Returns(p, "accept", FALSE)
       ELSE /\ Returns(p, "accept", TRUE)
            /\ UNCHANGED <<clients, arg>>
    /\ UNCHANGED listen_pcb

\* The connection is gone: a reset, a timeout or want of memory in lwIP, which has
\* freed the control block.
MutantErrorForgets(p) ==
    /\ Open(p)
    /\ arg' = [arg EXCEPT ![p] = NoSlot]
    /\ Returns(p, "error", FALSE)
    /\ UNCHANGED <<listen_pcb, clients, wire>>

mb_connection_error(p) ==
    /\ Open(p)
    /\ clients' = release_client(clients, arg[p])
    /\ arg' = [arg EXCEPT ![p] = NoSlot]
    /\ Returns(p, "error", FALSE)
    /\ UNCHANGED <<listen_pcb, wire>>

\* The peer has closed: packet is NULL.  tcp_close fails for want of memory, and the
\* connection is then aborted; no callback is registered any more.
ReceiveClose(p) ==
    /\ Open(p)
    /\ clients' = release_client(clients, arg[p])
    /\ arg' = [arg EXCEPT ![p] = NoSlot]
    /\ \E closed \in BOOLEAN : Returns(p, "close", ~closed)
    /\ UNCHANGED <<listen_pcb, wire>>

\* tcp_abort runs mb_connection_error before it returns.
aborted_clients(p) ==
    LET client == arg[p]
    IN  release_client(release_client(clients, arg[p]), client)

\* A packet, a chain of parts, with the next bytes of the stream.
ReceivePacket(p, parts, room) ==
    LET fed == FoldLeft(LAMBDA c, part : feed_received_bytes[c, part],
                        [rx |-> clients[arg[p]].rx, room |-> room, adus |-> wire[p].adus,
                         answered |-> wire[p].answered, ok |-> TRUE],
                        parts)
    IN  /\ wire' = [wire EXCEPT ![p].delivered = @ + Len(FlattenSeq(parts)),
                                ![p].adus = fed.adus,
                                ![p].answered = fed.answered]
        /\ IF fed.ok
           THEN /\ clients' = [clients EXCEPT ![arg[p]].rx = fed.rx]
                /\ Returns(p, "receive", FALSE)
                /\ UNCHANGED arg
           ELSE /\ clients' = aborted_clients(p)
                /\ arg' = [arg EXCEPT ![p] = NoSlot]
                /\ Returns(p, "receive", TRUE)
        /\ UNCHANGED listen_pcb

\* A packet that comes with an error is freed unread, and the error returned.
ReceiveError(p) ==
    /\ Open(p)
    /\ Returns(p, "refuse", FALSE)
    /\ UNCHANGED <<listen_pcb, clients, arg, wire>>

mb_receive(p) ==
    \/ ReceiveClose(p)
    \/ ReceiveError(p)
    \/ /\ Open(p)
       /\ \E n \in wire[p].delivered + 1 .. Len(wire[p].stream), room \in 0 .. MaxWrites :
             LET data == SubSeq(wire[p].stream, wire[p].delivered + 1, n)
             IN  \E k \in 1 .. Len(data) :
                    ReceivePacket(p, <<SubSeq(data, 1, k), Remaining(data, k)>>, room)

------------------------------------------------------------------------------
(* Specification *)

\* mbtcp_init: listen_pcb stays NULL when lwIP has no control block, the port cannot
\* be bound or there is no memory to listen.
Init ==
    /\ listen_pcb \in {NULL, "listening"}
    /\ clients = [i \in Slot |-> [pcb |-> NULL, rx |-> <<>>]]
    /\ arg = [p \in Pcb |-> NoSlot]
    /\ wire = [p \in Pcb |-> Unused]
    /\ last = [pcb |-> NULL, callback |-> "none", aborted |-> FALSE]

Next == \E p \in Pcb : mb_accept(p) \/ mb_connection_error(p) \/ mb_receive(p)

Spec == Init /\ [][Next]_vars

------------------------------------------------------------------------------
(* Properties *)

\* The slot table and lwIP's callback arguments agree: a connection's argument is
\* the slot that holds it, no slot is held by a connection that is gone, and a free
\* slot has no bytes left over for the next client.  rx_count never reaches the size of
\* rx_buffer between callbacks, so that feed_received_bytes always has room for a byte.
SlotsMatchConnections ==
    /\ \A i \in Slot : Len(clients[i].rx) < AduMax
    /\ \A p \in Pcb : Open(p) => clients[arg[p]].pcb = p
    /\ \A i \in Slot : IF clients[i].pcb = NULL THEN clients[i].rx = <<>>
                       ELSE arg[clients[i].pcb] = i

\* The ADUs there are, and what a stream must not go on with.
WellFormed(adu) ==
    Len(adu) \in HeaderSize + 1 .. AduMax /\ adu[1] = 0 /\ adu[2] = Len(adu) - PrefixSize

Malformed(s) ==
    /\ Len(s) >= HeaderSize
    /\ \/ s[2] \notin 2 .. AduMax - PrefixSize
       \/ s[1] # 0 /\ Len(s) >= s[2] + PrefixSize

Complete(s) == \E n \in 1 .. Len(s) : WellFormed(SubSeq(s, 1, n))

\* "fragmented/coalesced stream data" (README.md:53): however the stream is cut into
\* segments and pbufs, the ADUs processed and the bytes still buffered are the stream
\* delivered so far, nothing complete or malformed is left waiting, and every ADU
\* processed has been answered.
StreamReassembled ==
    \A p \in Pcb : Open(p) =>
        LET w == wire[p]
            rx == clients[arg[p]].rx
        IN  /\ FlattenSeq(w.adus) \o rx = SubSeq(w.stream, 1, w.delivered)
            /\ \A k \in DOMAIN w.adus : WellFormed(w.adus[k])
            /\ ~Complete(rx) /\ ~Malformed(rx)
            /\ w.answered = Len(w.adus)

\* Why the last callback aborted its connection, if it did.
HadCause ==
    LET w == wire[last.pcb]
        done == FlattenSeq(w.adus)
    IN  last.aborted =>
          \/ last.callback = "close"
          \/ last.callback = "receive" /\ w.answered = Len(w.adus) - 1
          \/ /\ last.callback = "receive" /\ w.answered = Len(w.adus)
             /\ Malformed(SubSeq(w.stream, Len(done) + 1, w.delivered))
          \/ last.callback = "accept" /\ FreeSlots = {}
                /\ Cardinality({p \in Pcb : Open(p)}) = MaxClients

\* A connection is aborted for a reason: an accepted one because tcp_write refused
\* the response to the last ADU, or the stream goes on with a malformed ADU, or
\* tcp_close failed; a new one because every slot has a live connection.
AbortedForCause == [][HadCause']_vars

==============================================================================
