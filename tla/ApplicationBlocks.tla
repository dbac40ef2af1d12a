-------------------------- MODULE ApplicationBlocks --------------------------
(***************************************************************************)
(* File records (FC20, FC21) and FIFO queues (FC24) of App/src/modbus.c.   *)
(* The application owns blocks of 16-bit words and hands the library       *)
(* tables of descriptors that point to them.  Every operation here holds   *)
(* the library's lock from its first access to its last, so each is one    *)
(* step; what the lock guarantees is the subject of RegisterMap.           *)
(***************************************************************************)
EXTENDS ModbusExceptions, Integers, FiniteSets, Sequences, SequencesExt

CONSTANTS
    Block,         \* the application's blocks of words
    Length,        \* the number of words of each block
    Word,          \* values of a word
    FileTables,    \* arguments of mb_file_record_configure considered
    QueueTables,   \* arguments of mb_fifo_configure considered
    Reads,         \* FC20 requests considered
    Writes,        \* FC21 requests considered
    Addresses,     \* FIFO pointer addresses asked for
    Capacity,      \* sizes of a response buffer, at most a PDU
    MaxFiles,      \* MB_FILE_RECORD_MAX_FILES
    MaxRecords,    \* MB_FILE_RECORD_MAX_RECORDS_PER_FILE
    ResponseMax,   \* MB_FILE_RECORD_RESPONSE_DATA_MAX
    MaxQueues,     \* MB_FIFO_MAX_QUEUES
    MaxValues      \* MB_FIFO_MAX_VALUES

NoBlock == "NULL"

ASSUME BlocksAssumption ==
    /\ NoBlock \notin Block
    /\ Length \in [Block -> Nat \ {0}]
    /\ Word \subseteq Nat
    /\ {MaxFiles, MaxRecords, ResponseMax, MaxQueues, MaxValues} \subseteq Nat

VARIABLES
    files,   \* file_record_state: descriptors [key, block, count]
    queues,  \* fifo_state: descriptors [key, block, count]
    memory,  \* the application's blocks
    last     \* history: the last request, its exception and its response

blocks_vars == <<files, queues, memory, last>>

------------------------------------------------------------------------------
(* Descriptor tables.  A descriptor's key is its file number or its pointer  *)
(* address; block is NoBlock where the application passes no words.             *)

MutantOutOfOrder(table) == \A i \in 2 .. Len(table) : table[i - 1].key # table[i].key

Increasing(table) == \A i \in 2 .. Len(table) : table[i - 1].key < table[i].key

mb_file_record_configure(table) ==
    LET valid == /\ Len(table) \in 1 .. MaxFiles
                 /\ \A i \in DOMAIN table : /\ table[i].key # 0
                                            /\ table[i].block # NoBlock
                                            /\ table[i].count \in 1 .. MaxRecords
                 /\ Increasing(table)
    IN  /\ files' = IF valid THEN table ELSE files
        /\ last' = [op |-> "configure", ok |-> valid]
        /\ UNCHANGED <<queues, memory>>

mb_file_record_clear ==
    /\ files' = <<>>
    /\ last' = [op |-> "clear"]
    /\ UNCHANGED <<queues, memory>>

mb_fifo_configure(table) ==
    LET valid == /\ Len(table) \in 1 .. MaxQueues
                 /\ \A i \in DOMAIN table : /\ table[i].block # NoBlock
                                            /\ table[i].count \in 1 .. 1 + MaxValues
                 /\ Increasing(table)
    IN  /\ queues' = IF valid THEN table ELSE queues
        /\ last' = [op |-> "configure", ok |-> valid]
        /\ UNCHANGED <<files, memory>>

mb_fifo_clear ==
    /\ queues' = <<>>
    /\ last' = [op |-> "clear"]
    /\ UNCHANGED <<files, memory>>

\* The index of the descriptor with this key, 0 if there is none: the scan stops at
\* the first key that is not smaller.
find_unlocked(table, key) ==
    LET from == {i \in DOMAIN table : table[i].key >= key}
    IN  IF from = {} THEN 0
        ELSE LET i == CHOOSE j \in from : \A k \in from : j <= k
             IN  IF table[i].key = key THEN i ELSE 0

------------------------------------------------------------------------------
(* File records.  A sub-request names a file, its first record and a number  *)
(* of records; "typed" says that its reference type is 6.                    *)

\* The records lie in a configured file.
records_exist(sub) ==
    LET i == find_unlocked(files, sub.file)
    IN  /\ i # 0
        /\ sub.record <= files[i].count
        /\ sub.length <= files[i].count - sub.record

WithinLimit(sub) == sub.record < MaxRecords /\ sub.record + sub.length <= MaxRecords

SubresponseLength(sub) == 2 + 2 * sub.length

\* The loop over the sub-requests of FC20: the exception so far, and the length of
\* the response data.
check_read_record(c, sub) ==
    LET refused(e) == [c EXCEPT !.exception = e]
    IN  IF c.exception # 0 THEN c
        ELSE IF ~sub.typed THEN refused(ILLEGAL_DATA_ADDRESS)
        ELSE IF sub.length = 0 THEN refused(ILLEGAL_DATA_VALUE)
        ELSE IF ~WithinLimit(sub) THEN refused(ILLEGAL_DATA_ADDRESS)
        ELSE IF ~records_exist(sub) THEN refused(ILLEGAL_DATA_ADDRESS)
        ELSE IF SubresponseLength(sub) > ResponseMax - c.length
             THEN refused(ILLEGAL_DATA_VALUE)
        ELSE [c EXCEPT !.length = @ + SubresponseLength(sub)]

read_exception(r, capacity) ==
    LET c == FoldLeft(check_read_record, [exception |-> 0, length |-> 0], r.subs)
    IN  IF ~r.framed \/ r.subs = <<>> THEN ILLEGAL_DATA_VALUE
        ELSE IF c.exception # 0 THEN c.exception
        ELSE IF capacity < 2 + c.length THEN SERVER_FAILURE
        ELSE 0

\* A word outside the block would be none of the application's.
records_of(sub) ==
    LET words == memory[files[find_unlocked(files, sub.file)].block]
    IN  [n \in 1 .. sub.length |->
            IF sub.record + n \in DOMAIN words THEN words[sub.record + n] ELSE NoBlock]

mb_file_record_process_read_request(r, capacity) ==
    LET exception == read_exception(r, capacity)
    IN  /\ last' = [op |-> "FC20", request |-> r, exception |-> exception, capacity |-> capacity,
                    response |-> IF exception = 0
                                 THEN [k \in DOMAIN r.subs |-> records_of(r.subs[k])]
                                 ELSE <<>>]
        /\ UNCHANGED <<files, queues, memory>>

\* FC21: the sub-request must also carry its data; "rest" bytes after the last one
\* are too few for another header.
SubrequestLength(sub) == 7 + 2 * Len(sub.data)

check_write_record(e, sub) ==
    IF e # 0 THEN e
    ELSE IF ~sub.typed THEN ILLEGAL_DATA_ADDRESS
    ELSE IF sub.length = 0 THEN ILLEGAL_DATA_VALUE
    ELSE IF ~WithinLimit(sub) THEN ILLEGAL_DATA_ADDRESS
    ELSE IF sub.length > Len(sub.data) THEN ILLEGAL_DATA_VALUE
    ELSE IF ~records_exist(sub) THEN ILLEGAL_DATA_ADDRESS
    ELSE 0

RequestLength(r) ==
    2 + r.rest + FoldLeft(LAMBDA n, sub : n + SubrequestLength(sub), 0, r.subs)

write_exception(r, capacity) ==
    LET e == FoldLeft(check_write_record, 0, r.subs)
    IN  IF ~r.framed \/ r.subs = <<>> THEN ILLEGAL_DATA_VALUE
        ELSE IF e # 0 THEN e
        ELSE IF r.rest # 0 THEN ILLEGAL_DATA_VALUE
        ELSE IF capacity < RequestLength(r) THEN SERVER_FAILURE
        ELSE 0

\* One sub-request is written to its block.
written(m, sub) ==
    LET block == files[find_unlocked(files, sub.file)].block
    IN  [m EXCEPT ![block] =
           [i \in DOMAIN @ |-> IF i \in sub.record + 1 .. sub.record + sub.length
                               THEN sub.data[i - sub.record] ELSE @[i]]]

MutantWriteAsChecked(r, capacity) ==
    LET exception == write_exception(r, capacity)
        good == SelectSeq(r.subs, LAMBDA sub : check_write_record(0, sub) = 0)
    IN  /\ memory' = FoldLeft(written, memory, good)
        /\ last' = [op |-> "FC21", request |-> r, exception |-> exception, capacity |-> capacity]
        /\ UNCHANGED <<files, queues>>

mb_file_record_process_write_request(r, capacity) ==
    LET exception == write_exception(r, capacity)
    IN  /\ memory' = IF exception = 0 THEN FoldLeft(written, memory, r.subs) ELSE memory
        /\ last' = [op |-> "FC21", request |-> r, exception |-> exception, capacity |-> capacity]
        /\ UNCHANGED <<files, queues>>

------------------------------------------------------------------------------
(* FIFO queues.  The first word of a queue's block is its count.             *)

fifo_exception(i, capacity) ==
    LET count == memory[queues[i].block][1]
    IN  IF count > MaxValues THEN ILLEGAL_DATA_VALUE
        ELSE IF queues[i].count < 1 + count THEN SERVER_FAILURE
        ELSE IF capacity < 5 + 2 * count THEN SERVER_FAILURE
        ELSE 0

values_of(i) ==
    LET words == memory[queues[i].block]
    IN  [n \in 1 .. words[1] |-> IF n + 1 \in DOMAIN words THEN words[n + 1] ELSE NoBlock]

mb_fifo_process_read_request(address, framed, capacity) ==
    LET i == find_unlocked(queues, address)
        exception == IF ~framed THEN ILLEGAL_DATA_VALUE
                     ELSE IF i = 0 THEN ILLEGAL_DATA_ADDRESS
                     ELSE fifo_exception(i, capacity)
    IN  /\ last' = [op |-> "FC24", address |-> address, framed |-> framed,
                    exception |-> exception, capacity |-> capacity,
                    response |-> IF exception = 0 THEN values_of(i) ELSE <<>>]
        /\ UNCHANGED <<files, queues, memory>>

\* The application updates one of its words, holding the lock.
ApplicationWrites(block, i, v) ==
    /\ memory' = [memory EXCEPT ![block][i] = v]
    /\ last' = [op |-> "application"]
    /\ UNCHANGED <<files, queues>>

------------------------------------------------------------------------------
(* Specification *)

\* mb_init has cleared both tables.
BlocksInit ==
    /\ files = <<>>
    /\ queues = <<>>
    /\ memory = [b \in Block |-> [i \in 1 .. Length[b] |-> 0]]
    /\ last = [op |-> "init"]

BlocksNext ==
    \/ \E table \in FileTables : mb_file_record_configure(table)
    \/ mb_file_record_clear
    \/ \E table \in QueueTables : mb_fifo_configure(table)
    \/ mb_fifo_clear
    \/ \E r \in Reads, capacity \in Capacity : mb_file_record_process_read_request(r, capacity)
    \/ \E r \in Writes, capacity \in Capacity : mb_file_record_process_write_request(r, capacity)
    \/ \E address \in Addresses, framed \in BOOLEAN, capacity \in Capacity :
          mb_fifo_process_read_request(address, framed, capacity)
    \/ \E b \in Block : \E i \in 1 .. Length[b], v \in Word : ApplicationWrites(b, i, v)

BlocksSpec == BlocksInit /\ [][BlocksNext]_blocks_vars

------------------------------------------------------------------------------
(* Properties *)

Descriptors(table) == {table[i] : i \in DOMAIN table}

\* The file a sub-request names, without the scan.
FileOf(sub) == CHOOSE d \in Descriptors(files) : d.key = sub.file

Exists(sub) ==
    /\ sub.file \in {d.key : d \in Descriptors(files)}
    /\ \A n \in 1 .. sub.length : sub.record + n \in 1 .. FileOf(sub).count

\* FC21 is all or nothing ("complete-request atomic validation",
\* docs/modbus-fc21-write-file-record.md:274): one refused sub-request, wherever it
\* stands, keeps all records as they were; an accepted request leaves in each record the
\* data of the last sub-request that covers it, and touches no other.
WriteAllOrNothing ==
    [][last'.op = "FC21" =>
        LET subs == last'.request.subs
            covers(k, b, i) == /\ FileOf(subs[k]).block = b
                               /\ i \in subs[k].record + 1 .. subs[k].record + subs[k].length
        IN  IF last'.exception # 0 THEN memory' = memory
            ELSE /\ \A k \in DOMAIN subs : Exists(subs[k])
                 /\ \A b \in Block : \A i \in 1 .. Length[b] :
                       LET ks == {k \in DOMAIN subs : covers(k, b, i)}
                       IN  IF ks = {} THEN memory'[b][i] = memory[b][i]
                           ELSE \E k \in ks : /\ \A j \in ks : j <= k
                                              /\ memory'[b][i] = subs[k].data[i - subs[k].record]]_blocks_vars

==============================================================================
