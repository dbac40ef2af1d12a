------------------------------ MODULE MCExchange ------------------------------
EXTENDS Exchange, MCRegisterMap

(* The register functions *)

MCWideSize == [table \in Table |-> IF table \in {"coils", "discrete_inputs"} THEN 10 ELSE 2]

BuilderCall(builder, function, start, quantity, data) ==
    [builder |-> builder, slave |-> 1, function |-> function, start |-> start,
     quantity |-> quantity, value |-> 0, data |-> data, write_start |-> 0,
     write_quantity |-> 0, adu_capacity |-> 256]

ReadBits(function, start, quantity) == BuilderCall("read_bits", function, start, quantity, <<>>)
ReadWords(function, start, quantity) ==
    BuilderCall("read_registers", function, start, quantity, <<>>)
Coil(start, value) ==
    [BuilderCall("write_single_coil", 5, start, 0, <<>>) EXCEPT !.value = value]
Word1(start, w) == BuilderCall("write_single_register", 6, start, 0, <<w>>)
Masks(start, and_mask, or_mask) ==
    BuilderCall("mask_write_register", 22, start, 0, <<and_mask, or_mask>>)
Coils(start, quantity, bytes) ==
    BuilderCall("write_multiple_coils", 15, start, quantity, bytes)
Words(start, words) ==
    BuilderCall("write_multiple_registers", 16, start, Len(words), words)
ReadWriteWords(start, quantity, write_start, words) ==
    [BuilderCall("read_write_multiple_registers", 23, start, quantity, words)
        EXCEPT !.write_start = write_start, !.write_quantity = Len(words)]

\* Every builder: within the server's map, over a byte boundary of the coils and with
\* padding to clear, outside it, and at the builders' own limits.
MCCalls ==
    {ReadBits(1, 0, 9), ReadBits(1, 1, 8), ReadBits(2, 1, 9), ReadWords(3, 0, 2),
     ReadWords(4, 1, 1), Coil(9, 1), Coil(9, 0), Word1(1, {1}), Coils(1, 9, <<{0, 6}, {0, 5}>>),
     Coils(0, 8, <<{7}>>), Words(0, <<{0}, {0, 1}>>), Masks(1, {0}, {1}),
     ReadWriteWords(0, 2, 1, <<{0, 1}>>),
     ReadBits(1, 10, 1), ReadBits(2, 0, 2000), ReadWords(3, 1, 2), ReadWords(4, 65535, 1),
     Coil(10, 0), Word1(2, {0}), Coils(2, 9, <<{0}, {0}>>), Words(1, <<{0}, {0}>>),
     Masks(2, {}, {}), ReadWriteWords(0, 1, 1, <<{0}, {0}>>), ReadWriteWords(2, 1, 0, <<{0}>>),
     ReadBits(2, 0, 0), ReadBits(1, 0, 2001), ReadBits(3, 0, 1), ReadWords(3, 0, 126),
     ReadWords(4, 65535, 2), Coil(0, 2), [Words(0, <<{0}>>) EXCEPT !.slave = 0],
     [Words(0, <<{0}>>) EXCEPT !.adu_capacity = 10]}

BuiltPdus == {ServerPdu(Build(c).pdu) : c \in {c \in MCCalls : Build(c).result = "OK"}}

\* Requests no builder makes.  Each way of being refused: lengths, quantities and
\* addresses at their limits, byte counts, and a response buffer one byte short.
Refused ==
    LET short(r) == [r EXCEPT !.capacity = 2]
        longer(r) == [r EXCEPT !.len = @ + 1]
        counted(r) == [r EXCEPT !.count = @ + 1]
        writes == {WriteCoils(1, 2, <<{0}>>), WriteRegisters(0, <<{0}>>), ReadWrite(0, 1, 0, <<{0}>>)}
        fixed == {Read(1, 0, 1), Read(4, 0, 1), WriteCoil(0, 0), WriteRegister(0, {0}),
                  MaskWrite(0, {}, {0})}
    IN  {short(r) : r \in writes \cup fixed} \cup {longer(r) : r \in writes \cup fixed}
        \cup {counted(r) : r \in writes}
        \cup {Read(2, 0, 0), Read(2, 0, 2001), Read(3, 0, 126), Read(3, 1, 2), Read(1, 10, 1),
              WriteCoil(0, 1), WriteCoil(10, 0), WriteRegister(2, {0}), MaskWrite(2, {}, {}),
              WriteRegisters(1, <<{0}, {0}>>), WriteCoils(2, 9, <<{0}, {0}>>),
              ReadWrite(0, 1, 1, <<{0}, {0}>>), ReadWrite(2, 1, 0, <<{0}>>),
              Pdu(7, 1, 0, 0, 0, <<>>)}

SetByApplication ==
    Application(<<Set("discrete_inputs", 9, {0}), Set("input_registers", 1, {1}),
                  Set("discrete_inputs", 10, {0})>>)

OneTask == BuiltPdus \cup Refused \cup {SetByApplication}

(* Answers from anywhere.  A frame holds as much data as its length allows; *)
(* its counts, its echo and its envelope may be anything.                   *)

Answer(c, length, count, echo, data) == AnswerFrame(c.function, length, count, echo, data)

BitsAnswers(c) ==
    {Answer(c, 5 + Len(data), count, <<>>, data) :
        count \in 0 .. 3, data \in SeqOf({{}, {0}, {1, 7}}, 3)}

WordsAnswers(c) ==
    {Answer(c, 5 + 2 * Len(data) + odd, count, <<>>, data) :
        count \in 0 .. 5, odd \in {0, 1}, data \in SeqOf({{}, {1}}, 3)}

EchoAnswers(c, words) ==
    {Answer(c, length, 0, echo, <<>>) : length \in {5, 7, 8, 9, 10, 257}, echo \in words}

LengthAnswers(c) ==
    {Answer(c, length, count, <<>>, <<>>) :
        length \in {4, 5, 6, 8, 10, 11, 12, 75, 76}, count \in {0, 5, 6, 7, 70, 71}}

IdAnswers(c) ==
    {Answer(c, 5 + Len(data), count, <<>>, data) :
        count \in 0 .. 5, data \in SeqOf({1, 255}, 4)}

DiagnosticAnswers(c) ==
    {Answer(c, 6 + 2 * Len(data) + odd, 0, <<sub>>, data) :
        sub \in {c.start, 12}, odd \in {0, 1}, data \in SeqOf({0, 7, 65280}, 2)}

Enveloped(a) ==
    {a, [a EXCEPT !.intact = FALSE], [a EXCEPT !.slave = 2], [a EXCEPT !.function = 99],
     [a EXCEPT !.function = @ + 128], [a EXCEPT !.function = @ + 128, !.code = 2]}

FunctionOnly(function) == BuilderCall("function_only", function, 0, 0, <<>>)
ServerId(length) == BuilderCall("report_server_id", 17, 0, length, <<>>)
Diagnostics(sub, words) == BuilderCall("diagnostics", 8, sub, 0, words)

AnswersTo(c) ==
    CASE c.function \in {1, 2} -> BitsAnswers(c)
      [] c.function \in {3, 4, 23} -> WordsAnswers(c)
      [] c.function = 5 -> EchoAnswers(c, {<<i, v>> : i \in {9, 8}, v \in {0, 65280}})
      [] c.function = 6 -> EchoAnswers(c, {<<i, v>> : i \in {1, 0}, v \in {{}, {1}}})
      [] c.function \in {15, 16} -> EchoAnswers(c, {<<i, v>> : i \in 0 .. 1, v \in {1, 2, 8, 9}})
      [] c.function = 22 ->
            EchoAnswers(c, {<<i, v, w>> : i \in {1, 0}, v \in {{0}, {1}}, w \in {{0}, {1}}})
      [] c.function \in {7, 11, 12} -> LengthAnswers(c)
      [] c.function = 17 -> IdAnswers(c)
      [] c.function = 8 -> DiagnosticAnswers(c)

StrayCalls ==
    {ReadBits(1, 0, 9), ReadBits(2, 1, 8), ReadBits(1, 0, 1), ReadWords(3, 0, 2), ReadWords(4, 1, 1),
     Coil(9, 1), Coil(9, 0), Word1(1, {1}), Coils(1, 9, <<{0, 6}, {0}>>),
     Words(0, <<{0}, {0, 1}>>), Masks(1, {0}, {1}), ReadWriteWords(0, 2, 1, <<{0, 1}>>),
     FunctionOnly(7), FunctionOnly(11), FunctionOnly(12), ServerId(1), ServerId(3), ServerId(0),
     Diagnostics(0, <<>>), Diagnostics(0, <<7, 0>>), Diagnostics(1, <<65280>>), Diagnostics(1, <<7>>),
     Diagnostics(2, <<0>>), Diagnostics(10, <<0>>), Diagnostics(18, <<0>>), Diagnostics(4, <<0>>),
     Diagnostics(3, <<0>>)}

MCStrays ==
    UNION {{<<c, a>> : a \in UNION {Enveloped(a) : a \in AnswersTo(c)}} : c \in StrayCalls}

(* The application's blocks *)

MCBlock == {"a", "b"}
MCLength == [b \in MCBlock |-> IF b = "a" THEN 3 ELSE 2]
MCWord == 0 .. 3

Desc(key, block, count) == [key |-> key, block |-> block, count |-> count]

\* Two files, one file that describes part of a block, two files that share one, and
\* the tables that are refused.
MCFileTables ==
    {<<Desc(1, "a", 3), Desc(3, "b", 2)>>, <<Desc(3, "a", 2)>>, <<Desc(1, "b", 2), Desc(3, "b", 1)>>,
     <<>>, <<Desc(1, "a", 3), Desc(1, "b", 2)>>, <<Desc(3, "a", 3), Desc(1, "b", 2)>>,
     <<Desc(0, "a", 1)>>, <<Desc(1, NoBlock, 1)>>, <<Desc(1, "a", 0)>>}

MCQueueTables ==
    {<<Desc(0, "a", 3), Desc(2, "b", 2)>>, <<Desc(2, "a", 2)>>, <<Desc(2, "b", 2), Desc(2, "a", 3)>>,
     <<Desc(0, NoBlock, 1)>>, <<Desc(0, "a", 0)>>, <<>>}

Sub(file, record, data) ==
    [typed |-> TRUE, file |-> file, record |-> record, length |-> Len(data), data |-> data]
ReadSub(file, record, length) ==
    [typed |-> TRUE, file |-> file, record |-> record, length |-> length]
Untyped(sub) == [sub EXCEPT !.typed = FALSE]

Framed(subs) == [framed |-> TRUE, subs |-> subs, rest |-> 0]

MCReads ==
    {Framed(<<ReadSub(1, 0, 3)>>), Framed(<<ReadSub(3, 0, 1), ReadSub(1, 1, 1)>>),
     Framed(<<ReadSub(3, 1, 1), ReadSub(3, 0, 1)>>), Framed(<<ReadSub(1, 0, 2), ReadSub(1, 0, 2)>>),
     Framed(<<ReadSub(1, 2, 2)>>), Framed(<<ReadSub(3, 2, 1)>>), Framed(<<ReadSub(3, 3, 1)>>),
     Framed(<<ReadSub(2, 0, 1)>>), Framed(<<ReadSub(1, 0, 0)>>), Framed(<<Untyped(ReadSub(1, 0, 1))>>),
     Framed(<<>>), [Framed(<<ReadSub(1, 0, 1)>>) EXCEPT !.framed = FALSE]}

\* Overlapping sub-requests, a refused one after accepted ones, and the rest.
MCWrites ==
    {Framed(<<Sub(1, 0, <<1, 2>>), Sub(1, 1, <<3>>)>>), Framed(<<Sub(3, 0, <<2>>), Sub(1, 0, <<1>>)>>),
     Framed(<<Sub(3, 1, <<1>>)>>), Framed(<<Sub(1, 0, <<3>>), Sub(3, 1, <<2, 2>>)>>),
     Framed(<<Sub(1, 0, <<2>>), Untyped(Sub(1, 1, <<2>>))>>), Framed(<<Sub(3, 2, <<1>>)>>),
     Framed(<<Sub(3, 3, <<1>>)>>), Framed(<<Sub(2, 0, <<1>>)>>), Framed(<<Sub(1, 0, <<>>)>>),
     Framed(<<Sub(1, 0, <<1>>), [Sub(1, 1, <<1>>) EXCEPT !.length = 2]>>),
     [Framed(<<Sub(1, 0, <<3>>)>>) EXCEPT !.rest = 3], [Framed(<<Sub(1, 0, <<3>>)>>) EXCEPT !.framed = FALSE]}

\* What the next step depends on.
ExchangeView == <<serving, stray, map, mutex, created, holder, task, files, queues, memory>>
===============================================================================
