-------------------------------- MODULE Crc16 --------------------------------
(***************************************************************************)
(* The CRC of an RTU frame on a line that flips bits.  A byte or a         *)
(* register is the set of the positions of its one bits, so that exclusive *)
(* or is the symmetric difference and a shift moves every position down.   *)
(***************************************************************************)
EXTENDS Integers, Sequences, FiniteSets

CONSTANTS
    Payloads,       \* what is sent: sequences of bytes
    FlipMax         \* the most bits flipped anywhere in a frame

VARIABLES
    sent,           \* the payload
    adu,            \* the frame on the wire
    flipped         \* the bits flipped, <<byte, bit>>

crc_vars == <<sent, adu, flipped>>

MODBUS_RTU_CRC_SIZE == 2

xor(a, b) == (a \ b) \cup (b \ a)

ShiftRight(a, n) == {i - n : i \in {j \in a : j >= n}}

\* 0xA001
Polynomial == {0, 13, 15}

crc_bit(crc) ==
    IF 0 \in crc THEN xor(ShiftRight(crc, 1), Polynomial) ELSE ShiftRight(crc, 1)

\* The inner loop, from a register with `bits` bits to go; and the outer one, from
\* byte i on.
crc_bits[crc \in SUBSET (0 .. 15), bits \in 0 .. 8] ==
    IF bits = 0 THEN crc ELSE crc_bits[crc_bit(crc), bits - 1]

MutantSevenBits(data) ==
    LET rest[crc \in SUBSET (0 .. 15), i \in 1 .. Len(data) + 1] ==
            IF i > Len(data) THEN crc ELSE rest[crc_bits[xor(crc, data[i]), 7], i + 1]
    IN  rest[0 .. 15, 1]

mb_crc16(data) ==
    LET rest[crc \in SUBSET (0 .. 15), i \in 1 .. Len(data) + 1] ==
            IF i > Len(data) THEN crc ELSE rest[crc_bits[xor(crc, data[i]), 8], i + 1]
    IN  rest[0 .. 15, 1]

\* Low byte first.
write_crc_le(crc) == <<crc \cap (0 .. 7), ShiftRight(crc, 8)>>

read_crc_le(p) == p[1] \cup {i + 8 : i \in p[2]}

\* The slave and the transaction engine compare; the validator divides the whole.
slave_accepts(frame) ==
    LET n == Len(frame) - MODBUS_RTU_CRC_SIZE
    IN  read_crc_le(SubSeq(frame, n + 1, Len(frame))) = mb_crc16(SubSeq(frame, 1, n))

master_accepts(frame) == mb_crc16(frame) = {}

\* append_crc, and the slave's answer.
append_crc(payload) == payload \o write_crc_le(mb_crc16(payload))

------------------------------------------------------------------------------
(* The line *)

FrameSent(payload) ==
    /\ sent' = payload
    /\ adu' = append_crc(payload)
    /\ flipped' = {}

\* One more bit is flipped: few anywhere in the frame, or any number within a byte.
BitFlips(byte, bit) ==
    /\ \A f \in flipped : f[1] < byte \/ (f[1] = byte /\ f[2] < bit)
    /\ \/ Cardinality(flipped) < FlipMax
       \/ \A f \in flipped : f[1] = byte
    /\ flipped' = flipped \cup {<<byte, bit>>}
    /\ adu' = [adu EXCEPT ![byte] = xor(@, {bit})]
    /\ UNCHANGED sent

CrcInit == sent = <<>> /\ adu = <<>> /\ flipped = {}

CrcNext ==
    \/ \E payload \in Payloads : FrameSent(payload)
    \/ \E byte \in DOMAIN adu, bit \in 0 .. 7 : BitFlips(byte, bit)

------------------------------------------------------------------------------
(* Properties *)

\* A frame arrives as it was sent or is refused, by the slave (modbus_rtu.c:219-224)
\* and by the master (modbus_rtu_master.c:1387): mb_crc16 misses no damage of up to
\* FlipMax bits, or within one byte, its own two bytes included.
DamageDetected ==
    adu # <<>> => /\ slave_accepts(adu) <=> flipped = {}
                  /\ master_accepts(adu) <=> flipped = {}
==============================================================================
