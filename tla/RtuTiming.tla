------------------------------ MODULE RtuTiming ------------------------------
(***************************************************************************)
(* mbrtu_calculate_timing turns a serial configuration into four numbers   *)
(* of 50 us ticks, each rounded up on its own, and the byte handlers of    *)
(* the slave and of the master example judge the silence between two       *)
(* bytes by them.  The tick timer runs free: the ticks counted between two *)
(* byte-complete callbacks depend on where between two ticks the first one *)
(* falls.                                                                  *)
(*                                                                         *)
(* Wire time is counted exactly, in units of half a microsecond divided by *)
(* the baud rate, so that half a character is a whole number of units.     *)
(***************************************************************************)
EXTENDS Integers

CONSTANTS
    BaudRates, DataBits, ParityBits, StopBits,   \* what mbrtu_config_t may hold
    Silences(_),                                 \* the silences of the sender
    Phases(_)                                    \* where between two ticks a byte completes

MODBUS_RTU_TICK_US == 50

VARIABLES
    ctx,        \* mbrtu_context_t: whether it is initialized, and its configuration
    gap         \* the last silence, the phase before it and the ticks counted

timing_vars == <<ctx, gap>>

SerialConfig == [baud_rate : BaudRates, data_bits : DataBits,
                 parity_bits : ParityBits, stop_bits : StopBits]

ceil_div_u64(numerator, denominator) ==
    (numerator + denominator - 1) \div denominator

config_is_valid(c) ==
    /\ c.baud_rate # 0
    /\ c.data_bits >= 5 /\ c.data_bits <= 9
    /\ c.parity_bits <= 1 /\ c.stop_bits >= 1 /\ c.stop_bits <= 2

bits_per_character(c) == 1 + c.data_bits + c.parity_bits + c.stop_bits

\* The ticks of a number of tenths of a character, and of a number of
\* microseconds and one character.
character_tenths(c, tenths) ==
    ceil_div_u64(tenths * bits_per_character(c) * 1000000,
                 10 * c.baud_rate * MODBUS_RTU_TICK_US)

after_character(c, us) ==
    ceil_div_u64(us * c.baud_rate + bits_per_character(c) * 1000000,
                 c.baud_rate * MODBUS_RTU_TICK_US)

character_ticks(c) ==
    ceil_div_u64(bits_per_character(c) * 1000000, c.baud_rate * MODBUS_RTU_TICK_US)

t1_5_ticks(c) == IF c.baud_rate > 19200 THEN 15 ELSE character_tenths(c, 15)
t3_5_ticks(c) == IF c.baud_rate > 19200 THEN 35 ELSE character_tenths(c, 35)

\* The silence and the character that ends it.
MutantSilenceOnly(c) == t1_5_ticks(c)

byte_complete_t1_5_ticks(c) ==
    IF c.baud_rate > 19200 THEN after_character(c, 750) ELSE character_tenths(c, 25)

MutantByteForgotten(c) == t3_5_ticks(c)

byte_complete_t3_5_ticks(c) ==
    IF c.baud_rate > 19200 THEN after_character(c, 1750) ELSE character_tenths(c, 45)

ticks_are_ordered(c) ==
    /\ character_ticks(c) # 0 /\ t1_5_ticks(c) # 0 /\ t3_5_ticks(c) # 0
    /\ byte_complete_t1_5_ticks(c) # 0 /\ byte_complete_t3_5_ticks(c) # 0
    /\ t1_5_ticks(c) < t3_5_ticks(c)
    /\ byte_complete_t1_5_ticks(c) < byte_complete_t3_5_ticks(c)

mbrtu_calculate_timing(c) ==
    IF config_is_valid(c) /\ ticks_are_ordered(c) THEN "OK" ELSE "ERROR_SERIAL_CONFIG"

\* The byte handler of the slave, on the ticks since the last byte.
slave_verdict(c, ticks) ==
    IF ticks >= byte_complete_t3_5_ticks(c) THEN "ended"
    ELSE IF ticks > byte_complete_t1_5_ticks(c) THEN "invalid"
    ELSE "accepted"

\* The master example ends a frame from its tick handler, after T3.5 alone.
master_verdict(c, ticks) ==
    IF ticks >= t3_5_ticks(c) THEN "ended" ELSE slave_verdict(c, ticks)

------------------------------------------------------------------------------
(* The wire and the free running timer *)

Tick(c) == 2 * MODBUS_RTU_TICK_US * c.baud_rate
Character(c) == 2 * 1000000 * bits_per_character(c)

\* T1.5 and T3.5 as the protocol has them: fixed above 19200 baud.
T1_5(c) == IF c.baud_rate > 19200 THEN 1500 * c.baud_rate ELSE 3 * (Character(c) \div 2)
T3_5(c) == IF c.baud_rate > 19200 THEN 3500 * c.baud_rate ELSE 7 * (Character(c) \div 2)

\* The ticks between two byte-complete callbacks with a silence between the bytes,
\* the first callback `phase` units after a tick.
TicksCounted(c, silence, phase) == (phase + silence + Character(c)) \div Tick(c)

ASSUME SerialAssumption ==
    /\ BaudRates \subseteq Nat /\ DataBits \subseteq Nat
    /\ ParityBits \subseteq Nat /\ StopBits \subseteq Nat
    /\ \A c \in {d \in SerialConfig : config_is_valid(d)} :
          /\ \A silence \in Silences(c) : silence \in Nat
          /\ \A phase \in Phases(c) : phase \in 0 .. Tick(c) - 1

NoGap == [silence |-> 0, phase |-> 0, ticks |-> 0]

\* mbrtu_init: a configuration that is refused leaves the context as it was.
mbrtu_init(c) ==
    IF mbrtu_calculate_timing(c) = "OK"
    THEN ctx' = [initialized |-> TRUE, config |-> c] /\ gap' = NoGap
    ELSE UNCHANGED timing_vars

\* The next byte is complete.
NextByte(silence, phase) ==
    /\ ctx.initialized
    /\ gap' = [silence |-> silence, phase |-> phase,
               ticks |-> TicksCounted(ctx.config, silence, phase)]
    /\ UNCHANGED ctx

TimingInit ==
    /\ ctx = [initialized |-> FALSE,
              config |-> [baud_rate |-> 0, data_bits |-> 0, parity_bits |-> 0, stop_bits |-> 0]]
    /\ gap = NoGap

TimingNext ==
    \/ \E c \in SerialConfig : mbrtu_init(c)
    \/ /\ ctx.initialized
       /\ \E silence \in Silences(ctx.config), phase \in Phases(ctx.config) :
             NextByte(silence, phase)

TimingSpec == TimingInit /\ [][TimingNext]_timing_vars

------------------------------------------------------------------------------
(* Properties *)

\* No silence the protocol allows within a frame is taken for its end or for an
\* invalid gap, wherever in a tick the bytes complete: neither by
\* mbrtu_on_rx_byte_isr nor by the master example, although every deadline is
\* rounded on its own (modbus_rtu.c:487-518) and the example's tick handler
\* does not wait for the byte on the wire (app.c:274-289).
LegalGapAccepted ==
    ctx.initialized /\ gap.silence <= T1_5(ctx.config) =>
        /\ slave_verdict(ctx.config, gap.ticks) = "accepted"
        /\ master_verdict(ctx.config, gap.ticks) = "accepted"

\* T3.5 is kept to one tick: a silence of T3.5 and a tick ends the frame, and one
\* of T3.5 less a tick does not end the slave's.
FrameGapEnds ==
    ctx.initialized =>
        LET verdict == slave_verdict(ctx.config, gap.ticks)
        IN  /\ gap.silence >= T3_5(ctx.config) + Tick(ctx.config) =>
                  verdict = "ended" /\ master_verdict(ctx.config, gap.ticks) = "ended"
            /\ gap.silence + Tick(ctx.config) <= T3_5(ctx.config) => verdict # "ended"

\* Both receivers judge a silence as the protocol does, but for less than a tick at T3.5.
SilencesJudged == LegalGapAccepted /\ FrameGapEnds

\* The last check of mbrtu_calculate_timing (modbus_rtu.c:520-528) refuses nothing:
\* rounding each value on its own never makes two of them equal.
OrderedByRounding ==
    \A c \in SerialConfig : config_is_valid(c) => mbrtu_calculate_timing(c) = "OK"
==============================================================================
