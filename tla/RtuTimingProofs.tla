--------------------------- MODULE RtuTimingProofs ---------------------------
(***************************************************************************)
(* The timing properties of RtuTiming for every configuration, silence and *)
(* phase.  Every deadline is bracketed in wire time (within one tick above *)
(* the exact interval), and so is every count of ticks; the verdicts       *)
(* follow by comparing brackets.                                           *)
(***************************************************************************)
EXTENDS RtuTiming, TLAPS

\* Division by a positive number, as two inequalities.
LEMMA DivBounds ==
    ASSUME NEW n \in Nat, NEW d \in Nat \ {0}
    PROVE  /\ n \div d \in Nat
           /\ d * (n \div d) <= n
           /\ n < d * (n \div d) + d
OBVIOUS

\* Multiplication by a positive number reflects the order.
LEMMA TimesReflects ==
    ASSUME NEW d \in Nat \ {0}, NEW a \in Int, NEW b \in Int, d * a < d * b
    PROVE  a < b
OBVIOUS

\* ceil_div_u64 rounds up, by less than one.
LEMMA CeilDiv ==
    ASSUME NEW n \in Nat, NEW d \in Nat \ {0}
    PROVE  /\ ceil_div_u64(n, d) \in Nat
           /\ n <= d * ceil_div_u64(n, d)
           /\ d * ceil_div_u64(n, d) < n + d
<1> DEFINE m == n + d - 1
<1>1. m \in Nat
  OBVIOUS
<1>2. ceil_div_u64(n, d) = m \div d
  BY DEF ceil_div_u64
<1>3. m \div d \in Nat /\ d * (m \div d) <= m /\ m < d * (m \div d) + d
  BY <1>1, DivBounds
<1> QED
  BY <1>2, <1>3

ValidConfig == {c \in SerialConfig : config_is_valid(c)}

\* What the range checks of mbrtu_calculate_timing leave.
LEMMA ValidTypes ==
    ASSUME NEW c \in ValidConfig
    PROVE  /\ c.baud_rate \in Nat \ {0}
           /\ bits_per_character(c) \in 7 .. 13
<1>1. /\ BaudRates \subseteq Nat /\ DataBits \subseteq Nat
      /\ ParityBits \subseteq Nat /\ StopBits \subseteq Nat
  BY SerialAssumption
<1>2. c \in SerialConfig /\ config_is_valid(c)
  BY DEF ValidConfig
<1>3. c.baud_rate \in Nat /\ c.data_bits \in Nat /\ c.parity_bits \in Nat /\ c.stop_bits \in Nat
  BY <1>1, <1>2 DEF SerialConfig
<1> QED
  BY <1>2, <1>3 DEF config_is_valid, bits_per_character

\* A number of tenths of a character, in wire time.
LEMMA TenthsBracket ==
    ASSUME NEW c \in ValidConfig, NEW tenths \in Nat
    PROVE  LET ticks == character_tenths(c, tenths)
               exact == tenths * (bits_per_character(c) * 200000)
           IN  /\ ticks \in Nat
               /\ exact <= 100 * (c.baud_rate * ticks)
               /\ 100 * (c.baud_rate * ticks) < exact + 100 * c.baud_rate
<1> DEFINE baud == c.baud_rate
           bits == bits_per_character(c)
           n == tenths * bits * 1000000
           d == 10 * baud * 50
           ticks == character_tenths(c, tenths)
<1>1. baud \in Nat \ {0} /\ bits \in Nat
  BY ValidTypes, SMT
<1>2. n \in Nat /\ d \in Nat \ {0}
  BY <1>1, SMT
<1>3. ticks = ceil_div_u64(n, d)
  BY SMT DEF character_tenths, MODBUS_RTU_TICK_US
<1>4. ticks \in Nat /\ n <= d * ticks /\ d * ticks < n + d
  <2> HIDE DEF n, d, ticks
  <2> QED
    BY <1>2, <1>3, CeilDiv, Zenon
<1>5. d * ticks = 500 * (baud * ticks) /\ n = 5 * (tenths * (bits * 200000))
  BY <1>1, <1>4, SMT
<1> HIDE DEF baud, bits, ticks
<1>6. baud * ticks \in Nat /\ tenths * (bits * 200000) \in Nat
  BY <1>1, <1>4, SMT
<1> QED
  BY <1>1, <1>4, <1>5, <1>6, SMT DEF baud, bits, ticks

\* A number of microseconds and one character, in wire time.
LEMMA AfterCharacterBracket ==
    ASSUME NEW c \in ValidConfig, NEW us \in Nat
    PROVE  LET ticks == after_character(c, us)
               exact == 2 * (us * c.baud_rate) + Character(c)
           IN  /\ ticks \in Nat
               /\ exact <= 100 * (c.baud_rate * ticks)
               /\ 100 * (c.baud_rate * ticks) < exact + 100 * c.baud_rate
<1> DEFINE baud == c.baud_rate
           bits == bits_per_character(c)
           n == us * baud + bits * 1000000
           d == baud * 50
           ticks == after_character(c, us)
<1>1. baud \in Nat \ {0} /\ bits \in Nat
  BY ValidTypes, SMT
<1>2. n \in Nat /\ d \in Nat \ {0}
  BY <1>1, SMT
<1>3. ticks = ceil_div_u64(n, d)
  BY SMT DEF after_character, MODBUS_RTU_TICK_US
<1>4. ticks \in Nat /\ n <= d * ticks /\ d * ticks < n + d
  <2> HIDE DEF n, d, ticks
  <2> QED
    BY <1>2, <1>3, CeilDiv, Zenon
<1>5. d * ticks = 50 * (baud * ticks) /\ Character(c) = 2000000 * bits
  BY <1>1, <1>4, SMT DEF Character
<1> HIDE DEF baud, bits, ticks
<1>6. baud * ticks \in Nat /\ us * baud \in Nat
  BY <1>1, <1>4, SMT
<1> QED
  BY <1>1, <1>4, <1>5, <1>6, SMT DEF baud, bits, ticks

\* The four deadlines in wire time: each at least the exact interval and less than a
\* tick above it.
LEMMA Deadlines ==
    ASSUME NEW c \in ValidConfig
    PROVE  LET tick == 100 * c.baud_rate
               Within(ticks, exact) == /\ ticks \in Nat
                                       /\ exact <= 100 * (c.baud_rate * ticks)
                                       /\ 100 * (c.baud_rate * ticks) < exact + tick
           IN  /\ Within(t1_5_ticks(c), T1_5(c))
               /\ Within(t3_5_ticks(c), T3_5(c))
               /\ Within(byte_complete_t1_5_ticks(c), T1_5(c) + Character(c))
               /\ Within(byte_complete_t3_5_ticks(c), T3_5(c) + Character(c))
<1>1. c.baud_rate \in Nat \ {0} /\ bits_per_character(c) \in Nat
  BY ValidTypes
<1>2. Character(c) = 2000000 * bits_per_character(c)
  BY <1>1, SMT DEF Character
<1>3. CASE c.baud_rate > 19200
  <2>1. /\ T1_5(c) = 2 * (750 * c.baud_rate) /\ T3_5(c) = 2 * (1750 * c.baud_rate)
        /\ t1_5_ticks(c) = 15 /\ t3_5_ticks(c) = 35
    BY <1>1, <1>3, SMT DEF T1_5, T3_5, t1_5_ticks, t3_5_ticks
  <2>2. /\ byte_complete_t1_5_ticks(c) = after_character(c, 750)
        /\ byte_complete_t3_5_ticks(c) = after_character(c, 1750)
    BY <1>3, SMT DEF byte_complete_t1_5_ticks, byte_complete_t3_5_ticks
  <2> QED
    BY <1>1, <1>2, <2>1, <2>2, AfterCharacterBracket, SMT
<1>4. CASE ~(c.baud_rate > 19200)
  <2>1. /\ T1_5(c) = 15 * (bits_per_character(c) * 200000)
        /\ T3_5(c) = 35 * (bits_per_character(c) * 200000)
    BY <1>1, <1>2, <1>4, SMT DEF T1_5, T3_5
  <2>2. /\ t1_5_ticks(c) = character_tenths(c, 15)
        /\ t3_5_ticks(c) = character_tenths(c, 35)
        /\ byte_complete_t1_5_ticks(c) = character_tenths(c, 25)
        /\ byte_complete_t3_5_ticks(c) = character_tenths(c, 45)
    BY <1>4, SMT DEF t1_5_ticks, t3_5_ticks, byte_complete_t1_5_ticks, byte_complete_t3_5_ticks
  <2> QED
    BY <1>1, <1>2, <2>1, <2>2, TenthsBracket, SMT
<1> QED
  BY <1>3, <1>4

\* The margins between the intervals, in ticks, at every rate.
LEMMA Margins ==
    ASSUME NEW c \in ValidConfig
    PROVE  /\ T1_5(c) \in Nat \ {0} /\ T3_5(c) \in Nat /\ Character(c) \in Nat \ {0}
           /\ Tick(c) = 100 * c.baud_rate /\ Tick(c) \in Nat \ {0}
           /\ T1_5(c) + Character(c) + Tick(c) < T3_5(c)
<1>1. c.baud_rate \in Nat \ {0} /\ bits_per_character(c) \in 7 .. 13
  BY ValidTypes
<1>2. Character(c) = 2000000 * bits_per_character(c) /\ Tick(c) = 100 * c.baud_rate
  BY <1>1, SMT DEF Character, Tick, MODBUS_RTU_TICK_US
<1>3. CASE c.baud_rate > 19200
  BY <1>1, <1>2, <1>3, SMT DEF T1_5, T3_5
<1>4. CASE ~(c.baud_rate > 19200)
  BY <1>1, <1>2, <1>4, SMT DEF T1_5, T3_5
<1> QED
  BY <1>3, <1>4

\* Counts of ticks compare as the wire times they bracket.
LEMMA TicksCompare ==
    ASSUME NEW baud \in Nat \ {0}, NEW a \in Nat, NEW b \in Nat
    PROVE  /\ 100 * (baud * a) < 100 * (baud * b) => a < b
           /\ 100 * (baud * a) < 100 * (baud * b) + 100 * baud => a <= b
<1>1. baud * (b + 1) = baud * b + baud /\ baud * a \in Nat /\ baud * b \in Nat
  OBVIOUS
<1>2. ASSUME 100 * (baud * a) < 100 * (baud * b) PROVE a < b
  <2>1. baud * a < baud * b
    BY <1>1, <1>2, SMT
  <2> QED
    BY <2>1, TimesReflects
<1>3. ASSUME 100 * (baud * a) < 100 * (baud * b) + 100 * baud PROVE a <= b
  <2>1. baud * a < baud * (b + 1)
    BY <1>1, <1>3, SMT
  <2>2. a < b + 1
    BY <2>1, TimesReflects
  <2> QED
    BY <2>2
<1> QED
  BY <1>2, <1>3

\* The ticks counted between two bytes, in wire time.
LEMMA CountedBracket ==
    ASSUME NEW c \in ValidConfig, NEW silence \in Nat, NEW phase \in 0 .. Tick(c) - 1
    PROVE  LET ticks == TicksCounted(c, silence, phase)
           IN  /\ ticks \in Nat
               /\ 100 * (c.baud_rate * ticks) < silence + Character(c) + Tick(c)
               /\ silence + Character(c) < 100 * (c.baud_rate * ticks) + Tick(c)
<1> DEFINE n == phase + silence + Character(c)
           ticks == TicksCounted(c, silence, phase)
<1>1. /\ c.baud_rate \in Nat \ {0} /\ Character(c) \in Nat
      /\ Tick(c) = 100 * c.baud_rate /\ Tick(c) \in Nat \ {0}
  BY ValidTypes, Margins
<1>2. n \in Nat /\ phase \in Nat /\ phase < Tick(c)
  BY <1>1
<1>3. ticks = n \div Tick(c)
  BY DEF TicksCounted
<1>4. ticks \in Nat /\ Tick(c) * ticks <= n /\ n < Tick(c) * ticks + Tick(c)
  <2> HIDE DEF n, ticks
  <2> QED
    BY <1>1, <1>2, <1>3, DivBounds, Zenon
<1> HIDE DEF ticks
<1>5. Tick(c) * ticks = 100 * (c.baud_rate * ticks) /\ c.baud_rate * ticks \in Nat
  BY <1>1, <1>4, SMT
<1> QED
  BY <1>1, <1>2, <1>4, <1>5, SMT DEF ticks

\* The last check of mbrtu_calculate_timing refuses nothing that its range checks let
\* pass (modbus_rtu.c:520-528): at every baud rate, rounding keeps the deadlines
\* apart and above zero.
THEOREM TimingNeverRefused == OrderedByRounding
<1> SUFFICES ASSUME NEW c \in ValidConfig
             PROVE  ticks_are_ordered(c)
  BY DEF OrderedByRounding, ValidConfig, mbrtu_calculate_timing
<1> DEFINE baud == c.baud_rate
           one == t1_5_ticks(c)
           three == t3_5_ticks(c)
           done_one == byte_complete_t1_5_ticks(c)
           done_three == byte_complete_t3_5_ticks(c)
<1>1. /\ baud \in Nat \ {0}
      /\ T1_5(c) \in Nat \ {0} /\ T3_5(c) \in Nat /\ Character(c) \in Nat \ {0}
      /\ T1_5(c) + Character(c) + 100 * baud < T3_5(c)
  BY ValidTypes, Margins
<1>2. /\ one \in Nat /\ three \in Nat /\ done_one \in Nat /\ done_three \in Nat
      /\ 100 * (baud * one) < T1_5(c) + 100 * baud
      /\ T3_5(c) <= 100 * (baud * three)
      /\ 100 * (baud * done_one) < T1_5(c) + Character(c) + 100 * baud
      /\ T3_5(c) + Character(c) <= 100 * (baud * done_three)
      /\ T1_5(c) <= 100 * (baud * one)
      /\ T1_5(c) + Character(c) <= 100 * (baud * done_one)
  BY Deadlines
<1>3. character_ticks(c) \in Nat \ {0}
  <2> DEFINE n == bits_per_character(c) * 1000000
             d == baud * MODBUS_RTU_TICK_US
  <2>1. n \in Nat \ {0} /\ d \in Nat \ {0}
    BY ValidTypes, <1>1, SMT DEF MODBUS_RTU_TICK_US
  <2>2. character_ticks(c) = ceil_div_u64(n, d)
    BY SMT DEF character_ticks
  <2> HIDE DEF n, d
  <2>3. character_ticks(c) \in Nat /\ n <= d * character_ticks(c)
    BY <2>1, <2>2, CeilDiv, Zenon
  <2> QED
    BY <2>1, <2>3
<1> HIDE DEF baud, one, three, done_one, done_three
<1>4. /\ baud * one \in Nat /\ baud * three \in Nat
      /\ baud * done_one \in Nat /\ baud * done_three \in Nat
  BY <1>1, <1>2
<1>5. /\ 100 * (baud * one) < 100 * (baud * three)
      /\ 100 * (baud * done_one) < 100 * (baud * done_three)
  BY <1>1, <1>2, <1>4, SMT
<1>6. one < three /\ done_one < done_three
  BY <1>1, <1>2, <1>5, TicksCompare
<1>7. baud * 0 = 0
  BY <1>1
<1>8. one # 0 /\ done_one # 0
  BY <1>1, <1>2, <1>7
<1> QED
  BY <1>2, <1>3, <1>6, <1>8 DEF ticks_are_ordered, one, three, done_one, done_three

------------------------------------------------------------------------------
(* The invariant: what is counted is what the timer counts *)

TimingInv ==
    /\ DOMAIN ctx = {"initialized", "config"} /\ ctx.initialized \in BOOLEAN
    /\ ctx.initialized => ctx.config \in ValidConfig
    /\ \/ gap = NoGap
       \/ /\ ctx.initialized
          /\ gap.silence \in Nat /\ gap.phase \in 0 .. Tick(ctx.config) - 1
          /\ gap.ticks = TicksCounted(ctx.config, gap.silence, gap.phase)

\* Every byte is judged by a valid configuration and an exact count.
THEOREM TimingInvariant == TimingSpec => []TimingInv
<1>1. TimingInit => TimingInv
  BY DEF TimingInit, TimingInv
<1>2. TimingInv /\ [TimingNext]_timing_vars => TimingInv'
  <2> SUFFICES ASSUME TimingInv, [TimingNext]_timing_vars
               PROVE  TimingInv'
    OBVIOUS
  <2>1. ASSUME NEW c \in SerialConfig, mbrtu_init(c)
        PROVE  TimingInv'
    <3>1. CASE mbrtu_calculate_timing(c) = "OK"
      <4>1. ctx' = [initialized |-> TRUE, config |-> c] /\ gap' = NoGap
        BY <2>1, <3>1 DEF mbrtu_init
      <4>2. c \in ValidConfig
        BY <3>1, Zenon DEF mbrtu_calculate_timing, ValidConfig
      <4> QED
        BY <4>1, <4>2 DEF TimingInv
    <3>2. CASE mbrtu_calculate_timing(c) # "OK"
      BY <2>1, <3>2 DEF mbrtu_init, TimingInv, timing_vars
    <3> QED
      BY <3>1, <3>2
  <2>2. ASSUME NEW silence \in Silences(ctx.config), NEW phase \in Phases(ctx.config),
               NextByte(silence, phase)
        PROVE  TimingInv'
    <3>1. ctx.initialized /\ ctx.config \in ValidConfig /\ ctx' = ctx
      BY <2>2 DEF NextByte, TimingInv
    <3>2. silence \in Nat /\ phase \in 0 .. Tick(ctx.config) - 1
      BY <3>1, SerialAssumption DEF ValidConfig
    <3> QED
      BY <2>2, <3>1, <3>2 DEF NextByte, TimingInv
  <2>3. CASE UNCHANGED timing_vars
    BY <2>3 DEF timing_vars, TimingInv
  <2> QED
    BY <2>1, <2>2, <2>3 DEF TimingNext
<1> QED
  BY <1>1, <1>2, PTL DEF TimingSpec

\* What the silence was, in the brackets of the last count.
LEMMA LastCount ==
    ASSUME TimingInv, ctx.initialized
    PROVE  /\ ctx.config \in ValidConfig
           /\ gap.silence \in Nat /\ gap.ticks \in Nat
           /\ 100 * (ctx.config.baud_rate * gap.ticks)
                < gap.silence + Character(ctx.config) + Tick(ctx.config)
           /\ \/ gap = NoGap
              \/ gap.silence + Character(ctx.config)
                   < 100 * (ctx.config.baud_rate * gap.ticks) + Tick(ctx.config)
<1>1. ctx.config \in ValidConfig
  BY DEF TimingInv
<1>2. CASE gap = NoGap
  <2>1. /\ ctx.config.baud_rate \in Nat /\ Character(ctx.config) \in Nat
        /\ Tick(ctx.config) \in Nat \ {0}
    BY <1>1, ValidTypes, Margins
  <2>2. gap.silence = 0 /\ gap.ticks = 0
    BY <1>2 DEF NoGap
  <2> QED
    BY <1>1, <1>2, <2>1, <2>2, SMT
<1>3. CASE gap # NoGap
  <2>1. /\ gap.silence \in Nat /\ gap.phase \in 0 .. Tick(ctx.config) - 1
        /\ gap.ticks = TicksCounted(ctx.config, gap.silence, gap.phase)
    BY <1>3 DEF TimingInv
  <2> QED
    BY <1>1, <2>1, CountedBracket
<1> QED
  BY <1>2, <1>3

\* For every serial configuration, every silence of the sender up to T1.5 and every
\* phase of the tick timer, the byte that ends the silence continues the frame, in the
\* slave (modbus_rtu.c:672-682) and in the master example (app.c:242-252, 274-289).
THEOREM LegalGaps == TimingSpec => []LegalGapAccepted
<1>1. TimingInv => LegalGapAccepted
  <2> SUFFICES ASSUME TimingInv, ctx.initialized, gap.silence <= T1_5(ctx.config)
               PROVE  /\ slave_verdict(ctx.config, gap.ticks) = "accepted"
                      /\ master_verdict(ctx.config, gap.ticks) = "accepted"
    BY DEF LegalGapAccepted
  <2> DEFINE c == ctx.config
             baud == c.baud_rate
             ticks == gap.ticks
  <2>1. /\ c \in ValidConfig /\ ticks \in Nat /\ gap.silence \in Nat
        /\ 100 * (baud * ticks) < gap.silence + Character(c) + Tick(c)
    BY LastCount
  <2>2. /\ baud \in Nat \ {0} /\ Tick(c) = 100 * baud
        /\ T1_5(c) \in Nat /\ T3_5(c) \in Nat /\ Character(c) \in Nat
        /\ T1_5(c) + Character(c) + Tick(c) < T3_5(c)
    BY <2>1, ValidTypes, Margins
  <2> DEFINE three == t3_5_ticks(c)
             done_one == byte_complete_t1_5_ticks(c)
             done_three == byte_complete_t3_5_ticks(c)
  <2>3. /\ three \in Nat /\ done_one \in Nat /\ done_three \in Nat
        /\ T3_5(c) <= 100 * (baud * three)
        /\ T1_5(c) + Character(c) <= 100 * (baud * done_one)
        /\ T3_5(c) + Character(c) <= 100 * (baud * done_three)
    BY <2>1, Deadlines
  <2>4. gap.silence <= T1_5(c)
    OBVIOUS
  <2> HIDE DEF c, baud, ticks, three, done_one, done_three
  <2>5. /\ baud * ticks \in Nat /\ baud * three \in Nat
        /\ baud * done_one \in Nat /\ baud * done_three \in Nat
    BY <2>1, <2>2, <2>3
  <2>6. /\ 100 * (baud * ticks) < 100 * (baud * done_one) + 100 * baud
        /\ 100 * (baud * ticks) < 100 * (baud * three)
        /\ 100 * (baud * ticks) < 100 * (baud * done_three)
    BY <2>1, <2>2, <2>3, <2>4, <2>5, SMT
  <2>7. ticks <= done_one /\ ticks < three /\ ticks < done_three
    BY <2>1, <2>2, <2>3, <2>6, TicksCompare
  <2> QED
    BY <2>1, <2>3, <2>7
       DEF slave_verdict, master_verdict, c, ticks, three, done_one, done_three
<1> QED
  BY <1>1, TimingInvariant, PTL

\* For every serial configuration and phase a silence of T3.5 and one tick ends the
\* frame in both receivers, and one of T3.5 less a tick does not end the slave's.
THEOREM FrameGaps == TimingSpec => []FrameGapEnds
<1>1. TimingInv => FrameGapEnds
  <2> DEFINE c == ctx.config
             baud == c.baud_rate
             ticks == gap.ticks
             three == t3_5_ticks(c)
             done_three == byte_complete_t3_5_ticks(c)
  <2> SUFFICES ASSUME TimingInv, ctx.initialized
               PROVE  /\ gap.silence >= T3_5(c) + Tick(c) =>
                            done_three <= ticks /\ three <= ticks
                      /\ gap.silence + Tick(c) <= T3_5(c) => ticks < done_three
    BY Deadlines, LastCount DEF FrameGapEnds, slave_verdict, master_verdict
  <2>1. /\ c \in ValidConfig /\ ticks \in Nat /\ gap.silence \in Nat
        /\ 100 * (baud * ticks) < gap.silence + Character(c) + Tick(c)
        /\ gap = NoGap \/ gap.silence + Character(c) < 100 * (baud * ticks) + Tick(c)
    BY LastCount
  <2>2. /\ baud \in Nat \ {0} /\ Tick(c) = 100 * baud /\ Tick(c) \in Nat \ {0}
        /\ T3_5(c) \in Nat /\ Character(c) \in Nat
    BY <2>1, ValidTypes, Margins
  <2>3. /\ three \in Nat /\ done_three \in Nat
        /\ 100 * (baud * three) < T3_5(c) + 100 * baud
        /\ T3_5(c) + Character(c) <= 100 * (baud * done_three)
        /\ 100 * (baud * done_three) < T3_5(c) + Character(c) + 100 * baud
    BY <2>1, Deadlines
  <2>4. gap = NoGap => gap.silence = 0
    BY DEF NoGap
  <2> HIDE DEF c, baud, ticks, three, done_three
  <2>5. baud * ticks \in Nat /\ baud * three \in Nat /\ baud * done_three \in Nat
    BY <2>1, <2>2, <2>3
  <2>6. ASSUME gap.silence >= T3_5(c) + Tick(c)
        PROVE  done_three <= ticks /\ three <= ticks
    <3>1. /\ 100 * (baud * done_three) < 100 * (baud * ticks) + 100 * baud
          /\ 100 * (baud * three) < 100 * (baud * ticks) + 100 * baud
      BY <2>1, <2>2, <2>3, <2>4, <2>5, <2>6, SMT
    <3> QED
      BY <2>1, <2>2, <2>3, <3>1, TicksCompare
  <2>7. ASSUME gap.silence + Tick(c) <= T3_5(c)
        PROVE  ticks < done_three
    <3>1. 100 * (baud * ticks) < 100 * (baud * done_three)
      BY <2>1, <2>2, <2>3, <2>5, <2>7, SMT
    <3> QED
      BY <2>1, <2>2, <2>3, <3>1, TicksCompare
  <2> QED
    BY <2>6, <2>7
<1> QED
  BY <1>1, TimingInvariant, PTL

\* Both receivers' handlers judge every silence as the protocol asks (modbus_rtu.c:676,
\* 715; app.c:274-289), in every serial configuration and phase of the timer.
THEOREM SilencesAreJudged == TimingSpec => []SilencesJudged
<1>1. LegalGapAccepted /\ FrameGapEnds => SilencesJudged
  BY DEF SilencesJudged
<1> QED
  BY <1>1, LegalGaps, FrameGaps, PTL
==============================================================================
