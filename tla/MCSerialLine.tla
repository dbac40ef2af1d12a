---------------------------- MODULE MCSerialLine -----------------------------
(* Instance for TLC: see the README for the choice of the values. *)
EXTENDS SerialLine

\* Below, at and above the 19200 baud where the intervals become fixed.
MCBaudRates == {0, 1, 9600, 19200, 19201, 256000}

\* Silences at and around the two limits.
MCSilences(c) ==
    Nat \cap {0, T1_5(c) \div 2, T1_5(c), (T1_5(c) + T3_5(c)) \div 2,
              T3_5(c) - Tick(c), T3_5(c), T3_5(c) + Tick(c)}

MCPhases(c) == Nat \cap {0, 1, Tick(c) \div 2, Tick(c) - 1}

\* The shortest frame, FC07 to slave 1, and FC05 to slave 17.
MCPayloads == {<<{0}, {0, 1, 2}>>, <<{0, 4}, {0, 2}, {}, {7}, 0 .. 7, {}>>}
==============================================================================
