----------------------------- MODULE SerialLine ------------------------------
(***************************************************************************)
(* The serial line in its three aspects, one of them in every behaviour:   *)
(* how its bytes reach the application (UartReception), how the silence    *)
(* between them is measured (RtuTiming), and what the CRC makes of flipped *)
(* bits (Crc16).                                                           *)
(***************************************************************************)
EXTENDS UartReception, RtuTiming, Crc16

VARIABLE aspect

line_vars == <<aspect, uart_vars, timing_vars, crc_vars>>

\* The aspects that are not looked at stay as they are.
Only(a) ==
    /\ aspect = a
    /\ UNCHANGED aspect
    /\ a # "uart" => UNCHANGED uart_vars
    /\ a # "timing" => UNCHANGED timing_vars
    /\ a # "crc" => UNCHANGED crc_vars

LineInit ==
    /\ aspect \in {"uart", "timing", "crc"}
    /\ UartInit /\ TimingInit /\ CrcInit

LineNext ==
    \/ Only("uart") /\ UartNext
    \/ Only("timing") /\ TimingNext
    \/ Only("crc") /\ CrcNext

LineSpec ==
    /\ LineInit /\ [][LineNext]_line_vars
    /\ WF_line_vars(Only("uart") /\ USART3_IRQHandler)
    /\ SF_line_vars(Only("uart") /\ MainLoop)
==============================================================================
