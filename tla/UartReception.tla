---------------------------- MODULE UartReception ----------------------------
(***************************************************************************)
(* USART3 under the STM32F767 RTU master example: the HAL's interrupt      *)
(* driven reception of one byte at a time, re-armed by the receive         *)
(* callback and, after an aborted reception, by the main loop              *)
(* (ensure_receive_armed).  The interrupt handler is one step and runs     *)
(* before the main loop does; UART_Start_Receive_IT, called from the main  *)
(* loop, is one step per assignment.  huart holds the handle, the flags    *)
(* and enable bits of the peripheral it is given, and the application's    *)
(* pending error.                                                          *)
(***************************************************************************)
EXTENDS Naturals, SequencesExt

VARIABLES
    huart,
    pc          \* where the main loop is

uart_vars == <<huart, pc>>

\* The assignments of UART_Start_Receive_IT, in order.
ArmSteps == <<"point", "no_isr", "no_error", "busy", "eie", "isr", "rxneie">>

ArmStep(h, s) ==
    CASE s = "point" -> [h EXCEPT !.pRxBuffPtr = 0, !.RxXferCount = 1]
      [] s = "no_isr" -> [h EXCEPT !.RxISR = "NULL"]
      [] s = "no_error" -> [h EXCEPT !.ErrorCode = {}]
      [] s = "busy" -> [h EXCEPT !.RxState = "BUSY_RX"]
      [] s = "eie" -> [h EXCEPT !.EIE = TRUE]
      [] s = "isr" -> [h EXCEPT !.RxISR = "8BIT"]
      [] s = "rxneie" -> [h EXCEPT !.RXNEIE = TRUE]

UART_Start_Receive_IT(h) == FoldLeft(ArmStep, h, ArmSteps)

HAL_UART_ErrorCallback(h) == [h EXCEPT !.uart_error_pending = TRUE]

\* The byte is passed on and the reception re-armed, all in the interrupt.
HAL_UART_RxCpltCallback(h) ==
    IF h.RxState = "READY" THEN UART_Start_Receive_IT(h)
    ELSE [h EXCEPT !.uart_error_pending = TRUE]

\* UART_EndRxTransfer, and the end of a complete reception.
UART_EndRxTransfer(h) ==
    [h EXCEPT !.RXNEIE = FALSE, !.EIE = FALSE, !.RxState = "READY", !.RxISR = "NULL"]

\* The byte is stored and the reception complete; a byte nobody waits for is
\* flushed.
MutantOneByteMore(h) ==
    LET read == [h EXCEPT !.RXNE = FALSE, !.stored = h.pRxBuffPtr,
                          !.pRxBuffPtr = @ + 1, !.RxXferCount = @ - 1]
    IN  IF h.RxState # "BUSY_RX" THEN [h EXCEPT !.RXNE = FALSE]
        ELSE IF h.RxXferCount = 0
        THEN HAL_UART_RxCpltCallback(UART_EndRxTransfer(read))
        ELSE read

UART_RxISR_8BIT(h) ==
    LET read == [h EXCEPT !.RXNE = FALSE, !.stored = h.pRxBuffPtr,
                          !.pRxBuffPtr = @ + 1, !.RxXferCount = @ - 1]
    IN  IF h.RxState # "BUSY_RX" THEN [h EXCEPT !.RXNE = FALSE]
        ELSE IF read.RxXferCount = 0
        THEN HAL_UART_RxCpltCallback(UART_EndRxTransfer(read))
        ELSE read

RxISR(h) == IF h.RxISR = "NULL" THEN h ELSE UART_RxISR_8BIT(h)

\* HAL_UART_IRQHandler clears the flags it may report and adds them to ErrorCode.
errors_noted(h) ==
    LET fe == h.FE /\ h.EIE
        ore == h.ORE /\ (h.RXNEIE \/ h.EIE)
    IN  [h EXCEPT !.FE = @ /\ ~fe, !.ORE = @ /\ ~ore,
                  !.ErrorCode = @ \cup {e \in {"FE", "ORE"} :
                                          IF e = "FE" THEN fe ELSE ore}]

\* An overrun aborts the reception, unless the callback has just re-armed it and
\* so cleared ErrorCode.
errors_handled(h) ==
    IF "ORE" \in h.ErrorCode
    THEN HAL_UART_ErrorCallback(UART_EndRxTransfer(h))
    ELSE [HAL_UART_ErrorCallback(h) EXCEPT !.ErrorCode = {}]

\* The interrupt is taken while an enabled flag is set.
InterruptPending(h) ==
    \/ h.RXNEIE /\ (h.RXNE \/ h.ORE)
    \/ h.EIE /\ (h.FE \/ h.ORE)

HAL_UART_IRQHandler(h) ==
    LET noted == errors_noted(h)
        received(g) == IF h.RXNE /\ h.RXNEIE THEN RxISR(g) ELSE g
    IN  IF ~h.FE /\ ~h.ORE THEN received(h)
        ELSE IF noted.ErrorCode = {} THEN noted
        ELSE errors_handled(received(noted))

------------------------------------------------------------------------------
(* The main loop, the interrupt and the line *)

MainStep(from, to) ==
    /\ ~InterruptPending(huart)
    /\ pc = from
    /\ pc' = to

\* The UART is enabled long before modbus_master_init arms it.
modbus_master_init == MainStep("boot", "point") /\ UNCHANGED huart

\* The top of modbus_master_process, and HAL_UART_Receive_IT's own test.
MutantNeverRearms == MainStep("top", "pass") /\ UNCHANGED huart

ensure_receive_armed ==
    /\ MainStep("top", IF huart.RxState = "READY" THEN "point" ELSE "pass")
    /\ UNCHANGED huart

Arming ==
    \E i \in DOMAIN ArmSteps :
        /\ MainStep(ArmSteps[i], IF i = Len(ArmSteps) THEN "pass" ELSE ArmSteps[i + 1])
        /\ huart' = ArmStep(huart, ArmSteps[i])

\* The rest of the pass: process_uart_error, and a transmission or none.
process_uart_error ==
    /\ MainStep("pass", "top")
    /\ huart' \in {[huart EXCEPT !.uart_error_pending = FALSE],
                   [huart EXCEPT !.uart_error_pending = FALSE, !.ErrorCode = {}]}

USART3_IRQHandler ==
    /\ InterruptPending(huart)
    /\ huart' = HAL_UART_IRQHandler(huart)
    /\ UNCHANGED pc

\* The handler returns and leaves the interrupt pending.
Starved ==
    /\ InterruptPending(huart)
    /\ HAL_UART_IRQHandler(huart) = huart

\* A byte is complete: the peripheral keeps an unread one and flags the overrun.
ByteArrives ==
    /\ \E fe \in BOOLEAN :
          huart' = IF huart.RXNE THEN [huart EXCEPT !.ORE = TRUE]
                   ELSE [huart EXCEPT !.RXNE = TRUE, !.FE = @ \/ fe]
    /\ UNCHANGED pc

------------------------------------------------------------------------------
(* Specification *)

Idle == [RXNE |-> FALSE, ORE |-> FALSE, FE |-> FALSE, RXNEIE |-> FALSE, EIE |-> FALSE,
         RxState |-> "READY", RxISR |-> "NULL", ErrorCode |-> {}, pRxBuffPtr |-> 0,
         RxXferCount |-> 0, stored |-> 0, uart_error_pending |-> FALSE]

UartInit ==
    /\ huart = Idle
    /\ pc = "boot"

MainLoop == modbus_master_init \/ ensure_receive_armed \/ Arming \/ process_uart_error

UartNext == MainLoop \/ USART3_IRQHandler \/ ByteArrives

\* A pending interrupt is taken, and the main loop runs whenever none is, time and
\* again: a handler lasts less than a byte.  No byte need ever come.
UartSpec ==
    /\ UartInit /\ [][UartNext]_uart_vars
    /\ WF_uart_vars(USART3_IRQHandler)
    /\ SF_uart_vars(MainLoop)

------------------------------------------------------------------------------
(* Properties *)

Listening ==
    /\ huart.RxState = "BUSY_RX" /\ huart.RxISR = "8BIT"
    /\ huart.RXNEIE /\ huart.EIE

\* UART_RxISR_8BIT stores only in modbus_master_uart_rx_byte, the one byte it was
\* armed with, wherever in UART_Start_Receive_IT an interrupt strikes.
OneByteBuffer == huart.stored = 0

\* An aborted reception is armed again (app.c:291-302).  When the line falls silent the
\* UART ends up listening, unless its interrupt re-enters for a byte that its handler
\* does not read; and while bytes keep coming that never lasts: the overrun of the next
\* one makes the handler abort the reception, and the main loop runs again.
ListensAgain ==
    /\ \/ []<><<ByteArrives>>_uart_vars
       \/ [](pc # "boot" => <>(Listening \/ Starved))
    /\ []<><<ByteArrives>>_uart_vars => []<>~Starved
==============================================================================
