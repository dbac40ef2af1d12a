------------------------------ MODULE ModbusPdu ------------------------------
(***************************************************************************)
(* What the services of App/src/modbus.c share: the exception codes and    *)
(* the room there is for a response.                                       *)
(***************************************************************************)
EXTENDS ModbusExceptions, Naturals

CONSTANT PduMax   \* MODBUS_PDU_MAX_SIZE

\* What fits in a response buffer.
response_limit(capacity) == IF capacity < PduMax THEN capacity ELSE PduMax

Minimum(S) == CHOOSE x \in S : \A y \in S : x <= y
==============================================================================
