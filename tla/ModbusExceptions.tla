-------------------------- MODULE ModbusExceptions ---------------------------
(***************************************************************************)
(* The exception codes of the PDU engine (App/src/modbus_protocol.c).      *)
(***************************************************************************)

ILLEGAL_FUNCTION == 1
ILLEGAL_DATA_ADDRESS == 2
ILLEGAL_DATA_VALUE == 3
SERVER_FAILURE == 4
==============================================================================
