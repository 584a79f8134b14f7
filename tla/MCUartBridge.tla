---------------------------- MODULE MCUartBridge ----------------------------
(* UartBridge for two callers, one that reads and one that writes.         *)
EXTENDS UartBridge

MCAsks == [c \in Callers |-> IF c = "c1" THEN {"read"} ELSE {"write"}]
=============================================================================
