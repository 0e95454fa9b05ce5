------------------------------ MODULE MCStm32Uart ------------------------------
(* Stm32Uart for TLC: frames of two bytes, so that an interrupt can come in the *)
(* middle of the copy and of the transmission, four calls and two errors.       *)
EXTENDS Stm32Uart
================================================================================
