----------------------------- MODULE MCDrivers -----------------------------
(***************************************************************************)
(* Drivers with rings of two bytes and FIFOs of one, and the interrupt     *)
(* lines of the timer and of the third UART.                               *)
(***************************************************************************)
EXTENDS Drivers

MCByte == 0 .. NUMBERS - 1
=============================================================================
