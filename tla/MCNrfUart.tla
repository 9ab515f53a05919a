------------------------------ MODULE MCNrfUart ------------------------------
(***************************************************************************)
(* NrfUart with a ring of two bytes.                                       *)
(***************************************************************************)
EXTENDS NrfUart

MCByte == Writers \X (1 .. MaxBytes)
=============================================================================
