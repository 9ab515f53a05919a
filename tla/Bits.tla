-------------------------------- MODULE Bits --------------------------------
(***************************************************************************)
(* BIT of arch/common/word_t.h, for the bits of a word that orders and     *)
(* numbers of pages use.                                                   *)
(***************************************************************************)
EXTENDS Naturals

\* The second function is the first, by its values.
BIT ==
  LET bit[order \in 0 .. 30] == IF order = 0 THEN 1 ELSE 2 * bit[order - 1]
  IN  [order \in 0 .. 30 |-> bit[order]]
=============================================================================
