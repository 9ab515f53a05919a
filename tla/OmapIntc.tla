------------------------------ MODULE OmapIntc ------------------------------
(***************************************************************************)
(* The interrupt controller of the OMAP3                                   *)
(* (drivers/ti/omap/omap3/interrupt_controller/interrupt_controller.c), as *)
(* operators on its context and registers: the table of handlers, the      *)
(* lines that are masked, and the agreement to send the next interrupt.    *)
(***************************************************************************)
EXTENDS Integers

CONSTANTS
  INTERRUPTS_MAX, \* the size of the table
  Lines,          \* the interrupt lines that are in use
  NoHandler       \* an entry of the table without a handler

\* _open: reset, every line masked, IRQ enabled.
IntcOpen == [functions |-> [l \in Lines |-> NoHandler], masked |-> Lines, agreed |-> TRUE]

\* An entry is taken only once, and beyond the table there is none.
_register_handler(c, l, handler) ==
  IF l < INTERRUPTS_MAX /\ c.functions[l] = NoHandler
  THEN [c EXCEPT !.functions[l] = handler] ELSE c

_unmask(c, l) == IF l < INTERRUPTS_MAX THEN [c EXCEPT !.masked = @ \ {l}] ELSE c

\* The lines for which the controller may interrupt, of those that are asserted.
Sends(c, asserted) == IF c.agreed THEN asserted \ c.masked ELSE {}

\* It interrupts for one line, and for no other until it is told to.
Sent(c) == [c EXCEPT !.agreed = FALSE]

\* Mutant: the controller is not told.
EndOfInterrupt_Skipped(c) == c

\* CONTROL = 1
EndOfInterrupt(c) == [c EXCEPT !.agreed = TRUE]
=============================================================================
