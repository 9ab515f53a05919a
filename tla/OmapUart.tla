------------------------------ MODULE OmapUart ------------------------------
(***************************************************************************)
(* The serial console of the OMAP (drivers/ti/omap/uart/uart.c) behind its *)
(* interrupt controller, with the timer of the scheduler on another line,  *)
(* from console_setup on (console/console.c).  Writers put bytes into one  *)
(* ring and enable the interrupt first; readers take them from another;    *)
(* the handler moves bytes between the rings and the FIFOs of the device.  *)
(*                                                                         *)
(* The bytes of each direction are numbered modulo NUMBERS: those that are *)
(* written as they are put into the ring, those that are received as the   *)
(* handler stores them.  A byte that is received stands for as many as     *)
(* trigger the interrupt (eight).  The console has no flag that makes it   *)
(* non-blocking, and nothing prints from a handler.                        *)
(***************************************************************************)
EXTENDS FifoBuffer, OmapIntc

CONSTANTS
  Threads,     \* the threads that use the console
  MaxCount,    \* the most bytes of one call
  MaxReceived, \* bound on the bytes that come in
  Depth,       \* the places of each FIFO of the device
  NUMBERS      \* how many bytes are told apart

VARIABLES ctx, reg, thr, log
vars == <<ctx, reg, thr, log>>

UART3 == 74   \* irq_numbers[2]
TIMER1 == 37  \* GPTIMER_IRQ_BASE_OMAP + 0

\* Mutant: the line is unmasked before it has its handler.
Calls_Swapped == <<"chrd_open", "unmask", "register_handler", "sched_init">>

\* What happens at boot, in this order.
Calls == <<"chrd_open", "register_handler", "unmask", "sched_init">>

TypeOK ==
  /\ ctx \in [read_buffer : Ring, write_buffer : Ring,
              intc : [functions : [Lines -> {"uart", "timer", NoHandler}],
                      masked : SUBSET Lines, agreed : BOOLEAN]]
  /\ WellFormed(ctx.read_buffer) /\ WellFormed(ctx.write_buffer)
  /\ reg \in [IER : SUBSET {"THR_IT", "RHR_IT"}, THR : Seq(Byte), RHR : 0 .. Depth,
              TISR : BOOLEAN]
  /\ Len(reg.THR) <= Depth
  /\ thr \in [todo : {SubSeq(Calls, i, Len(Calls)) : i \in 1 .. Len(Calls) + 1},
              pc : [Threads -> {"out", "lock", "move"}], call : [Threads -> {"write", "read"}],
              count : [Threads -> 0 .. MaxCount],
              irq : {"out", "called", "thr", "rhr", "end"}, SIR : Lines]
  /\ log \in [put : Byte, sent : Byte, stored : Byte, given : Byte, received : 0 .. MaxReceived]

Following(n) == (n + 1) % NUMBERS

\* interrupt_controller_open has been called; the console is about to be opened, with rings
\* whose pages are taken to be zero.
Init ==
  /\ \E f \in fifo_buffer_create :
       /\ f.bp = [i \in 0 .. sz - 1 |-> 0]
       /\ ctx = [read_buffer |-> f, write_buffer |-> f, intc |-> IntcOpen]
  /\ reg = [IER |-> {}, THR |-> <<>>, RHR |-> 0, TISR |-> FALSE]
  /\ thr = [todo |-> Calls, pc |-> [t \in Threads |-> "out"],
            call |-> [t \in Threads |-> "write"], count |-> [t \in Threads |-> 0], irq |-> "out", SIR |-> UART3]
  /\ log = [put |-> 0, sent |-> 0, stored |-> 0, given |-> 0, received |-> 0]

\* What IIR says: received bytes come before room to send.
IIR ==
  IF "RHR_IT" \in reg.IER /\ reg.RHR > 0 THEN "rhr"
  ELSE IF "THR_IT" \in reg.IER /\ Len(reg.THR) < Depth THEN "thr"
  ELSE "end"

Asserted == {l \in Lines : (l = UART3 /\ IIR # "end") \/ (l = TIMER1 /\ reg.TISR)}

Locked == \E t \in Threads : thr.pc[t] = "move"

\* An interrupt waits only for a lock, or for the one before it.
Interrupts == IF Locked \/ thr.irq # "out" THEN {} ELSE Sends(ctx.intc, Asserted)

-----------------------------------------------------------------------------
(* console_setup, and the registration of the timer by the scheduler.        *)

Boots(call) ==
  /\ thr.todo # <<>> /\ Head(thr.todo) = call
  /\ thr.irq = "out" /\ Interrupts = {}
  /\ thr' = [thr EXCEPT !.todo = Tail(@)]
  /\ UNCHANGED log

_chrd_open == Boots("chrd_open") /\ reg' = [reg EXCEPT !.IER = {"RHR_IT"}] /\ UNCHANGED ctx

Register ==
  /\ Boots("register_handler")
  /\ ctx' = [ctx EXCEPT !.intc = _register_handler(@, UART3, "uart")]
  /\ UNCHANGED reg

Unmask ==
  /\ Boots("unmask")
  /\ ctx' = [ctx EXCEPT !.intc = _unmask(@, UART3)]
  /\ UNCHANGED reg

SchedInit ==
  /\ Boots("sched_init")
  /\ ctx' = [ctx EXCEPT !.intc = _unmask(_register_handler(@, TIMER1, "timer"), TIMER1)]
  /\ UNCHANGED reg

-----------------------------------------------------------------------------
(* A thread in _write or _read.                                              *)

Runs(t, place) == thr.pc[t] = place /\ ~Locked /\ thr.irq = "out" /\ Interrupts = {}

Goto(t, place) == [thr EXCEPT !.pc[t] = place]

Call(t, f, n) ==
  /\ Runs(t, "out") /\ thr.todo = <<>>
  /\ thr' = [thr EXCEPT !.pc[t] = "lock", !.call[t] = f, !.count[t] = n]
  /\ UNCHANGED <<ctx, reg, log>>

\* Mutant: the other interrupt is disabled.
WithTransmit_Only(ier) == {"THR_IT"}

WithTransmit(ier) == ier \cup {"THR_IT"}

\* A writer enables the interrupt before it puts its bytes.
Lock(t) ==
  /\ Runs(t, "lock")
  /\ thr' = Goto(t, "move")
  /\ reg' = IF thr.call[t] = "write" THEN [reg EXCEPT !.IER = WithTransmit(@)] ELSE reg
  /\ UNCHANGED <<ctx, log>>

CanMove(t) ==
  /\ thr.count[t] > 0
  /\ IF thr.call[t] = "write" THEN ctx.write_buffer.wsz > 0 ELSE ctx.read_buffer.rsz > 0

\* With the lock: bytes are put, or taken, one by one.
Move(t) ==
  /\ thr.pc[t] = "move" /\ CanMove(t)
  /\ thr' = [thr EXCEPT !.count[t] = @ - 1]
  /\ IF thr.call[t] = "write"
     THEN /\ ctx' = [ctx EXCEPT !.write_buffer = fifo_buffer_putb(@, Following(log.put))]
          /\ log' = [log EXCEPT !.put = Following(@)]
     ELSE /\ ctx' = [ctx EXCEPT !.read_buffer = fifo_buffer_getb(@)]
          /\ log' = [log EXCEPT !.given = NextByte(ctx.read_buffer)]
  /\ UNCHANGED reg

\* The call returns, or yields and tries again.
Unlock(t) ==
  /\ thr.pc[t] = "move" /\ ~CanMove(t)
  /\ thr' = Goto(t, IF thr.count[t] = 0 THEN "out" ELSE "lock")
  /\ UNCHANGED <<ctx, reg, log>>

-----------------------------------------------------------------------------
(* An interrupt: the dispatch of the controller, and the two handlers.       *)

Interrupt(l) ==
  /\ l \in Interrupts
  /\ ctx' = [ctx EXCEPT !.intc = Sent(@)]
  /\ thr' = [thr EXCEPT !.irq = "called", !.SIR = l]
  /\ UNCHANGED <<reg, log>>

\* Beyond the table it returns at once; without a handler it only ends the interrupt.
_arm_IRQ ==
  /\ thr.irq = "called"
  /\ LET handler == IF thr.SIR < INTERRUPTS_MAX THEN ctx.intc.functions[thr.SIR] ELSE NoHandler
     IN  /\ thr' = [thr EXCEPT !.irq = IF thr.SIR >= INTERRUPTS_MAX THEN "out"
                                       ELSE IF handler = "uart" THEN IIR ELSE "end"]
         /\ reg' = IF handler = "timer" THEN [reg EXCEPT !.TISR = FALSE] ELSE reg
  /\ UNCHANGED <<ctx, log>>

EndIrq == thr' = [thr EXCEPT !.irq = "end"]

\* Room to send: bytes go from the ring to the FIFO, until it is full, or the ring is empty
\* and the interrupt no longer wanted.
IrqThr ==
  /\ thr.irq = "thr"
  /\ IF Len(reg.THR) < Depth /\ ctx.write_buffer.rsz > 0
     THEN /\ reg' = [reg EXCEPT !.THR = Append(@, NextByte(ctx.write_buffer))]
          /\ ctx' = [ctx EXCEPT !.write_buffer = fifo_buffer_getb(@)]
          /\ UNCHANGED thr
     ELSE /\ reg' = IF Len(reg.THR) < Depth THEN [reg EXCEPT !.IER = @ \ {"THR_IT"}] ELSE reg
          /\ EndIrq
          /\ UNCHANGED ctx
  /\ UNCHANGED log

\* Bytes have come in: they go into the ring; the first that finds it full is lost.
IrqRhr ==
  /\ thr.irq = "rhr"
  /\ IF reg.RHR = 0 THEN EndIrq /\ UNCHANGED <<ctx, reg, log>>
     ELSE /\ reg' = [reg EXCEPT !.RHR = @ - 1]
          /\ IF ctx.read_buffer.wsz > 0
             THEN /\ ctx' = [ctx EXCEPT !.read_buffer =
                               fifo_buffer_putb(@, Following(log.stored))]
                  /\ log' = [log EXCEPT !.stored = Following(@)]
                  /\ UNCHANGED thr
             ELSE EndIrq /\ UNCHANGED <<ctx, log>>

IrqEnd ==
  /\ thr.irq = "end"
  /\ ctx' = [ctx EXCEPT !.intc = EndOfInterrupt(@)]
  /\ thr' = [thr EXCEPT !.irq = "out"]
  /\ UNCHANGED <<reg, log>>

-----------------------------------------------------------------------------
(* The devices.                                                              *)

Transmit ==
  /\ reg.THR # <<>>
  /\ reg' = [reg EXCEPT !.THR = Tail(@)]
  /\ log' = [log EXCEPT !.sent = Head(reg.THR)]
  /\ UNCHANGED <<ctx, thr>>

Receive ==
  /\ log.received < MaxReceived /\ reg.RHR < Depth
  /\ reg' = [reg EXCEPT !.RHR = @ + 1]
  /\ log' = [log EXCEPT !.received = @ + 1]
  /\ UNCHANGED <<ctx, thr>>

\* A time slice, which is longer than a handler, is over.
Expire ==
  /\ thr.todo = <<>> /\ ~reg.TISR /\ thr.irq = "out"
  /\ reg' = [reg EXCEPT !.TISR = TRUE]
  /\ UNCHANGED <<ctx, thr, log>>

Handling == _arm_IRQ \/ IrqThr \/ IrqRhr \/ IrqEnd
Calling(t) == Lock(t) \/ Move(t) \/ Unlock(t)
Booting == _chrd_open \/ Register \/ Unmask \/ SchedInit

Next ==
  \/ _chrd_open \/ Register \/ Unmask \/ SchedInit
  \/ \E t \in Threads, f \in {"write", "read"}, n \in 1 .. MaxCount : Call(t, f, n)
  \/ \E t \in Threads : Lock(t)
  \/ \E t \in Threads : Move(t)
  \/ \E t \in Threads : Unlock(t)
  \/ \E l \in Lines : Interrupt(l)
  \/ _arm_IRQ \/ IrqThr \/ IrqRhr \/ IrqEnd
  \/ Transmit \/ Receive \/ Expire

-----------------------------------------------------------------------------
(* Properties.                                                               *)

\* s holds the bytes that follow n, one after the other, up to m.
Continues(n, s, m) ==
  /\ \A i \in 1 .. Len(s) : s[i] = (n + i) % NUMBERS
  /\ m = (n + Len(s)) % NUMBERS

\* What is written is sent in order and once, and what the handler stores is read so.
InOrder ==
  /\ Continues(log.sent, reg.THR \o Contents(ctx.write_buffer), log.put)
  /\ Continues(log.given, Contents(ctx.read_buffer), log.stored)

\* While there are bytes to send their interrupt is enabled, and what is received always
\* interrupts; the controller waits for the end of an interrupt only while one is handled.
NeverStalls ==
  thr.todo = <<>> =>
    /\ ctx.write_buffer.rsz > 0 => "THR_IT" \in reg.IER
    /\ "RHR_IT" \in reg.IER
    /\ ctx.intc.masked \cap {UART3, TIMER1} = {}
    /\ ctx.intc.agreed <=> thr.irq = "out"

\* An interrupt is sent only for a line that has its handler.
Dispatched ==
  thr.irq = "called" =>
    ctx.intc.functions[thr.SIR] = IF thr.SIR = UART3 THEN "uart" ELSE "timer"

\* A call of _write, and a call of _read for which there are bytes.
Returns(t) ==
  /\ thr.pc[t] # "out"
  /\ thr.call[t] = "read" => reg.RHR > 0 \/ ctx.read_buffer.rsz > 0
=============================================================================
