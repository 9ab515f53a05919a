------------------------------- MODULE NrfUart -------------------------------
(***************************************************************************)
(* The serial port of the micro:bit                                        *)
(* (src/src/kernel/drivers/ns/nRF51822/uart/uart.c): threads put bytes     *)
(* into a ring and enable the interrupt, whose handler feeds the device    *)
(* and disables it when the ring is empty.                                 *)
(*                                                                         *)
(* With the lock of the context a thread has interrupts off, and nothing   *)
(* but the device runs beside it.  Otherwise an interrupt that is pending  *)
(* is taken before the next instruction of a thread.  Nothing sets         *)
(* _NONBLOCK, so _write always waits for room; from an interrupt handler   *)
(* it returns 0 at once (uart.c:95), which changes nothing here.           *)
(***************************************************************************)
EXTENDS FifoBuffer

CONSTANTS
  Writers,   \* the threads that print
  MaxCount,  \* the most bytes in one call of _write
  MaxBytes,  \* bound on the bytes that a thread writes in all
  NONE       \* no byte

\* A byte is told by who writes it, and when.
ASSUME UartAssumption ==
  /\ Byte = Writers \X (1 .. MaxBytes)
  /\ NONE \notin Byte
  /\ MaxCount \in Nat /\ MaxBytes \in Nat

VARIABLES
  write_buffer,  \* _ctx.write_buffer
  pc,            \* where each thread is in _write
  written,       \* the number of bytes each thread has put into the ring
  count,         \* what remains of its call
  irq,           \* where the handler is
  b,             \* its local byte
  TXDRDY,        \* the device has sent the last byte
  RXDRDY,        \* the device has received a byte
  INTEN,         \* the interrupts enabled
  TXD,           \* the byte that the device is sending
  wire           \* the bytes it has sent

threadVars == <<pc, written, count>>
vars == <<write_buffer, threadVars, irq, b, TXDRDY, RXDRDY, INTEN, TXD, wire>>

TypeOK ==
  /\ WellFormed(write_buffer)
  /\ pc \in [Writers -> {"out", "lock", "fill", "enable"}]
  /\ written \in [Writers -> 0 .. MaxBytes]
  /\ count \in [Writers -> 0 .. MaxBytes]
  /\ \A t \in Writers : written[t] + count[t] <= MaxBytes
  /\ irq \in {"out", "send"}
  /\ b \in Byte \cup {NONE}
  /\ TXDRDY \in BOOLEAN /\ RXDRDY \in BOOLEAN
  /\ INTEN \subseteq {"tx", "rx"}
  /\ TXD \in Byte \cup {NONE}
  /\ wire \in Seq(Byte)

-----------------------------------------------------------------------------
\* ___open___, after ___nrf51822_debug_startup has sent a byte to nowhere to raise TXDRDY.
Init ==
  /\ write_buffer \in fifo_buffer_create
  /\ pc = [t \in Writers |-> "out"]
  /\ written = [t \in Writers |-> 0]
  /\ count = [t \in Writers |-> 0]
  /\ irq = "out" /\ b = NONE
  /\ TXDRDY = TRUE /\ RXDRDY = FALSE
  /\ INTEN = {"rx"}
  /\ TXD = NONE /\ wire = <<>>

Pending == ("tx" \in INTEN /\ TXDRDY) \/ ("rx" \in INTEN /\ RXDRDY)

Locked == \E t \in Writers : pc[t] = "fill"

\* Thread t, without the lock, executes its next instruction.
Runs(t, place) == pc[t] = place /\ ~Locked /\ irq = "out" /\ ~Pending

Goto(t, place) == pc' = [pc EXCEPT ![t] = place]

_write(t, n) ==
  /\ Runs(t, "out")
  /\ written[t] + n <= MaxBytes
  /\ count' = [count EXCEPT ![t] = n]
  /\ Goto(t, "lock")
  /\ UNCHANGED <<write_buffer, written, irq, b, TXDRDY, RXDRDY, INTEN, TXD, wire>>

Lock(t) ==
  /\ Runs(t, "lock")
  /\ Goto(t, "fill")
  /\ UNCHANGED <<write_buffer, written, count, irq, b, TXDRDY, RXDRDY, INTEN, TXD, wire>>

\* With the lock: bytes are put one by one, until the ring is full or none is left.
HasRoom(t) == count[t] > 0 /\ write_buffer.wsz > 0

Fill(t) ==
  /\ pc[t] = "fill" /\ HasRoom(t)
  /\ write_buffer' = fifo_buffer_putb(write_buffer, <<t, written[t] + 1>>)
  /\ written' = [written EXCEPT ![t] = @ + 1]
  /\ count' = [count EXCEPT ![t] = @ - 1]
  /\ UNCHANGED <<pc, irq, b, TXDRDY, RXDRDY, INTEN, TXD, wire>>

Unlock(t) ==
  /\ pc[t] = "fill" /\ ~HasRoom(t)
  /\ Goto(t, "enable")
  /\ UNCHANGED <<write_buffer, written, count, irq, b, TXDRDY, RXDRDY, INTEN, TXD, wire>>

\* Mutant: the interrupt is only enabled when everything fitted.
Enabled_WhenDone(t) == INTEN \cup (IF count[t] = 0 THEN {"tx"} ELSE {})

Enabled(t) == INTEN \cup {"tx"}

\* INTENSET; then the call returns, or yields and tries again.
Enable(t) ==
  /\ Runs(t, "enable")
  /\ INTEN' = Enabled(t)
  /\ Goto(t, IF count[t] = 0 THEN "out" ELSE "lock")
  /\ UNCHANGED <<write_buffer, written, count, irq, b, TXDRDY, RXDRDY, TXD, wire>>

-----------------------------------------------------------------------------
\* Mutant: it stays set.
Ready_Kept == TXDRDY

\* TXDRDY = 0.
Ready == FALSE

\* The handler drops what was received, and takes a byte if the device has sent the last one.
_IRQ ==
  /\ irq = "out" /\ ~Locked /\ Pending
  /\ RXDRDY' = FALSE
  /\ \/ /\ ~TXDRDY
        /\ UNCHANGED <<write_buffer, irq, b, TXDRDY, INTEN>>
     \/ /\ TXDRDY
        /\ IF write_buffer.rsz > 0
           THEN /\ write_buffer' = fifo_buffer_getb(write_buffer)
                /\ b' = NextByte(write_buffer)
                /\ TXDRDY' = Ready
                /\ irq' = "send"
                /\ UNCHANGED INTEN
           ELSE /\ INTEN' = INTEN \ {"tx"}
                /\ UNCHANGED <<write_buffer, irq, b, TXDRDY>>
  /\ UNCHANGED <<threadVars, TXD, wire>>

\* TXD = b, after TXDRDY = 0.
IrqSend ==
  /\ irq = "send"
  /\ TXD' = b
  /\ b' = NONE
  /\ irq' = "out"
  /\ UNCHANGED <<write_buffer, threadVars, TXDRDY, RXDRDY, INTEN, wire>>

\* The device: a byte is out, or one has come in.
Sent ==
  /\ TXD # NONE
  /\ wire' = Append(wire, TXD)
  /\ TXD' = NONE
  /\ TXDRDY' = TRUE
  /\ UNCHANGED <<write_buffer, threadVars, irq, b, RXDRDY, INTEN>>

Received ==
  /\ RXDRDY' = TRUE
  /\ UNCHANGED <<write_buffer, threadVars, irq, b, TXDRDY, INTEN, TXD, wire>>

Writing(t) == Lock(t) \/ Fill(t) \/ Unlock(t) \/ Enable(t)

Next ==
  \/ \E t \in Writers, n \in 1 .. MaxCount : _write(t, n)
  \/ \E t \in Writers : Lock(t)
  \/ \E t \in Writers : Fill(t)
  \/ \E t \in Writers : Unlock(t)
  \/ \E t \in Writers : Enable(t)
  \/ _IRQ
  \/ IrqSend
  \/ Sent
  \/ Received

Spec == Init /\ [][Next]_vars

\* The scheduler comes back to a thread that yields (RunnableRuns of Sched), and a thread
\* that is pre-empted or interrupted goes on; the processor takes the interrupt, and the
\* device sends what it is given.  Nobody has to call _write.
Fairness ==
  /\ \A t \in Writers : SF_vars(Writing(t))
  /\ WF_vars(_IRQ)
  /\ WF_vars(IrqSend)
  /\ WF_vars(Sent)

FairSpec == Spec /\ Fairness

-----------------------------------------------------------------------------
(* Properties.                                                               *)

\* All bytes that were put into the ring, in the order in which they leave.
Stream ==
  wire \o (IF TXD = NONE THEN <<>> ELSE <<TXD>>)
       \o (IF irq = "send" THEN <<b>> ELSE <<>>)
       \o Contents(write_buffer)

\* No byte is lost, sent twice or overtaken by a later one of the same writer, between any
\* interleaving of writers, handler and device (fifo_buffer_putb, fifo_buffer_getb, _IRQ):
\* the bytes are those put so far, and those of a writer are in the order of their numbers.
NothingLost ==
  /\ {Stream[i] : i \in DOMAIN Stream} = {x \in Byte : x[2] <= written[x[1]]}
  /\ \A i, j \in DOMAIN Stream :
       i < j /\ Stream[i][1] = Stream[j][1] => Stream[i][2] < Stream[j][2]

\* While there are bytes in the ring the interrupt that sends them is enabled, or a writer is
\* about to enable it; and it will come, because the device is busy or has just finished.
NeverStalls ==
  /\ write_buffer.rsz > 0 => "tx" \in INTEN \/ \E t \in Writers : pc[t] \in {"fill", "enable"}
  /\ TXDRDY <=> TXD = NONE /\ irq = "out"

\* The handler writes TXD only when the device has nothing to send: no byte is overrun.
NoOverrun == [][TXD' # TXD => TXD = NONE \/ TXD' = NONE]_vars

\* To its writers and to the device the ring is a bounded queue.
Queue == INSTANCE BoundedQueue WITH Capacity <- sz, queue <- Contents(write_buffer)
IsQueue == Queue!Spec

\* A call of _write returns, however small the ring and whoever else is writing.
WriteReturns == \A t \in Writers : (pc[t] # "out") ~> (pc[t] = "out")

\* Everything is sent: a byte put between the handler's last look and its last instruction
\* does not wait for the next one.
AllSent == (write_buffer.rsz > 0) ~> (write_buffer.rsz = 0)
=============================================================================
