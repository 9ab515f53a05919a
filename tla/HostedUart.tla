----------------------------- MODULE HostedUart -----------------------------
(***************************************************************************)
(* The serial console of the hosted port (drivers/hosted/uart/uart.c): in  *)
(* place of an interrupt, a thread of the host moves bytes between the two *)
(* rings and the terminal, and the lock of the driver is a mutex of the    *)
(* host, so that everybody runs while somebody holds it.                   *)
(*                                                                         *)
(* The bytes are numbered as in OmapUart.  The console has no flag that    *)
(* makes it non-blocking or polling, in_interrupt() is never true, and     *)
(* allocation and the creation of the thread succeed.                      *)
(***************************************************************************)
EXTENDS FifoBuffer

CONSTANTS
  Threads,      \* the threads that use the console
  MaxCount,     \* the most bytes of one call
  MaxCalls,     \* bound on the calls in all
  MaxReceived,  \* bound on the bytes that are typed
  NUMBERS       \* how many bytes are told apart

VARIABLES ctx, reg, thr, log
vars == <<ctx, reg, thr, log>>

Service == "service_IRQ"
Free == "free"

\* reg.kbhit: how many bytes wait in the terminal.
TypeOK ==
  /\ ctx \in [read_buffer : Ring, write_buffer : Ring, halt_flag : BOOLEAN, open : BOOLEAN]
  /\ WellFormed(ctx.read_buffer) /\ WellFormed(ctx.write_buffer)
  /\ reg \in [kbhit : 0 .. MaxReceived]
  /\ thr \in [pc : [Threads -> {"out", "lock", "move", "join"}],
              call : [Threads -> {"write", "read", "close"}], count : [Threads -> 0 .. MaxCount],
              service : {"test", "lock", "send", "receive", "gone"}]
  /\ log \in [put : Byte, sent : Byte, stored : Byte, given : Byte,
              typed : 0 .. MaxReceived, calls : 0 .. MaxCalls]

Following(n) == (n + 1) % NUMBERS

\* _chrd_open, with rings whose pages are taken to be zero.
Opened(f) == [read_buffer |-> f, write_buffer |-> f, halt_flag |-> FALSE, open |-> TRUE]

EmptyRing ==
  CHOOSE f \in fifo_buffer_create : f.bp = [i \in 0 .. sz - 1 |-> 0]

Init ==
  /\ ctx = Opened(EmptyRing)
  /\ reg = [kbhit |-> 0]
  /\ thr = [pc |-> [t \in Threads |-> "out"], call |-> [t \in Threads |-> "write"],
            count |-> [t \in Threads |-> 0], service |-> "test"]
  /\ log = [put |-> 0, sent |-> 0, stored |-> 0, given |-> 0, typed |-> 0, calls |-> 0]

\* Somebody holds the mutex of the spinlock.
Locked == thr.service \in {"send", "receive"} \/ \E t \in Threads : thr.pc[t] = "move"

-----------------------------------------------------------------------------
(* A thread in _write, _read or _close.                                      *)

Goto(t, place) == [thr EXCEPT !.pc[t] = place]

Call(t, f, n) ==
  /\ thr.pc[t] = "out" /\ ctx.open /\ ~ctx.halt_flag /\ log.calls < MaxCalls
  /\ thr' = [thr EXCEPT !.pc[t] = "lock", !.call[t] = f, !.count[t] = n]
  /\ log' = [log EXCEPT !.calls = @ + 1]
  /\ UNCHANGED <<ctx, reg>>

Lock(t) ==
  /\ thr.pc[t] = "lock" /\ ~Locked
  /\ thr' = Goto(t, "move")
  /\ UNCHANGED <<ctx, reg, log>>

CanMove(t) ==
  /\ thr.count[t] > 0
  /\ IF thr.call[t] = "write" THEN ctx.write_buffer.wsz > 0 ELSE ctx.read_buffer.rsz > 0

\* With the lock: bytes are put, or taken, one by one.
Move(t) ==
  /\ thr.pc[t] = "move" /\ CanMove(t)
  /\ thr' = [thr EXCEPT !.count[t] = @ - 1]
  /\ IF thr.call[t] = "write"
     THEN /\ ctx' = [ctx EXCEPT !.write_buffer = fifo_buffer_putb(@, Following(log.put))]
          /\ log' = [log EXCEPT !.put = Following(@)]
     ELSE /\ ctx' = [ctx EXCEPT !.read_buffer = fifo_buffer_getb(@)]
          /\ log' = [log EXCEPT !.given = NextByte(ctx.read_buffer)]
  /\ UNCHANGED reg

\* The call returns, or yields and tries again.
Unlock(t) ==
  /\ thr.pc[t] = "move" /\ ~CanMove(t)
  /\ thr' = Goto(t, IF thr.count[t] = 0 THEN "out" ELSE "lock")
  /\ UNCHANGED <<ctx, reg, log>>

\* The service is told to stop, and waited for; nobody else uses what is closed.
_close(t) ==
  /\ ctx.open /\ \A u \in Threads : thr.pc[u] = "out"
  /\ ctx' = [ctx EXCEPT !.halt_flag = TRUE]
  /\ thr' = [thr EXCEPT !.pc[t] = "join", !.call[t] = "close"]
  /\ UNCHANGED <<reg, log>>

Joined(t) ==
  /\ thr.pc[t] = "join" /\ thr.service = "gone"
  /\ ctx' = [ctx EXCEPT !.open = FALSE]
  /\ thr' = Goto(t, "out")
  /\ UNCHANGED <<reg, log>>

\* _chrd_open again: what the rings held is lost.
Reopen ==
  /\ ~ctx.open
  /\ ctx' = Opened(EmptyRing)
  /\ thr' = [thr EXCEPT !.service = "test"]
  /\ log' = [log EXCEPT !.sent = log.put, !.given = log.stored]
  /\ UNCHANGED reg

-----------------------------------------------------------------------------
(* The thread service_IRQ, which calls _IRQ until it is told to stop.        *)

service_IRQ ==
  /\ thr.service = "test"
  /\ thr' = [thr EXCEPT !.service = IF ctx.halt_flag THEN "gone" ELSE "lock"]
  /\ UNCHANGED <<ctx, reg, log>>

IrqLock ==
  /\ thr.service = "lock" /\ ~Locked
  /\ thr' = [thr EXCEPT !.service = "send"]
  /\ UNCHANGED <<ctx, reg, log>>

\* Every byte of the ring goes to the terminal.
IrqSend ==
  /\ thr.service = "send"
  /\ IF ctx.write_buffer.rsz > 0
     THEN /\ ctx' = [ctx EXCEPT !.write_buffer = fifo_buffer_getb(@)]
          /\ log' = [log EXCEPT !.sent = NextByte(ctx.write_buffer)]
          /\ UNCHANGED thr
     ELSE thr' = [thr EXCEPT !.service = "receive"] /\ UNCHANGED <<ctx, log>>
  /\ UNCHANGED reg

\* Every byte that has been typed goes to the ring, or is lost.
IrqReceive ==
  /\ thr.service = "receive"
  /\ IF reg.kbhit = 0
     THEN thr' = [thr EXCEPT !.service = "test"] /\ UNCHANGED <<ctx, reg, log>>
     ELSE /\ reg' = [reg EXCEPT !.kbhit = @ - 1]
          /\ UNCHANGED thr
          /\ IF ctx.read_buffer.wsz = 0 THEN UNCHANGED <<ctx, log>>
             ELSE /\ ctx' = [ctx EXCEPT !.read_buffer =
                               fifo_buffer_putb(@, Following(log.stored))]
                  /\ log' = [log EXCEPT !.stored = Following(@)]

\* Somebody types.
Type ==
  /\ log.typed < MaxReceived
  /\ reg' = [reg EXCEPT !.kbhit = @ + 1]
  /\ log' = [log EXCEPT !.typed = @ + 1]
  /\ UNCHANGED <<ctx, thr>>

Serving == service_IRQ \/ IrqLock \/ IrqSend \/ IrqReceive
Calling(t) == Lock(t) \/ Move(t) \/ Unlock(t) \/ Joined(t)

Next ==
  \/ \E t \in Threads, f \in {"write", "read"}, n \in 1 .. MaxCount : Call(t, f, n)
  \/ \E t \in Threads : Lock(t)
  \/ \E t \in Threads : Move(t)
  \/ \E t \in Threads : Unlock(t)
  \/ \E t \in Threads : _close(t)
  \/ \E t \in Threads : Joined(t)
  \/ Reopen
  \/ service_IRQ \/ IrqLock \/ IrqSend \/ IrqReceive
  \/ Type

-----------------------------------------------------------------------------
(* Properties.                                                               *)

\* s holds the bytes that follow n, one after the other, up to m.
Continues(n, s, m) ==
  /\ \A i \in 1 .. Len(s) : s[i] = (n + i) % NUMBERS
  /\ m = (n + Len(s)) % NUMBERS

\* What is written is sent in order and once, and what is stored is read so.
InOrder ==
  /\ Continues(log.sent, Contents(ctx.write_buffer), log.put)
  /\ Continues(log.given, Contents(ctx.read_buffer), log.stored)

\* Whoever has called finds the service alive, and it does not outlive what it serves.
NeverStalls ==
  /\ (\E t \in Threads : thr.pc[t] \in {"lock", "move"}) => thr.service # "gone"
  /\ ~ctx.open => thr.service = "gone"

\* A call of _write, of _read for which there are bytes, and of _close.
Returns(t) ==
  /\ thr.pc[t] # "out"
  /\ thr.call[t] = "read" => reg.kbhit > 0 \/ ctx.read_buffer.rsz > 0
=============================================================================
