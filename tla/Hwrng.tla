------------------------------- MODULE Hwrng -------------------------------
(***************************************************************************)
(* The random number generator of the micro:bit                            *)
(* (src/src/kernel/drivers/ns/nRF51822/hwrng/hwrng.c): the handler puts    *)
(* the bytes of the device into a ring, and disables its interrupt when    *)
(* the ring is full; readers take them, and enable it again after they     *)
(* have released the lock.                                                 *)
(*                                                                         *)
(* The bytes are 0 .. NUMBERS - 1: the next one that the device generates  *)
(* has the number after the last one that the handler has stored.  No flag *)
(* makes this driver non-blocking.                                         *)
(***************************************************************************)
EXTENDS FifoBuffer

CONSTANTS
  Readers,   \* the threads that read
  MaxCount,  \* the most bytes of one call
  MaxCalls,  \* bound on the calls of _read in all
  NUMBERS    \* how many bytes are told apart

VARIABLES ctx, reg, thr, log
vars == <<ctx, reg, thr, log>>

\* log: the last byte stored, the last one given, and the number of calls.
TypeOK ==
  /\ ctx \in [read_buffer : Ring] /\ WellFormed(ctx.read_buffer)
  /\ reg \in [VALUE : Byte, VALRDY : BOOLEAN, INTEN : BOOLEAN, on : BOOLEAN]
  /\ thr \in [pc : [Readers -> {"out", "lock", "take", "enable", "retry"}],
              count : [Readers -> 0 .. MaxCount]]
  /\ log \in [stored : Byte, given : Byte, calls : 0 .. MaxCalls]

Following(n) == (n + 1) % NUMBERS

\* __open__: the device is started, its interrupt is not enabled.
Init ==
  /\ \E f \in fifo_buffer_create : ctx = [read_buffer |-> f]
  /\ reg = [VALUE |-> 0, VALRDY |-> FALSE, INTEN |-> FALSE, on |-> TRUE]
  /\ thr = [pc |-> [t \in Readers |-> "out"], count |-> [t \in Readers |-> 0]]
  /\ log = [stored |-> 0, given |-> 0, calls |-> 0]

Pending == reg.VALRDY /\ reg.INTEN

Locked == \E t \in Readers : thr.pc[t] = "take"

-----------------------------------------------------------------------------
\* Mutant: the event is left set.
Taken_Kept(r) == r

\* VALRDY = 0
Taken(r) == [r EXCEPT !.VALRDY = FALSE]

\* The byte is stored, or nobody wants one for now.  VALUE is read and the event cleared in one
\* step: a byte generated in between is lost, which a generator of random bytes may do.
_IRQ ==
  /\ Pending /\ ~Locked
  /\ IF ctx.read_buffer.wsz > 0
     THEN /\ ctx' = [ctx EXCEPT !.read_buffer = fifo_buffer_putb(@, reg.VALUE)]
          /\ reg' = Taken(reg)
          /\ log' = [log EXCEPT !.stored = reg.VALUE]
     ELSE /\ reg' = [reg EXCEPT !.INTEN = FALSE]
          /\ UNCHANGED <<ctx, log>>
  /\ UNCHANGED thr

\* The device generates a byte, whether or not the last one was read.
Generate ==
  /\ reg.on
  /\ reg' = [reg EXCEPT !.VALUE = Following(log.stored), !.VALRDY = TRUE]
  /\ UNCHANGED <<ctx, thr, log>>

-----------------------------------------------------------------------------
Runs(t, place) == thr.pc[t] = place /\ ~Pending

Goto(t, place) == [thr EXCEPT !.pc[t] = place]

_read(t, n) ==
  /\ Runs(t, "out") /\ reg.on /\ log.calls < MaxCalls
  /\ thr' = [thr EXCEPT !.pc[t] = "lock", !.count[t] = n]
  /\ log' = [log EXCEPT !.calls = @ + 1]
  /\ UNCHANGED <<ctx, reg>>

\* With the lock: bytes are taken one by one, until the ring is empty or none is wanted.
Lock(t) ==
  /\ Runs(t, "lock") \/ Runs(t, "retry")
  /\ ~Locked
  /\ thr' = Goto(t, "take")
  /\ UNCHANGED <<ctx, reg, log>>

HasByte(t) == thr.count[t] > 0 /\ ctx.read_buffer.rsz > 0

Take(t) ==
  /\ thr.pc[t] = "take" /\ HasByte(t)
  /\ ctx' = [ctx EXCEPT !.read_buffer = fifo_buffer_getb(@)]
  /\ log' = [log EXCEPT !.given = NextByte(ctx.read_buffer)]
  /\ thr' = [thr EXCEPT !.count[t] = @ - 1]
  /\ UNCHANGED reg

Unlock(t) ==
  /\ thr.pc[t] = "take" /\ ~HasByte(t)
  /\ thr' = Goto(t, "enable")
  /\ UNCHANGED <<ctx, reg, log>>

\* Mutant: the interrupt is only enabled when the call is done.
Enabled_WhenDone(t) == reg.INTEN \/ thr.count[t] = 0

\* INTENSET = 1
Enabled(t) == TRUE

\* Then the call returns, or yields and tries again.
Enable(t) ==
  /\ Runs(t, "enable") /\ ~Locked
  /\ reg' = [reg EXCEPT !.INTEN = Enabled(t)]
  /\ thr' = Goto(t, IF thr.count[t] = 0 THEN "out" ELSE "retry")
  /\ UNCHANGED <<ctx, log>>

\* Nobody reads from a file that is closed; what is in the ring is lost with it.
_close ==
  /\ reg.on /\ ~Pending
  /\ \A t \in Readers : thr.pc[t] = "out"
  /\ reg' = [reg EXCEPT !.on = FALSE]
  /\ UNCHANGED <<ctx, thr, log>>

\* __open__ again: a new ring, and the device as it was left.
Reopen ==
  /\ ~reg.on /\ ~Pending
  /\ ctx' = [read_buffer |-> [ctx.read_buffer EXCEPT !.ri = 0, !.wi = 0, !.rsz = 0, !.wsz = sz]]
  /\ reg' = [reg EXCEPT !.on = TRUE]
  /\ log' = [log EXCEPT !.given = log.stored]
  /\ UNCHANGED thr

Reading(t) == Lock(t) \/ Take(t) \/ Unlock(t) \/ Enable(t)

Next ==
  \/ _IRQ \/ Generate
  \/ \E t \in Readers, n \in 1 .. MaxCount : _read(t, n)
  \/ \E t \in Readers : Lock(t)
  \/ \E t \in Readers : Take(t)
  \/ \E t \in Readers : Unlock(t)
  \/ \E t \in Readers : Enable(t)
  \/ _close \/ Reopen

-----------------------------------------------------------------------------
(* Properties.                                                               *)

\* The bytes that were stored are given to the readers in their order, each of them once:
\* after the last one given come those of the ring, up to the last one stored.
InOrder ==
  LET f == ctx.read_buffer
  IN  /\ \A i \in 1 .. f.rsz : Contents(f)[i] = (log.given + i) % NUMBERS
      /\ log.stored = (log.given + f.rsz) % NUMBERS

\* A reader that has yielded on an empty ring will be served: the interrupt is enabled, or
\* another reader is about to enable it.
NeverStalls ==
  (\E t \in Readers : thr.pc[t] = "retry") /\ ctx.read_buffer.rsz = 0
    => reg.INTEN \/ \E t \in Readers : thr.pc[t] \in {"take", "enable"}

\* A call of _read.
Reads(t) == thr.pc[t] # "out"
=============================================================================
