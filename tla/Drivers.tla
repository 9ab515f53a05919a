------------------------------ MODULE Drivers ------------------------------
(***************************************************************************)
(* The drivers, one at a time: a behaviour is one of the random number     *)
(* generator, the radio, the console of the OMAP or of the hosted port, or *)
(* a mutex.  All of them keep their state in the same four variables (the  *)
(* context of the driver, the registers of the device, the threads, and a  *)
(* history for the properties), and board, which never changes, says whose *)
(* it is.                                                                  *)
(***************************************************************************)
EXTENDS FifoBuffer

CONSTANTS
  Threads,                          \* those that read random numbers; one of them has the console
  Locking,                          \* those that share the mutex
  MaxCount, MaxCalls, MaxReceived,  \* bounds, see the drivers
  NUMBERS,                          \* the bytes that are told apart
  Channels, PacketNumbers,          \* of the radio
  Depth, Lines, INTERRUPTS_MAX, NoHandler

\* The bytes are the numbers below NUMBERS; the lines of the UART and of the timer are in use,
\* and the table of handlers reaches them.
ASSUME DriversAssumption ==
  /\ NUMBERS \in Nat \ {0} /\ Byte = 0 .. NUMBERS - 1 /\ PacketNumbers \in Nat \ {0}
  /\ MaxCount \in Nat /\ MaxCalls \in Nat /\ MaxReceived \in Nat /\ Depth \in Nat \ {0}
  /\ Threads # {} /\ 0 \in Channels
  /\ INTERRUPTS_MAX \in Nat /\ Lines \subseteq 0 .. INTERRUPTS_MAX - 1 /\ {37, 74} \subseteq Lines
  /\ NoHandler \notin {"uart", "timer"}

VARIABLES board, ctx, reg, thr, log
vars == <<board, ctx, reg, thr, log>>

User == CHOOSE t \in Threads : TRUE

RNG == INSTANCE Hwrng WITH Readers <- Threads
Radio == INSTANCE Radio WITH NUMBERS <- PacketNumbers
Uart == INSTANCE OmapUart WITH Threads <- {User}
Hosted == INSTANCE HostedUart
Mutex == INSTANCE Mutex WITH Threads <- Locking

Init ==
  \/ board = "rng" /\ RNG!Init
  \/ board = "radio" /\ Radio!Init
  \/ board = "uart" /\ Uart!Init
  \/ board = "hosted" /\ Hosted!Init
  \/ board = "mutex" /\ Mutex!Init

\* board = kind, and stays so.
Is(kind) == board = kind /\ UNCHANGED board

Next ==
  \/ Is("rng") /\ RNG!Next
  \/ Is("radio") /\ Radio!Next
  \/ Is("uart") /\ Uart!Next
  \/ Is("hosted") /\ Hosted!Next
  \/ Is("mutex") /\ Mutex!Next

Spec == Init /\ [][Next]_vars

\* An interrupt that is pending is taken, and its handler goes on.
Handles ==
  \/ Is("rng") /\ RNG!_IRQ
  \/ Is("radio") /\ Radio!_irq
  \/ Is("uart") /\ Uart!Handling

\* A device does what it is told: it generates, changes its state, sends.  Nothing makes
\* packets or bytes come in.
Works ==
  \/ Is("rng") /\ RNG!Generate
  \/ Is("radio") /\ (Radio!Ready \/ Radio!Stopped)
  \/ Is("uart") /\ Uart!Transmit

\* A thread that has called goes on, however often it is interrupted.
Continues(t) ==
  \/ Is("rng") /\ RNG!Reading(t)
  \/ Is("uart") /\ t = User /\ Uart!Calling(t)
  \/ Is("hosted") /\ Hosted!Calling(t)

Fairness ==
  /\ WF_vars(Handles) /\ WF_vars(Works)
  /\ WF_vars(Is("uart") /\ Uart!Booting)
  /\ \A l \in Lines : SF_vars(Is("uart") /\ Uart!Interrupt(l))
  /\ \A t \in Threads : SF_vars(Continues(t))
  /\ SF_vars(Is("hosted") /\ Hosted!Serving)

FairSpec == Spec /\ Fairness

-----------------------------------------------------------------------------
(* Properties.                                                               *)

\* The state of each driver is of its type, its rings well formed, and the mutex is locked
\* exactly while somebody holds it.
TypeOK ==
  /\ board = "rng" => RNG!TypeOK
  /\ board = "radio" => Radio!TypeOK
  /\ board = "uart" => Uart!TypeOK
  /\ board = "hosted" => Hosted!TypeOK
  /\ board = "mutex" => Mutex!TypeOK

\* What a driver hands on is what it was given, in order, whole and once: random bytes to the
\* readers (hwrng.c _IRQ, _read), packets to the reader of the radio (irq.h __irq_payload_rx,
\* read.h _read), and bytes both ways through the consoles (uart.c _write, _read, _IRQ).
InOrder ==
  /\ board = "rng" => RNG!InOrder
  /\ board = "radio" => Radio!PacketsWhole
  /\ board = "uart" => Uart!InOrder
  /\ board = "hosted" => Hosted!InOrder

\* Nobody waits for an interrupt that is disabled: hwrng.c enables it after the lock is
\* released, uart.c before the ring is filled, and the radio keeps the events set whose
\* interrupts irq.h has disabled.  Nor for a service thread that has been halted.
NeverStalls ==
  /\ board = "rng" => RNG!NeverStalls
  /\ board = "radio" => Radio!IdleWakes
  /\ board = "uart" => Uart!NeverStalls
  /\ board = "hosted" => Hosted!NeverStalls

\* An interrupt of the OMAP finds the handler of its line (console_setup registers it before
\* the line is unmasked).
Dispatched == board = "uart" => Uart!Dispatched

\* One thread holds the mutex (mutex_lock, mutex_trylock, and the clrex of the interrupts).
OneHolder == board = "mutex" => Mutex!OneHolder

\* A thread whose call is due to return, or whose radio is due to receive.
Waits(t) ==
  \/ board = "rng" /\ RNG!Reads(t)
  \/ board = "hosted" /\ Hosted!Returns(t)
  \/ t = User /\ board = "uart" /\ Uart!Returns(t)
  \/ t = User /\ board = "radio" /\ Radio!Waits

\* A call of _read for random bytes returns; so do _write of a console, _read while there are
\* bytes, and _close, which joins the service; and a thread that finds no packet has the
\* radio receive, or is told why.
CallsReturn == \A t \in Threads : Waits(t) ~> ~Waits(t)
=============================================================================
