------------------------------- MODULE Mutex -------------------------------
(***************************************************************************)
(* Mutexes on one processor: arch/arm_a/concurrency/mutex.S, where an      *)
(* exclusive load and an exclusive store straddle any interrupt, and       *)
(* arch/arm_m/concurrency/mutex.S, which turns interrupts off.             *)
(*                                                                         *)
(* The exclusive monitor of the processor does not know threads: it is     *)
(* open or not, and a store succeeds when it is not, whoever has loaded,   *)
(* and from whatever address.  What keeps threads apart is the clrex of    *)
(* each interrupt and each yield (arch/arm_a/context/context_a.S).         *)
(***************************************************************************)
EXTENDS Integers

CONSTANTS Threads

VARIABLES
  ctx,  \* the mutex
  reg,  \* the architecture, and the exclusive monitor
  thr,  \* the thread that runs, and where each of them is
  log   \* not used
vars == <<ctx, reg, thr, log>>

UNLOCKED == 0
LOCKED == 1

Places == {"out", "try", "test", "store", "yield", "hold"}

TypeOK ==
  /\ ctx \in [mutex : {UNLOCKED, LOCKED}]
  /\ reg \in [arch : {"arm_a", "arm_m"}, exclusive : BOOLEAN]
  /\ thr \in [cur : Threads, pc : [Threads -> Places],
              call : [Threads -> {"lock", "trylock"}],
              R3 : [Threads -> {UNLOCKED, LOCKED}]]
  /\ ctx.mutex = LOCKED <=> \E t \in Threads : thr.pc[t] = "hold"

Init ==
  /\ ctx = [mutex |-> UNLOCKED]
  /\ \E arch \in {"arm_a", "arm_m"} : reg = [arch |-> arch, exclusive |-> FALSE]
  /\ \E t \in Threads :
       thr = [cur |-> t, pc |-> [u \in Threads |-> "out"],
              call |-> [u \in Threads |-> "lock"], R3 |-> [u \in Threads |-> UNLOCKED]]
  /\ log = <<>>

Runs(t, place) == thr.cur = t /\ thr.pc[t] = place

Goto(t, place) == [thr EXCEPT !.pc[t] = place]

\* mutex_lock or mutex_trylock is called; a thread does not lock what it holds.
Call(t, f) ==
  /\ Runs(t, "out")
  /\ thr' = [Goto(t, "try") EXCEPT !.call[t] = f]
  /\ UNCHANGED <<ctx, reg, log>>

-----------------------------------------------------------------------------
(* ARM-A.                                                                    *)

\* ldrex
Ldrex(t) ==
  /\ Runs(t, "try") /\ reg.arch = "arm_a"
  /\ thr' = [Goto(t, "test") EXCEPT !.R3[t] = ctx.mutex]
  /\ reg' = [reg EXCEPT !.exclusive = TRUE]
  /\ UNCHANGED <<ctx, log>>

\* LOCKED? mutex_lock yields, mutex_trylock fails.
Taken(t) == Goto(t, IF thr.call[t] = "lock" THEN "yield" ELSE "out")

Test(t) ==
  /\ Runs(t, "test")
  /\ thr' = IF thr.R3[t] = LOCKED THEN Taken(t) ELSE Goto(t, "store")
  /\ UNCHANGED <<ctx, reg, log>>

\* strex: without the monitor nothing is stored, and all starts again.
Strex(t) ==
  /\ Runs(t, "store")
  /\ ctx' = IF reg.exclusive THEN [ctx EXCEPT !.mutex = LOCKED] ELSE ctx
  /\ thr' = Goto(t, IF reg.exclusive THEN "hold" ELSE "try")
  /\ reg' = [reg EXCEPT !.exclusive = FALSE]
  /\ UNCHANGED log

-----------------------------------------------------------------------------
(* ARM-M.                                                                    *)

\* From cpsid to cpsie nothing else runs.
TestAndSet(t) ==
  /\ Runs(t, "try") /\ reg.arch = "arm_m"
  /\ IF ctx.mutex = LOCKED
     THEN thr' = Taken(t) /\ UNCHANGED ctx
     ELSE thr' = Goto(t, "hold") /\ ctx' = [ctx EXCEPT !.mutex = LOCKED]
  /\ UNCHANGED <<reg, log>>

-----------------------------------------------------------------------------
mutex_unlock(t) ==
  /\ Runs(t, "hold")
  /\ ctx' = [ctx EXCEPT !.mutex = UNLOCKED]
  /\ thr' = Goto(t, "out")
  /\ UNCHANGED <<reg, log>>

\* Mutant: the monitor stays as it was.
Clrex_Left(r) == r

\* clrex, at the entry of _my_IRQ_handler and _my_SVC_handler.
Clrex(r) == [r EXCEPT !.exclusive = FALSE]

\* An interrupt, after which any thread may run.
Preempt ==
  /\ \E t \in Threads : thr' = [thr EXCEPT !.cur = t]
  /\ reg' = Clrex(reg)
  /\ UNCHANGED <<ctx, log>>

\* kthread_yield, then the next try.
Yield(t) ==
  /\ Runs(t, "yield")
  /\ \E u \in Threads : thr' = [Goto(t, "try") EXCEPT !.cur = u]
  /\ reg' = Clrex(reg)
  /\ UNCHANGED <<ctx, log>>

Next ==
  \/ \E t \in Threads, f \in {"lock", "trylock"} : Call(t, f)
  \/ \E t \in Threads : Ldrex(t)
  \/ \E t \in Threads : Test(t)
  \/ \E t \in Threads : Strex(t)
  \/ \E t \in Threads : TestAndSet(t)
  \/ \E t \in Threads : mutex_unlock(t)
  \/ \E t \in Threads : Yield(t)
  \/ Preempt

Spec == Init /\ [][Next]_vars

-----------------------------------------------------------------------------
\* At most one thread holds the mutex, wherever an interrupt falls between the exclusive load
\* and the exclusive store.
OneHolder == \A t, u \in Threads : thr.pc[t] = "hold" /\ thr.pc[u] = "hold" => t = u
=============================================================================
