---------------------------- MODULE MutexProofs ----------------------------
(***************************************************************************)
(* One thread at most holds the mutex, for any number of threads and on    *)
(* both architectures.                                                     *)
(***************************************************************************)
EXTENDS Mutex, TLAPS

\* While the monitor is not open, the thread that runs has seen the mutex as it still is:
\* nobody else has run since its exclusive load.
SeenAsItIs ==
  reg.exclusive =>
    /\ thr.pc[thr.cur] = "test" => thr.R3[thr.cur] = ctx.mutex
    /\ thr.pc[thr.cur] = "store" => ctx.mutex = UNLOCKED

MutexInv == TypeOK /\ OneHolder /\ SeenAsItIs

\* At the start nobody is in a call.
LEMMA MutexInit == Init => MutexInv
  BY DEF Init, MutexInv, TypeOK, OneHolder, SeenAsItIs, UNLOCKED, LOCKED, Places

\* A thread that goes to another place where it does not hold the mutex, and did not before,
\* leaves the holder alone.
LEMMA NotTheHolder ==
  ASSUME MutexInv, NEW t \in Threads, NEW place \in Places \ {"hold"},
         thr.pc[t] # "hold", thr'.pc = [thr.pc EXCEPT ![t] = place], ctx' = ctx
  PROVE  /\ ctx.mutex' = LOCKED <=> \E u \in Threads : thr.pc'[u] = "hold"
         /\ OneHolder'
<1>1. \A u \in Threads : thr.pc'[u] = "hold" <=> thr.pc[u] = "hold"
  BY DEF MutexInv, TypeOK
<1>2. QED
  BY <1>1 DEF MutexInv, TypeOK, OneHolder

\* A thread that takes an unlocked mutex is its only holder.
LEMMA OnlyHolder ==
  ASSUME MutexInv, NEW t \in Threads, ctx.mutex = UNLOCKED,
         thr'.pc = [thr.pc EXCEPT ![t] = "hold"], ctx' = [ctx EXCEPT !.mutex = LOCKED]
  PROVE  /\ ctx.mutex' = LOCKED <=> \E u \in Threads : thr.pc'[u] = "hold"
         /\ OneHolder'
<1>1. \A u \in Threads : thr.pc[u] # "hold"
  BY DEF MutexInv, TypeOK, UNLOCKED, LOCKED
<1>2. \A u \in Threads : thr.pc'[u] = "hold" <=> u = t
  BY <1>1 DEF MutexInv, TypeOK
<1>3. ctx.mutex' = LOCKED
  BY DEF MutexInv, TypeOK
<1>4. QED
  BY <1>2, <1>3 DEF OneHolder

LEMMA CallKeeps ==
  ASSUME MutexInv, NEW t \in Threads, NEW f \in {"lock", "trylock"}, Call(t, f)
  PROVE  MutexInv'
<1>1. /\ thr' = [thr EXCEPT !.pc = [thr.pc EXCEPT ![t] = "try"], !.call = [thr.call EXCEPT ![t] = f]]
      /\ thr.cur = t /\ thr.pc[t] = "out" /\ ctx' = ctx /\ reg' = reg
  BY DEF Call, Runs, Goto, MutexInv, TypeOK
<1>2. thr'.pc = [thr.pc EXCEPT ![t] = "try"] /\ thr'.cur = t
  BY <1>1 DEF MutexInv, TypeOK
<1>3. TypeOK'
  BY <1>1, <1>2, NotTheHolder DEF MutexInv, TypeOK, Places
<1>4. SeenAsItIs'
  BY <1>1, <1>2 DEF SeenAsItIs, MutexInv, TypeOK
<1>5. QED
  BY <1>1, <1>2, <1>3, <1>4, NotTheHolder DEF MutexInv, Places

\* The exclusive load reads the mutex, and the thread that runs has seen it so.
LEMMA LdrexKeeps ==
  ASSUME MutexInv, NEW t \in Threads, Ldrex(t)
  PROVE  MutexInv'
<1>1. /\ thr' = [thr EXCEPT !.pc = [thr.pc EXCEPT ![t] = "test"], !.R3 = [thr.R3 EXCEPT ![t] = ctx.mutex]]
      /\ thr.cur = t /\ thr.pc[t] = "try" /\ ctx' = ctx
      /\ reg' = [reg EXCEPT !.exclusive = TRUE]
  BY DEF Ldrex, Runs, Goto, MutexInv, TypeOK
<1>2. /\ thr'.pc = [thr.pc EXCEPT ![t] = "test"] /\ thr'.cur = t
      /\ thr'.R3 = [thr.R3 EXCEPT ![t] = ctx.mutex]
  BY <1>1 DEF MutexInv, TypeOK
<1>3. TypeOK'
  BY <1>1, <1>2, NotTheHolder DEF MutexInv, TypeOK, Places
<1>4. SeenAsItIs'
  BY <1>1, <1>2 DEF SeenAsItIs, MutexInv, TypeOK
<1>5. QED
  BY <1>1, <1>2, <1>3, <1>4, NotTheHolder DEF MutexInv, Places

\* What a thread goes on to store, it has seen unlocked.
LEMMA TestKeeps ==
  ASSUME MutexInv, NEW t \in Threads, Test(t)
  PROVE  MutexInv'
<1>1. PICK place \in {"yield", "out", "store"} :
        /\ thr' = [thr EXCEPT !.pc = [thr.pc EXCEPT ![t] = place]]
        /\ place = "store" => thr.R3[t] # LOCKED
  BY DEF Test, Taken, Goto, MutexInv, TypeOK
<1>2. thr.cur = t /\ thr.pc[t] = "test" /\ ctx' = ctx /\ reg' = reg
  BY DEF Test, Runs
<1>3. thr'.pc = [thr.pc EXCEPT ![t] = place] /\ thr'.cur = t
  BY <1>1, <1>2 DEF MutexInv, TypeOK
<1>4. TypeOK'
  BY <1>1, <1>2, <1>3, NotTheHolder DEF MutexInv, TypeOK, Places
<1>5. SeenAsItIs'
  BY <1>1, <1>2, <1>3 DEF SeenAsItIs, MutexInv, TypeOK
<1>6. QED
  BY <1>2, <1>3, <1>4, <1>5, NotTheHolder DEF MutexInv, Places

\* An exclusive store that succeeds finds the mutex unlocked.
LEMMA StrexKeeps ==
  ASSUME MutexInv, NEW t \in Threads, Strex(t)
  PROVE  MutexInv'
<1>1. /\ thr.cur = t /\ thr.pc[t] = "store"
      /\ reg' = [reg EXCEPT !.exclusive = FALSE]
  BY DEF Strex, Runs
<1>2. ~reg'.exclusive /\ SeenAsItIs'
  BY <1>1 DEF SeenAsItIs, MutexInv, TypeOK
<1>3. CASE reg.exclusive
  <2>1. /\ thr' = [thr EXCEPT !.pc = [thr.pc EXCEPT ![t] = "hold"]]
        /\ ctx' = [ctx EXCEPT !.mutex = LOCKED]
    BY <1>3 DEF Strex, Goto
  <2>2. thr'.pc = [thr.pc EXCEPT ![t] = "hold"] /\ ctx.mutex = UNLOCKED
    BY <1>1, <1>3, <2>1 DEF MutexInv, TypeOK, SeenAsItIs
  <2>3. TypeOK'
    BY <1>1, <2>1, <2>2, OnlyHolder DEF MutexInv, TypeOK, Places
  <2>4. QED
    BY <1>2, <2>1, <2>2, <2>3, OnlyHolder DEF MutexInv
<1>4. CASE ~reg.exclusive
  <2>1. thr' = [thr EXCEPT !.pc = [thr.pc EXCEPT ![t] = "try"]] /\ ctx' = ctx
    BY <1>4 DEF Strex, Goto
  <2>2. thr'.pc = [thr.pc EXCEPT ![t] = "try"]
    BY <2>1 DEF MutexInv, TypeOK
  <2>3. TypeOK'
    BY <1>1, <2>1, <2>2, NotTheHolder DEF MutexInv, TypeOK, Places
  <2>4. QED
    BY <1>1, <1>2, <2>1, <2>2, <2>3, NotTheHolder DEF MutexInv, Places
<1>5. QED
  BY <1>3, <1>4

\* With interrupts off the test and the store are one.
LEMMA TestAndSetKeeps ==
  ASSUME MutexInv, NEW t \in Threads, TestAndSet(t)
  PROVE  MutexInv'
<1>1. thr.cur = t /\ thr.pc[t] = "try" /\ reg' = reg
  BY DEF TestAndSet, Runs
<1>2. CASE ctx.mutex = LOCKED
  <2>1. PICK place \in {"yield", "out"} :
          thr' = [thr EXCEPT !.pc = [thr.pc EXCEPT ![t] = place]]
    BY <1>2 DEF TestAndSet, Taken, Goto
  <2>2. ctx' = ctx /\ thr'.pc = [thr.pc EXCEPT ![t] = place] /\ thr'.cur = t
    BY <1>1, <1>2, <2>1 DEF TestAndSet, MutexInv, TypeOK
  <2>3. TypeOK'
    BY <1>1, <2>1, <2>2, NotTheHolder DEF MutexInv, TypeOK, Places
  <2>4. SeenAsItIs'
    BY <1>1, <2>1, <2>2 DEF SeenAsItIs, MutexInv, TypeOK
  <2>5. QED
    BY <1>1, <2>2, <2>3, <2>4, NotTheHolder DEF MutexInv, Places
<1>3. CASE ctx.mutex # LOCKED
  <2>1. /\ thr' = [thr EXCEPT !.pc = [thr.pc EXCEPT ![t] = "hold"]]
        /\ ctx' = [ctx EXCEPT !.mutex = LOCKED] /\ ctx.mutex = UNLOCKED
    BY <1>3 DEF TestAndSet, Goto, MutexInv, TypeOK
  <2>2. thr'.pc = [thr.pc EXCEPT ![t] = "hold"] /\ thr'.cur = t
    BY <1>1, <2>1 DEF MutexInv, TypeOK
  <2>3. TypeOK'
    BY <1>1, <2>1, <2>2, OnlyHolder DEF MutexInv, TypeOK, Places
  <2>4. SeenAsItIs'
    BY <1>1, <2>1, <2>2 DEF SeenAsItIs, MutexInv, TypeOK
  <2>5. QED
    BY <2>1, <2>2, <2>3, <2>4, OnlyHolder DEF MutexInv
<1>4. QED
  BY <1>2, <1>3

\* Who unlocks is the one who holds, and afterwards nobody does.
LEMMA UnlockKeeps ==
  ASSUME MutexInv, NEW t \in Threads, mutex_unlock(t)
  PROVE  MutexInv'
<1>1. /\ thr.cur = t /\ thr.pc[t] = "hold" /\ reg' = reg
      /\ ctx' = [ctx EXCEPT !.mutex = UNLOCKED]
      /\ thr' = [thr EXCEPT !.pc = [thr.pc EXCEPT ![t] = "out"]]
  BY DEF mutex_unlock, Runs, Goto
<1>2. thr'.pc = [thr.pc EXCEPT ![t] = "out"] /\ thr'.cur = t /\ ctx'.mutex = UNLOCKED
  BY <1>1 DEF MutexInv, TypeOK
<1>3. \A u \in Threads : thr'.pc[u] # "hold"
  BY <1>1, <1>2 DEF MutexInv, TypeOK, OneHolder
<1>4. TypeOK'
  BY <1>1, <1>2, <1>3 DEF MutexInv, TypeOK, Places, UNLOCKED, LOCKED
<1>5. SeenAsItIs'
  BY <1>1, <1>2 DEF SeenAsItIs, MutexInv, TypeOK
<1>6. QED
  BY <1>3, <1>4, <1>5 DEF MutexInv, OneHolder

\* An interrupt opens the monitor, whoever runs next.
LEMMA PreemptKeeps ==
  ASSUME MutexInv, Preempt
  PROVE  MutexInv'
<1>1. PICK u \in Threads : thr' = [thr EXCEPT !.cur = u]
  BY DEF Preempt
<1>2. ctx' = ctx /\ reg' = [reg EXCEPT !.exclusive = FALSE]
  BY DEF Preempt, Clrex
<1>3. thr'.pc = thr.pc
  BY <1>1 DEF MutexInv, TypeOK
<1>4. TypeOK'
  BY <1>1, <1>2, <1>3 DEF MutexInv, TypeOK
<1>5. SeenAsItIs'
  BY <1>2 DEF SeenAsItIs, MutexInv, TypeOK
<1>6. QED
  BY <1>3, <1>4, <1>5 DEF MutexInv, OneHolder

\* So does a yield.
LEMMA YieldKeeps ==
  ASSUME MutexInv, NEW t \in Threads, Yield(t)
  PROVE  MutexInv'
<1>1. PICK u \in Threads :
        thr' = [thr EXCEPT !.pc = [thr.pc EXCEPT ![t] = "try"], !.cur = u]
  BY DEF Yield, Goto, MutexInv, TypeOK
<1>2. thr.pc[t] = "yield" /\ ctx' = ctx /\ reg' = [reg EXCEPT !.exclusive = FALSE]
  BY DEF Yield, Clrex, Runs
<1>3. thr'.pc = [thr.pc EXCEPT ![t] = "try"]
  BY <1>1 DEF MutexInv, TypeOK
<1>4. TypeOK'
  BY <1>1, <1>2, <1>3, NotTheHolder DEF MutexInv, TypeOK, Places
<1>5. SeenAsItIs'
  BY <1>2 DEF SeenAsItIs, MutexInv, TypeOK
<1>6. QED
  BY <1>2, <1>3, <1>4, <1>5, NotTheHolder DEF MutexInv, Places

LEMMA MutexStep == MutexInv /\ [Next]_vars => MutexInv'
<1> SUFFICES ASSUME MutexInv, [Next]_vars PROVE MutexInv'
  OBVIOUS
<1>1. CASE UNCHANGED vars
  BY <1>1 DEF vars, MutexInv, TypeOK, OneHolder, SeenAsItIs
<1>2. CASE Next
  BY <1>2, CallKeeps, LdrexKeeps, TestKeeps, StrexKeeps, TestAndSetKeeps, UnlockKeeps,
     PreemptKeeps, YieldKeeps DEF Next
<1>3. QED
  BY <1>1, <1>2

LEMMA MutexAlways == Spec => []MutexInv
<1>1. QED
  BY MutexInit, MutexStep, PTL DEF Spec

\* mutex.S: the mutex is locked exactly while somebody holds it.
THEOREM MutexTyped == Spec => []TypeOK
<1>1. MutexInv => TypeOK
  BY DEF MutexInv
<1>2. QED
  BY <1>1, MutexAlways, PTL

\* mutex_lock, mutex_trylock and clrex: at most one thread holds the mutex.
THEOREM MutualExclusion == Spec => []OneHolder
<1>1. MutexInv => OneHolder
  BY DEF MutexInv
<1>2. QED
  BY <1>1, MutexAlways, PTL
=============================================================================
