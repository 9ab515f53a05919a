----------------------------- MODULE SchedProofs -----------------------------
(***************************************************************************)
(* Theorems about the scheduler for any set of threads, any length of the  *)
(* run queue and any bound on the clock.                                   *)
(***************************************************************************)
EXTENDS Sched, WellFoundedInduction, TLAPS

Gone == {"exited", "dead"}

\* Until the idle task exists nothing but kthread_init runs.
InitPhase ==
  pc[BOOT] = "init" =>
    /\ cpu = BOOT /\ mode = "thread" /\ ~pendsv /\ ~timer
    /\ heap = {BOOT} /\ kthreads[0] = NULL

IdleSlot ==
  /\ pc[IDLE] \in {"unborn", "run"} /\ JOINABLE \notin flags[IDLE]
  /\ pc[BOOT] # "init" => kthreads[0] = IDLE

\* Where a thread's code can be, given where its kthread is.
PlaceOfHome ==
  /\ \A t \in Threads : pc[t] \notin {"unborn", "run"} \cup Gone => Queued(t)
  /\ \A t \in Threads : Queued(t) => pc[t] \notin Gone
  /\ \A t, x \in Threads : Adding(x, t) => pc[t] = "run" /\ cpu_state[t] = t
  /\ \A t \in Threads : JOINABLE \in flags[t] =>
       ~Queued(t) /\ \A x \in Threads : ~Adding(x, t)

\* Every thread that waits has its own registers saved; the one on the processor is
\* the current one, or has left its slot empty.
Contexts ==
  ~halted =>
    /\ cpu \in Threads
    /\ pc[cpu] \in Gone => kthreads[running] = NULL
    /\ pc[cpu] \notin Gone => kthreads[running] = cpu
    /\ \A t \in Threads \ {cpu} : Queued(t) => cpu_state[t] = t

\* A thread with the sleep flag is inside kthread_sleep_ts, and has the processor only
\* on its way to the switch that takes it away.
Sleeping ==
  ~halted =>
    /\ \A t \in Threads : SLEEP \in flags[t] => pc[t] \in {"flagged", "asleep"}
    /\ \A t \in Threads : pc[t] \in {"flagged", "asleep"} =>
         \/ SLEEP \in flags[t] /\ sleep_until_time[t] = until[t]
         \/ now >= until[t]
    /\ SLEEP \in flags[cpu] =>
         \/ mode = "handler"
         \/ mode = "thread" /\ (pc[cpu] = "asleep" => pendsv)

\* The inductive invariant.
SchedInv ==
  TypeOK /\ OneHome /\ InitPhase /\ IdleSlot /\ PlaceOfHome /\ Contexts /\ Sleeping

-----------------------------------------------------------------------------
(* The run queue.                                                            *)

\* A non-empty set of naturals has a least element.
LEMMA LeastNatural ==
  ASSUME NEW S \in SUBSET Nat, S # {}
  PROVE  \E x \in S : \A y \in S : x <= y
<1>1. PICK x \in S : \A y \in S : <<y, x>> \notin OpToRel(<, Nat)
  BY NatLessThanWellFounded, WFMin
<1>2. \A y \in S : ~(y < x)
  BY <1>1 DEF OpToRel
<1>3. QED
  BY <1>2

\* run_queue_next answers a slot of the queue: the idle task's, or one whose thread is
\* runnable (its search ends, whatever the queue holds).
LEMMA NextSlot ==
  ASSUME TypeOK
  PROVE  /\ run_queue_next \in Slots
         /\ run_queue_next # 0 => _is_runnable(kthreads[run_queue_next])
<1> DEFINE runnable == {s \in Slots \ {0} : _is_runnable(kthreads[s])}
           best(s) == \A r \in runnable : Distance(s) <= Distance(r)
<1>1. 0 \in Slots
  BY SchedAssumption DEF Slots
<1>2. ASSUME runnable # {} PROVE \E s \in runnable : best(s)
  <2>1. \A s \in Slots : Distance(s) \in Nat
    BY SchedAssumption DEF TypeOK, Slots, Distance
  <2> DEFINE D == {Distance(s) : s \in runnable}
  <2>2. D \subseteq Nat /\ D # {}
    BY <1>2, <2>1
  <2>3. PICK d \in D : \A e \in D : d <= e
    <3> HIDE DEF D
    <3> QED
      BY <2>2, LeastNatural
  <2>4. QED
    BY <2>3
<1>3. CASE runnable = {}
  BY <1>1, <1>3 DEF run_queue_next
<1>4. CASE runnable # {}
  <2>1. run_queue_next = CHOOSE s \in runnable : best(s)
    BY <1>4 DEF run_queue_next
  <2>2. run_queue_next \in runnable
    BY <1>2, <1>4, <2>1
  <2>3. QED
    BY <2>2
<1>5. QED
  BY <1>3, <1>4

-----------------------------------------------------------------------------
(* The invariant holds initially, and each action preserves it.              *)

\* kthread_init starts in the invariant.
LEMMA InitInv == Init => SchedInv
<1> SUFFICES ASSUME Init PROVE SchedInv
  OBVIOUS
<1> USE SchedAssumption DEF Init
<1>1. TypeOK
  <2>1. kthreads \in [Slots -> Threads \cup {NULL}] /\ running \in Slots /\ cpu \in Threads
    BY DEF Slots
  <2>2. pc \in [Threads -> Places] /\ flags \in [Threads -> SUBSET Flags] /\ now \in 0 .. MaxTime
    BY DEF Places
  <2>3. QED
    BY <2>1, <2>2 DEF TypeOK
<1>2. OneHome /\ InitPhase /\ IdleSlot
  BY DEF OneHome, Adding, Queued, Slots, InitPhase, IdleSlot
<1>3. PlaceOfHome /\ Contexts /\ Sleeping
  BY DEF PlaceOfHome, Contexts, Sleeping, Gone, Adding, Queued, Slots, JOINABLE, SLEEP
<1>4. QED
  BY <1>1, <1>2, <1>3 DEF SchedInv

\* A thread that executes and has not exited is the current one, queued and allocated.
LEMMA ExecutingIsCurrent ==
  ASSUME SchedInv, NEW t \in Threads, Executing(t), pc[t] \notin Gone
  PROVE  t = run_queue_current /\ Queued(t) /\ t \in heap
BY DEF SchedInv, Executing, Contexts, Queued, run_queue_current, TypeOK, OneHome

\* kthread_init puts the idle task into slot 0, the first kthread beside the boot task.
LEMMA InitIdle_Inv ==
  ASSUME SchedInv, InitIdle
  PROVE  SchedInv'
<1> USE SchedAssumption DEF SchedInv, InitIdle, At, Executing
<1>1. /\ BOOT \in Threads /\ BOOT = run_queue_current /\ Queued(BOOT)
      /\ heap = {BOOT} /\ kthreads[0] = NULL /\ ~halted /\ cpu = BOOT
  BY ExecutingIsCurrent DEF InitPhase, Gone
<1>2. \A t \in Threads : Queued(t) => t = BOOT
  BY <1>1 DEF OneHome
<1>3. \A x, t \in Threads : ~Adding(x, t)
  BY <1>1 DEF OneHome
<1>4. CASE halted' = TRUE /\ UNCHANGED <<kthreads, cpu_state, heap, pc>>
  <2>1. TypeOK'
    BY <1>4 DEF TypeOK, hwVars
  <2>2. (OneHome /\ InitPhase /\ IdleSlot /\ PlaceOfHome)'
    BY <1>4 DEF OneHome, InitPhase, IdleSlot, PlaceOfHome, Adding, Queued, hwVars
  <2>3. (Contexts /\ Sleeping)'
    BY <1>4 DEF Contexts, Sleeping
  <2>4. QED
    BY <2>1, <2>2, <2>3
<1>5. CASE /\ kthreads' = [kthreads EXCEPT ![0] = IDLE]
           /\ cpu_state' = [cpu_state EXCEPT ![IDLE] = IDLE]
           /\ heap' = heap \cup {IDLE}
           /\ pc' = [pc EXCEPT ![BOOT] = "init_yield", ![IDLE] = "run"]
           /\ UNCHANGED halted
  <2>1. TypeOK'
    BY <1>1, <1>5 DEF TypeOK, hwVars, Slots, Places
  <2>2. \A t \in Threads : Queued(t)' <=> t \in {BOOT, IDLE}
    BY <1>1, <1>2, <1>5 DEF TypeOK, Queued, Slots
  <2>3. \A x, t \in Threads : ~Adding(x, t)'
    BY <1>3, <1>5 DEF TypeOK, Adding
  <2>4. OneHome'
    <3>1. \A s, r \in Slots : kthreads'[s] = kthreads'[r] /\ kthreads'[s] # NULL => s = r
      BY <1>2, <1>1, <1>5 DEF OneHome, TypeOK, Queued
    <3>2. QED
      BY <1>1, <1>5, <2>2, <2>3, <3>1 DEF OneHome
  <2>5. (InitPhase /\ IdleSlot)'
    BY <1>1, <1>5 DEF InitPhase, IdleSlot, TypeOK, Slots
  <2>6. JOINABLE \notin flags[IDLE] /\ JOINABLE \notin flags[BOOT]
    BY <1>1 DEF IdleSlot, PlaceOfHome
  <2>7. PlaceOfHome'
    BY <1>1, <1>2, <1>3, <1>5, <2>2, <2>3, <2>6 DEF PlaceOfHome, TypeOK, Gone
  <2>8. Contexts'
    BY <1>1, <1>2, <1>5, <2>2 DEF Contexts, TypeOK, hwVars, Gone, run_queue_current, Slots
  <2>9. Sleeping'
    BY <1>1, <1>5 DEF Sleeping, IdleSlot, TypeOK, hwVars
  <2>10. QED
    BY <2>1, <2>4, <2>5, <2>7, <2>8, <2>9
<1>6. QED
  BY <1>4, <1>5

\* run_queue_add fills an empty slot with the kthread the caller alone knows of.
LEMMA run_queue_add_Inv ==
  ASSUME SchedInv, NEW t \in Threads, run_queue_add(t)
  PROVE  SchedInv'
<1> DEFINE n == child[t]
<1> USE SchedAssumption DEF SchedInv
<1>1. /\ t = run_queue_current /\ Queued(t) /\ cpu = t /\ ~halted /\ pc[t] = "add"
      /\ mode = "thread" /\ ~pendsv
  BY ExecutingIsCurrent DEF run_queue_add, At, Executing, Gone
<1>2. UNCHANGED <<hwVars, running, flags, sleep_until_time, cpu_state, until, heap, smashed, halted>>
  BY DEF run_queue_add
<1>3. n \in Threads => /\ Adding(t, n) /\ n \in heap /\ ~Queued(n) /\ n # t
                       /\ pc[n] = "run" /\ cpu_state[n] = n /\ JOINABLE \notin flags[n]
  BY <1>1 DEF Adding, OneHome, PlaceOfHome
<1>4. n \in Threads \cup {NULL}
  BY DEF TypeOK
<1>5. ASSUME NEW s \in Slots, IsFirst(s, NULL),
             kthreads' = [kthreads EXCEPT ![s] = n],
             child' = [child EXCEPT ![t] = NULL], Goto(t, "run")
      PROVE  SchedInv'
  <2> USE <1>5 DEF Goto
  <2>1. kthreads[s] = NULL
    BY DEF IsFirst
  <2>2. TypeOK'
    BY <1>1, <1>2, <1>4 DEF TypeOK, hwVars, Places
  <2>3. \A x \in Threads : Queued(x)' <=> Queued(x) \/ x = n
    BY <2>1, <1>4 DEF TypeOK, Queued
  <2>4. \A x, y \in Threads : Adding(y, x)' <=> Adding(y, x) /\ y # t
    BY <1>2 DEF TypeOK, Adding
  <2>5. OneHome'
    <3>1. \A r, q \in Slots : kthreads'[r] = kthreads'[q] /\ kthreads'[r] # NULL => r = q
      BY <1>3, <1>4, <2>1 DEF OneHome, TypeOK, Queued
    <3>2. \A x \in heap' : \/ JOINABLE \in flags'[x] \/ Queued(x)'
                           \/ \E y \in Threads : Adding(y, x)'
      BY <1>1, <1>2, <2>3, <2>4 DEF OneHome, TypeOK, Adding
    <3>3. \A x, y \in Threads : Adding(y, x)' => x \in heap' /\ ~Queued(x)'
      BY <1>1, <1>2, <1>3, <2>3, <2>4 DEF OneHome, Adding
    <3>4. \A x \in Threads : Queued(x)' => x \in heap'
      BY <1>2, <1>3, <2>3 DEF OneHome
    <3>5. QED
      BY <2>4, <3>1, <3>2, <3>3, <3>4 DEF OneHome
  <2>6. (InitPhase /\ IdleSlot)'
    BY <1>1, <1>2, <2>1 DEF InitPhase, IdleSlot, TypeOK, hwVars, Slots
  <2>7. PlaceOfHome'
    BY <1>1, <1>2, <1>3, <2>3, <2>4 DEF PlaceOfHome, OneHome, TypeOK, Gone, Adding
  <2>8. (Contexts /\ Sleeping)'
    BY <1>1, <1>2, <1>3, <2>1, <2>3 DEF Contexts, Sleeping, TypeOK, hwVars, Gone, run_queue_current
  <2>9. QED
    BY <2>2, <2>5, <2>6, <2>7, <2>8
<1>6. ASSUME Goto(t, "refused"), UNCHANGED <<kthreads, child>>
      PROVE  SchedInv'
  <2> USE <1>6 DEF Goto
  <2>1. TypeOK'
    BY <1>1, <1>2 DEF TypeOK, hwVars, Places
  <2>2. \A x \in Threads : Queued(x)' <=> Queued(x)
    BY DEF Queued
  <2>3. \A x, y \in Threads : Adding(y, x)' <=> Adding(y, x)
    BY <1>1 DEF TypeOK, Adding
  <2>4. (OneHome /\ InitPhase /\ IdleSlot)'
    BY <1>1, <1>2, <2>2, <2>3 DEF OneHome, InitPhase, IdleSlot, TypeOK, hwVars
  <2>5. PlaceOfHome'
    BY <1>1, <1>2, <2>2, <2>3 DEF PlaceOfHome, TypeOK, Gone, Adding
  <2>6. (Contexts /\ Sleeping)'
    BY <1>1, <1>2, <2>2 DEF Contexts, Sleeping, TypeOK, hwVars, Gone
  <2>7. QED
    BY <2>1, <2>4, <2>5, <2>6
<1>7. QED
  BY <1>5, <1>6 DEF run_queue_add

\* A thread that got no slot is its creator's alone, who frees it.
LEMMA CreateRefused_Inv ==
  ASSUME SchedInv, NEW t \in Threads, CreateRefused(t)
  PROVE  SchedInv'
<1> DEFINE n == child[t]
<1> USE SchedAssumption DEF SchedInv, _free_kthread
<1>1. /\ t = run_queue_current /\ Queued(t) /\ cpu = t /\ ~halted /\ pc[t] = "refused"
      /\ mode = "thread" /\ ~pendsv
  BY ExecutingIsCurrent DEF CreateRefused, At, Executing, Gone
<1>2. /\ child' = [child EXCEPT ![t] = NULL] /\ _free_kthread(n)
      /\ pc' = [pc EXCEPT ![t] = "run", ![n] = "unborn"]
      /\ UNCHANGED <<hwVars, kthreads, running, flags, sleep_until_time, until, halted>>
  BY DEF CreateRefused
<1>3. n \in Threads => /\ Adding(t, n) /\ n \in heap /\ ~Queued(n) /\ n # t
                       /\ pc[n] = "run" /\ cpu_state[n] = n /\ JOINABLE \notin flags[n]
  BY <1>1 DEF Adding, OneHome, PlaceOfHome
<1>4. n \in Threads \cup {NULL}
  BY DEF TypeOK
<1>5. TypeOK'
  BY <1>1, <1>2, <1>4 DEF TypeOK, hwVars, Places
<1>6. \A x \in Threads : Queued(x)' <=> Queued(x)
  BY <1>2 DEF Queued
<1>7. \A x, y \in Threads : Adding(y, x)' <=> Adding(y, x) /\ y # t
  BY <1>2, <1>3 DEF TypeOK, Adding
<1>8. OneHome'
  <2>1. \A x \in heap' : \/ JOINABLE \in flags'[x] \/ Queued(x)'
                         \/ \E y \in Threads : Adding(y, x)'
    BY <1>1, <1>2, <1>6, <1>7 DEF OneHome, TypeOK, Adding
  <2>2. \A x, y \in Threads : Adding(y, x)' => x \in heap' /\ ~Queued(x)'
    BY <1>1, <1>2, <1>3, <1>6, <1>7 DEF OneHome, TypeOK, Adding
  <2>3. \A x \in Threads : Queued(x)' => x \in heap'
    BY <1>2, <1>3, <1>4, <1>6 DEF OneHome, TypeOK
  <2>4. QED
    BY <1>2, <1>7, <2>1, <2>2, <2>3 DEF OneHome
<1>9. (InitPhase /\ IdleSlot)'
  BY <1>1, <1>2, <1>3 DEF InitPhase, IdleSlot, TypeOK, hwVars, PlaceOfHome, Gone
<1>10. PlaceOfHome'
  BY <1>1, <1>2, <1>3, <1>6, <1>7 DEF PlaceOfHome, OneHome, TypeOK, Gone, Adding
<1>11. (Contexts /\ Sleeping)'
  BY <1>1, <1>2, <1>3, <1>6 DEF Contexts, Sleeping, TypeOK, hwVars, Gone, run_queue_current
<1>12. QED
  BY <1>5, <1>8, <1>9, <1>10, <1>11

\* kthread_join frees only a kthread that has left the queue.
LEMMA JoinTest_Inv ==
  ASSUME SchedInv, NEW t \in Threads, JoinTest(t)
  PROVE  SchedInv'
<1> USE SchedAssumption DEF SchedInv, JoinTest, At, Executing
<1>1. t = run_queue_current /\ Queued(t) /\ cpu = t
  BY ExecutingIsCurrent DEF Gone
<1>2. CASE JOINABLE \in flags[child[t]]
  <2> USE <1>1, <1>2 DEF _free_kthread, Goto
  <2>1. TypeOK'
    BY DEF TypeOK, Places
  <2>2. \A x \in Threads : Queued(x)' <=> Queued(x)
    BY DEF Queued
  <2>3. \A x, y \in Threads : Adding(y, x)' <=> Adding(y, x)
    BY DEF TypeOK, Adding
  <2>4. \A x \in Threads : x = child[t] => ~Queued(x) /\ \A y \in Threads : ~Adding(y, x)
    BY DEF PlaceOfHome
  <2>5. OneHome'
    <3>1. \A x \in heap' : \/ JOINABLE \in flags'[x] \/ Queued(x)'
                           \/ \E y \in Threads : Adding(y, x)'
      BY <2>2, <2>3 DEF OneHome, TypeOK
    <3>2. QED
      BY <2>2, <2>3, <2>4, <3>1 DEF OneHome
  <2>6. (InitPhase /\ IdleSlot)'
    BY DEF InitPhase, IdleSlot, TypeOK
  <2>7. PlaceOfHome'
    BY <2>2, <2>3, <2>4 DEF PlaceOfHome, TypeOK, Gone
  <2>8. (Contexts /\ Sleeping)'
    BY <2>2, <2>4 DEF Contexts, Sleeping, TypeOK, Gone, run_queue_current
  <2>9. QED
    BY <2>1, <2>5, <2>6, <2>7, <2>8
<1>3. CASE JOINABLE \notin flags[child[t]]
  <2> USE <1>1, <1>3
  <2>1. TypeOK'
    BY DEF TypeOK
  <2>2. (OneHome /\ InitPhase /\ IdleSlot /\ PlaceOfHome)'
    BY DEF OneHome, InitPhase, IdleSlot, PlaceOfHome, Adding, Queued
  <2>3. (Contexts /\ Sleeping)'
    BY DEF Contexts, Sleeping, Queued
  <2>4. QED
    BY <2>1, <2>2, <2>3
<1>4. QED
  BY <1>2, <1>3

\* _exited_kthread empties the slot of the thread that is executing, not another.
LEMMA exited_kthread_Inv ==
  ASSUME SchedInv, NEW t \in Threads, _exited_kthread(t)
  PROVE  SchedInv'
<1> USE SchedAssumption DEF SchedInv
<1>1. /\ t = run_queue_current /\ kthreads[running] = t /\ Queued(t) /\ cpu = t /\ ~halted
      /\ t \in heap /\ pc[t] = "run" /\ t \notin {IDLE, BOOT} /\ mode = "thread" /\ ~pendsv
  BY ExecutingIsCurrent DEF _exited_kthread, At, Executing, Gone, run_queue_current
<1>2. /\ pc' = [pc EXCEPT ![t] = "exited"]
      /\ flags' = [x \in Threads |-> IF x = t THEN flags[x] \cup {JOINABLE} ELSE flags[x]]
      /\ UNCHANGED <<hwVars, running, sleep_until_time, cpu_state, child, until, heap, smashed>>
      /\ halted' \in BOOLEAN
  BY <1>1 DEF _exited_kthread, Goto
<1>3. \A s \in Slots : IsFirst(s, t) <=> s = running
  BY <1>1 DEF IsFirst, OneHome, TypeOK, Slots
<1>4. kthreads' = [s \in Slots |-> IF s = running THEN NULL ELSE kthreads[s]]
  BY <1>1, <1>3 DEF _exited_kthread
<1>5. TypeOK'
  BY <1>2, <1>4 DEF TypeOK, hwVars, Places, Flags
<1>6. \A x \in Threads : Queued(x)' <=> Queued(x) /\ x # t
  BY <1>1, <1>4 DEF TypeOK, Queued, OneHome
<1>7. \A x, y \in Threads : Adding(y, x)' <=> Adding(y, x)
  BY <1>1, <1>2 DEF TypeOK, Adding
<1>8. \A y \in Threads : ~Adding(y, t)
  BY <1>1 DEF OneHome
<1>9. OneHome'
  BY <1>1, <1>2, <1>4, <1>6, <1>7, <1>8 DEF OneHome, TypeOK
<1>10. (InitPhase /\ IdleSlot)'
  BY <1>1, <1>2, <1>4 DEF InitPhase, IdleSlot, TypeOK, hwVars, Slots, JOINABLE
<1>11. PlaceOfHome'
  BY <1>1, <1>2, <1>6, <1>7, <1>8 DEF PlaceOfHome, TypeOK, Gone, JOINABLE
<1>12. Contexts'
  BY <1>1, <1>2, <1>4, <1>6 DEF Contexts, TypeOK, hwVars, Gone
<1>13. Sleeping'
  BY <1>1, <1>2 DEF Sleeping, TypeOK, hwVars, JOINABLE, SLEEP
<1>14. QED
  BY <1>5, <1>9, <1>10, <1>11, <1>12, <1>13

\* The switch saves the outgoing thread and loads one that is queued and was saved.
LEMMA arch_irq_task_switch_Inv ==
  ASSUME SchedInv, _arch_irq_task_switch
  PROVE  SchedInv'
<1> DEFINE c == run_queue_current
           s == run_queue_next
           n == kthreads[s]
<1> USE SchedAssumption DEF SchedInv
<1>1. ~halted /\ mode = "handler"
  BY DEF _arch_irq_task_switch
<1>2. s \in Slots /\ (s # 0 => _is_runnable(n))
  BY NextSlot
<1>3. /\ running' = s
      /\ flags' = [t \in Threads |-> IF t = n /\ s # 0 THEN flags[t] \ {SLEEP} ELSE flags[t]]
      /\ UNCHANGED <<pendsv, now, kthreads, sleep_until_time, threadVars>>
  BY DEF _arch_irq_task_switch
<1>4. \A x \in Threads : Queued(x)' <=> Queued(x)
  BY <1>3 DEF Queued
<1>5. \A x, y \in Threads : Adding(y, x)' <=> Adding(y, x)
  BY <1>3 DEF Adding, threadVars
<1>6. OneHome'
  BY <1>3, <1>4, <1>5 DEF OneHome, TypeOK, JOINABLE, SLEEP, threadVars
<1>7. pc[BOOT] # "init"
  BY <1>1 DEF InitPhase
<1>8. (InitPhase /\ IdleSlot)'
  BY <1>3, <1>7 DEF InitPhase, IdleSlot, threadVars
<1>9. CASE BugOnSwitch(c, n) /\ halted' = TRUE /\ UNCHANGED <<cpu_state, cpu, timer, mode>>
  <2>1. TypeOK'
    BY <1>2, <1>3, <1>9 DEF TypeOK, threadVars
  <2>2. PlaceOfHome'
    BY <1>3, <1>4, <1>5, <1>9 DEF PlaceOfHome, TypeOK, threadVars
  <2>3. (Contexts /\ Sleeping)'
    BY <1>9 DEF Contexts, Sleeping
  <2>4. QED
    BY <1>6, <1>8, <2>1, <2>2, <2>3
<1>10. CASE /\ ~BugOnSwitch(c, n) /\ _switch(c, n) /\ _sched_next_task
            /\ mode' = "tail" /\ UNCHANGED halted
  <2>1. c = cpu /\ c \in Threads /\ pc[cpu] \notin Gone
    BY <1>1, <1>10 DEF Contexts, BugOnSwitch, run_queue_current
  <2>2. n \in Threads /\ Queued(n)
    BY <1>2, <1>10 DEF BugOnSwitch, TypeOK, Queued
  <2>3. cpu' = n /\ cpu_state' = [cpu_state EXCEPT ![c] = c]
    BY <1>1, <1>10, <2>1, <2>2 DEF _switch, Contexts
  <2>4. TypeOK'
    BY <1>2, <1>3, <1>10, <2>1, <2>2, <2>3 DEF TypeOK, threadVars, _sched_next_task
  <2>5. PlaceOfHome'
    BY <1>3, <1>4, <1>5, <2>1, <2>3 DEF PlaceOfHome, TypeOK, threadVars
  <2>6. Contexts'
    BY <1>1, <1>3, <1>4, <2>1, <2>2, <2>3 DEF Contexts, PlaceOfHome, TypeOK, threadVars
  <2>7. SLEEP \notin flags'[n]
    BY <1>1, <1>2, <1>3, <1>7, <2>2 DEF TypeOK, IdleSlot, Sleeping
  <2>8. Sleeping'
    BY <1>1, <1>2, <1>3, <1>10, <2>2, <2>3, <2>7 DEF Sleeping, TypeOK, threadVars, _is_runnable
  <2>9. QED
    BY <1>6, <1>8, <2>4, <2>5, <2>6, <2>8
<1>11. QED
  BY <1>9, <1>10 DEF _arch_irq_task_switch

\* The first yield of kthread_init.
LEMMA InitYield_Inv ==
  ASSUME SchedInv, InitYield
  PROVE  SchedInv'
<1> USE SchedAssumption DEF SchedInv, InitYield, At, Goto, Executing, hwVars, threadVars, queueVars
<1>1. BOOT = run_queue_current /\ cpu = BOOT /\ Queued(BOOT) /\ BOOT \in heap
  BY ExecutingIsCurrent DEF Gone
<1>2. TypeOK'
  BY <1>1 DEF TypeOK, Places
<1>3. (OneHome /\ InitPhase /\ IdleSlot /\ PlaceOfHome)'
  BY <1>1 DEF OneHome, InitPhase, IdleSlot, PlaceOfHome, Adding, Queued, TypeOK, Gone
<1>4. (Contexts /\ Sleeping)'
  BY <1>1 DEF Contexts, Sleeping, Queued, TypeOK, Gone, run_queue_current
<1>5. QED
  BY <1>2, <1>3, <1>4

\* kthread_init arms the first time slice.
LEMMA InitArm_Inv ==
  ASSUME SchedInv, InitArm
  PROVE  SchedInv'
<1> USE SchedAssumption DEF SchedInv, InitArm, At, Goto, Executing, hwVars, threadVars, queueVars
<1>1. BOOT = run_queue_current /\ cpu = BOOT /\ Queued(BOOT) /\ BOOT \in heap
  BY ExecutingIsCurrent DEF Gone
<1>2. TypeOK'
  BY <1>1 DEF TypeOK, Places, _sched_next_task
<1>3. (OneHome /\ InitPhase /\ IdleSlot /\ PlaceOfHome)'
  BY <1>1 DEF OneHome, InitPhase, IdleSlot, PlaceOfHome, Adding, Queued, TypeOK, Gone
<1>4. (Contexts /\ Sleeping)'
  BY <1>1 DEF Contexts, Sleeping, Queued, TypeOK, Gone, run_queue_current
<1>5. QED
  BY <1>2, <1>3, <1>4

\* A yield only requests PendSV.
LEMMA kthread_yield_Inv ==
  ASSUME SchedInv, NEW t \in Threads, kthread_yield(t)
  PROVE  SchedInv'
<1> USE SchedAssumption DEF SchedInv, kthread_yield, At, Goto, Executing, hwVars, threadVars, queueVars
<1>2. TypeOK'
  BY DEF TypeOK, Places
<1>3. (OneHome /\ InitPhase /\ IdleSlot /\ PlaceOfHome)'
  BY DEF OneHome, InitPhase, IdleSlot, PlaceOfHome, Adding, Queued, TypeOK, Gone
<1>4. (Contexts /\ Sleeping)'
  BY DEF Contexts, Sleeping, Queued, TypeOK, Gone, run_queue_current
<1>5. QED
  BY <1>2, <1>3, <1>4

\* _kthread_create takes memory that belongs to no other thread.
LEMMA kthread_create_Inv ==
  ASSUME SchedInv, NEW t \in Threads, NEW n \in Threads, _kthread_create(t, n)
  PROVE  SchedInv'
<1> USE SchedAssumption DEF SchedInv, _kthread_create, At, Goto, Executing, hwVars, threadVars, queueVars
<1>1. t = run_queue_current /\ cpu = t /\ Queued(t) /\ t \in heap
  BY ExecutingIsCurrent DEF Gone
<1>2. TypeOK'
  BY <1>1 DEF TypeOK, Places
<1>a. ~Queued(n) /\ \A x \in Threads : ~Adding(x, n)
  BY DEF OneHome
<1>b. \A x \in Threads : Queued(x)' <=> Queued(x)
  BY DEF Queued
<1>c. \A x, y \in Threads : Adding(x, y)' <=> IF x = t THEN y = n ELSE x # n /\ Adding(x, y)
  BY <1>1, <1>a DEF Adding, OneHome, PlaceOfHome, TypeOK, Gone
<1>3. OneHome'
  <2>1. \A s, r \in Slots : kthreads'[s] = kthreads'[r] /\ kthreads'[s] # NULL => s = r
    BY DEF OneHome
  <2>2. \A u, x \in Threads : Adding(x, u)' => u \in heap' /\ ~Queued(u)'
    BY <1>a, <1>b, <1>c DEF OneHome
  <2>3. \A u, x, y \in Threads : Adding(x, u)' /\ Adding(y, u)' => x = y
    BY <1>a, <1>c DEF OneHome
  <2>4. \A u \in Threads : Queued(u)' => u \in heap'
    BY <1>b DEF OneHome
  <2>5. ASSUME NEW u \in heap'
        PROVE  JOINABLE \in flags'[u] \/ Queued(u)' \/ \E x \in Threads : Adding(x, u)'
    <3>1. CASE u = n
      BY <1>c, <3>1
    <3>2. CASE u # n
      <4>1. u \in heap /\ u \in Threads /\ flags'[u] = flags[u]
        BY <3>2 DEF TypeOK
      <4>2. \A x \in Threads : Adding(x, u) => x # t /\ x # n
        BY <1>1, <4>1 DEF Adding, OneHome, PlaceOfHome, TypeOK, Gone
      <4>3. QED
        BY <1>b, <1>c, <4>1, <4>2 DEF OneHome
    <3>3. QED
      BY <3>1, <3>2
  <2>6. QED
    BY <2>1, <2>2, <2>3, <2>4, <2>5 DEF OneHome
<1>4. (InitPhase /\ IdleSlot)'
  BY <1>1 DEF InitPhase, IdleSlot, OneHome, PlaceOfHome, TypeOK, Gone
<1>5. PlaceOfHome'
  BY <1>1 DEF PlaceOfHome, OneHome, Adding, Queued, TypeOK, Gone
<1>6. (Contexts /\ Sleeping)'
  BY <1>1 DEF Contexts, Sleeping, OneHome, Queued, TypeOK, Gone
<1>7. QED
  BY <1>2, <1>3, <1>4, <1>5, <1>6

\* The fault of a stack_alloc that finds no pages.
LEMMA NoStackPages_Inv ==
  ASSUME SchedInv, NEW t \in Threads, NoStackPages(t)
  PROVE  SchedInv'
<1> USE DEF SchedInv, NoStackPages, hwVars, threadVars, queueVars
<1>1. (TypeOK /\ InitPhase /\ IdleSlot)'
  BY DEF TypeOK, InitPhase, IdleSlot
<1>2. (OneHome /\ PlaceOfHome)'
  BY DEF OneHome, PlaceOfHome, Adding, Queued
<1>3. (Contexts /\ Sleeping)'
  BY DEF Contexts, Sleeping
<1>4. QED
  BY <1>1, <1>2, <1>3

\* kthread_sleep_ts computes its deadline.
LEMMA kthread_sleep_Inv ==
  ASSUME SchedInv, NEW t \in Threads, NEW d \in 0 .. MaxSleep, kthread_sleep(t, d)
  PROVE  SchedInv'
<1> USE SchedAssumption DEF SchedInv, kthread_sleep, At, Goto, Executing, hwVars, threadVars, queueVars
<1>1. t = run_queue_current /\ cpu = t /\ Queued(t) /\ t \in heap
  BY ExecutingIsCurrent DEF Gone
<1>2. TypeOK'
  BY <1>1 DEF TypeOK, Places
<1>3. (OneHome /\ InitPhase /\ IdleSlot /\ PlaceOfHome)'
  BY <1>1 DEF OneHome, InitPhase, IdleSlot, PlaceOfHome, Adding, Queued, TypeOK, Gone
<1>4. (Contexts /\ Sleeping)'
  BY <1>1 DEF Contexts, Sleeping, Queued, TypeOK, Gone, run_queue_current
<1>5. QED
  BY <1>2, <1>3, <1>4

\* The critical section of kthread_sleep_ts flags the thread that is in it.
LEMMA SleepFlag_Inv ==
  ASSUME SchedInv, NEW t \in Threads, SleepFlag(t)
  PROVE  SchedInv'
<1> USE SchedAssumption DEF SchedInv, SleepFlag, At, Goto, Executing, hwVars, threadVars, queueVars
<1>1. t = run_queue_current /\ cpu = t /\ Queued(t) /\ t \in heap
  BY ExecutingIsCurrent DEF Gone
<1>2. TypeOK'
  BY <1>1 DEF TypeOK, Places, Flags
<1>3. (OneHome /\ InitPhase /\ IdleSlot /\ PlaceOfHome)'
  BY <1>1 DEF OneHome, InitPhase, IdleSlot, PlaceOfHome, Adding, Queued, TypeOK, Gone, JOINABLE, SLEEP
<1>4. (Contexts /\ Sleeping)'
  BY <1>1 DEF Contexts, Sleeping, Queued, TypeOK, Gone, run_queue_current, JOINABLE, SLEEP
<1>5. QED
  BY <1>2, <1>3, <1>4

\* kthread_sleep_ts requests the switch that takes it off the processor.
LEMMA SleepYield_Inv ==
  ASSUME SchedInv, NEW t \in Threads, SleepYield(t)
  PROVE  SchedInv'
<1> USE SchedAssumption DEF SchedInv, SleepYield, At, Goto, Executing, hwVars, threadVars, queueVars
<1>1. t = run_queue_current /\ cpu = t /\ Queued(t) /\ t \in heap
  BY ExecutingIsCurrent DEF Gone
<1>2. TypeOK'
  BY <1>1 DEF TypeOK, Places
<1>3. (OneHome /\ InitPhase /\ IdleSlot /\ PlaceOfHome)'
  <2>1. OneHome'
    BY <1>1 DEF OneHome, Adding, Queued, TypeOK, Gone
  <2>2. InitPhase'
    BY <1>1 DEF InitPhase, Adding, Queued, TypeOK, Gone
  <2>3. IdleSlot'
    BY <1>1 DEF IdleSlot, Adding, Queued, TypeOK, Gone
  <2>4. PlaceOfHome'
    BY <1>1 DEF PlaceOfHome, Adding, Queued, TypeOK, Gone
  <2>5. QED
    BY <2>1, <2>2, <2>3, <2>4
<1>4. (Contexts /\ Sleeping)'
  BY <1>1 DEF Contexts, Sleeping, Queued, TypeOK, Gone, run_queue_current
<1>5. QED
  BY <1>2, <1>3, <1>4

\* kthread_sleep_ts returns only once its flag is cleared.
LEMMA SleepReturn_Inv ==
  ASSUME SchedInv, NEW t \in Threads, SleepReturn(t)
  PROVE  SchedInv'
<1> USE SchedAssumption DEF SchedInv, SleepReturn, At, Goto, Executing, hwVars, threadVars, queueVars
<1>1. t = run_queue_current /\ cpu = t /\ Queued(t) /\ t \in heap
  BY ExecutingIsCurrent DEF Gone
<1>2. TypeOK'
  BY <1>1 DEF TypeOK, Places
<1>3. (OneHome /\ InitPhase /\ IdleSlot /\ PlaceOfHome)'
  BY <1>1 DEF OneHome, InitPhase, IdleSlot, PlaceOfHome, Adding, Queued, TypeOK, Gone
<1>4. (Contexts /\ Sleeping)'
  BY <1>1 DEF Contexts, Sleeping, Queued, TypeOK, Gone, run_queue_current
<1>5. QED
  BY <1>2, <1>3, <1>4

\* kthread_join starts to wait.
LEMMA kthread_join_Inv ==
  ASSUME SchedInv, NEW t \in Threads, NEW h \in Threads, kthread_join(t, h)
  PROVE  SchedInv'
<1> USE SchedAssumption DEF SchedInv, kthread_join, At, Goto, Executing, hwVars, threadVars, queueVars
<1>1. t = run_queue_current /\ cpu = t /\ Queued(t) /\ t \in heap
  BY ExecutingIsCurrent DEF Gone
<1>2. TypeOK'
  BY <1>1 DEF TypeOK, Places
<1>3. \A x \in Threads : Queued(x)' <=> Queued(x)
  BY DEF Queued
<1>4. \A x, y \in Threads : Adding(y, x)' <=> Adding(y, x)
  BY DEF TypeOK, Adding
<1>5. OneHome'
  <2>1. \A x \in heap' : \/ JOINABLE \in flags'[x] \/ Queued(x)'
                         \/ \E y \in Threads : Adding(y, x)'
    BY <1>3, <1>4 DEF OneHome, TypeOK
  <2>2. QED
    BY <1>3, <1>4, <2>1 DEF OneHome
<1>6. (InitPhase /\ IdleSlot)'
  BY DEF InitPhase, IdleSlot, TypeOK
<1>7. PlaceOfHome'
  <2>1. \A x \in Threads : ~Adding(x, t)
    BY <1>1 DEF OneHome
  <2>2. QED
    BY <1>1, <1>3, <1>4, <2>1 DEF PlaceOfHome, TypeOK, Gone
<1>8. (Contexts /\ Sleeping)'
  BY <1>1, <1>3 DEF Contexts, Sleeping, TypeOK, Gone, run_queue_current
<1>9. QED
  BY <1>2, <1>5, <1>6, <1>7, <1>8

\* The last yield of an exited thread.
LEMMA ExitYield_Inv ==
  ASSUME SchedInv, NEW t \in Threads, ExitYield(t)
  PROVE  SchedInv'
<1> USE SchedAssumption DEF SchedInv, ExitYield, At, Goto, Executing, hwVars, threadVars, queueVars
<1>2. TypeOK'
  BY DEF TypeOK, Places
<1>3. (OneHome /\ InitPhase /\ IdleSlot /\ PlaceOfHome)'
  <2>1. OneHome'
    BY DEF OneHome, Adding, Queued, TypeOK, Gone
  <2>2. InitPhase'
    BY DEF InitPhase, Adding, Queued, TypeOK, Gone
  <2>3. IdleSlot'
    BY DEF IdleSlot, Adding, Queued, TypeOK, Gone
  <2>4. PlaceOfHome'
    BY DEF PlaceOfHome, Adding, Queued, TypeOK, Gone
  <2>5. QED
    BY <2>1, <2>2, <2>3, <2>4
<1>4. (Contexts /\ Sleeping)'
  BY DEF Contexts, Sleeping, Queued, TypeOK, Gone, run_queue_current
<1>5. QED
  BY <1>2, <1>3, <1>4

\* A thread overwrites its own canary, nothing the scheduler reads.
LEMMA Overflow_Inv ==
  ASSUME SchedInv, NEW t \in Threads, Overflow(t)
  PROVE  SchedInv'
<1> USE SchedAssumption DEF SchedInv, Overflow, At, Goto, Executing, hwVars, threadVars, queueVars
<1>2. TypeOK'
  BY DEF TypeOK, Places
<1>3. (OneHome /\ InitPhase /\ IdleSlot /\ PlaceOfHome)'
  BY DEF OneHome, InitPhase, IdleSlot, PlaceOfHome, Adding, Queued, TypeOK, Gone
<1>4. (Contexts /\ Sleeping)'
  BY DEF Contexts, Sleeping, Queued, TypeOK, Gone, run_queue_current
<1>5. QED
  BY <1>2, <1>3, <1>4

\* The timer interrupt touches no kthread.
LEMMA TimerIRQ_Inv ==
  ASSUME SchedInv, TimerIRQ
  PROVE  SchedInv'
<1> USE SchedAssumption DEF SchedInv, TimerIRQ, queueVars, threadVars
<1>2. TypeOK'
  BY DEF TypeOK, Places
<1>3. (OneHome /\ InitPhase /\ IdleSlot /\ PlaceOfHome)'
  BY DEF OneHome, InitPhase, IdleSlot, PlaceOfHome, Adding, Queued, TypeOK, Gone
<1>4. (Contexts /\ Sleeping)'
  BY DEF Contexts, Sleeping, Queued, TypeOK, Gone, run_queue_current
<1>5. QED
  BY <1>2, <1>3, <1>4

\* Entering PendSV touches no kthread.
LEMMA PendSVEnter_Inv ==
  ASSUME SchedInv, PendSVEnter
  PROVE  SchedInv'
<1> USE SchedAssumption DEF SchedInv, PendSVEnter, queueVars, threadVars
<1>2. TypeOK'
  BY DEF TypeOK, Places
<1>3. (OneHome /\ InitPhase /\ IdleSlot /\ PlaceOfHome)'
  BY DEF OneHome, InitPhase, IdleSlot, PlaceOfHome, Adding, Queued, TypeOK, Gone
<1>4. (Contexts /\ Sleeping)'
  BY DEF Contexts, Sleeping, Queued, TypeOK, Gone, run_queue_current
<1>5. QED
  BY <1>2, <1>3, <1>4

\* Leaving PendSV resumes the thread that was loaded.
LEMMA PendSVExit_Inv ==
  ASSUME SchedInv, PendSVExit
  PROVE  SchedInv'
<1> USE SchedAssumption DEF SchedInv, PendSVExit, queueVars, threadVars
<1>2. TypeOK'
  BY DEF TypeOK, Places
<1>3. (OneHome /\ InitPhase /\ IdleSlot /\ PlaceOfHome)'
  BY DEF OneHome, InitPhase, IdleSlot, PlaceOfHome, Adding, Queued, TypeOK, Gone
<1>4. (Contexts /\ Sleeping)'
  BY DEF Contexts, Sleeping, Queued, TypeOK, Gone, run_queue_current
<1>5. QED
  BY <1>2, <1>3, <1>4

\* Deadlines only get closer.
LEMMA TimePasses_Inv ==
  ASSUME SchedInv, TimePasses
  PROVE  SchedInv'
<1> USE SchedAssumption DEF SchedInv, TimePasses, queueVars, threadVars
<1>2. TypeOK'
  BY DEF TypeOK, Places
<1>3. (OneHome /\ InitPhase /\ IdleSlot /\ PlaceOfHome)'
  BY DEF OneHome, InitPhase, IdleSlot, PlaceOfHome, Adding, Queued, TypeOK, Gone
<1>4. (Contexts /\ Sleeping)'
  BY DEF Contexts, Sleeping, Queued, TypeOK, Gone, run_queue_current
<1>5. QED
  BY <1>2, <1>3, <1>4

\* Every step of the scheduler preserves the inductive invariant.
LEMMA StepInv == SchedInv /\ [Next]_vars => SchedInv'
<1> SUFFICES ASSUME SchedInv, [Next]_vars PROVE SchedInv'
  OBVIOUS
<1>1. CASE UNCHANGED vars
  BY <1>1 DEF vars, hwVars, threadVars, queueVars, SchedInv, TypeOK, OneHome, InitPhase,
              IdleSlot, PlaceOfHome, Contexts, Sleeping, Adding, Queued
<1>2. ASSUME NEW t \in Threads, ThreadStep(t) PROVE SchedInv'
  <2>1. CASE kthread_yield(t)
    BY <2>1, kthread_yield_Inv
  <2>2. CASE \E n \in Threads : _kthread_create(t, n)
    BY <2>2, kthread_create_Inv
  <2>3. CASE run_queue_add(t)
    BY <2>3, run_queue_add_Inv
  <2>4. CASE \E d \in 0 .. MaxSleep : kthread_sleep(t, d)
    BY <2>4, kthread_sleep_Inv
  <2>5. CASE SleepFlag(t)
    BY <2>5, SleepFlag_Inv
  <2>6. CASE SleepYield(t)
    BY <2>6, SleepYield_Inv
  <2>7. CASE SleepReturn(t)
    BY <2>7, SleepReturn_Inv
  <2>8. CASE \E h \in Threads : kthread_join(t, h)
    BY <2>8, kthread_join_Inv
  <2>9. CASE JoinTest(t)
    BY <2>9, JoinTest_Inv
  <2>10. CASE _exited_kthread(t)
    BY <2>10, exited_kthread_Inv
  <2>11. CASE ExitYield(t)
    BY <2>11, ExitYield_Inv
  <2>12. CASE Overflow(t)
    BY <2>12, Overflow_Inv
  <2>13. CASE NoStackPages(t)
    BY <2>13, NoStackPages_Inv
  <2>14. CASE CreateRefused(t)
    BY <2>14, CreateRefused_Inv
  <2>15. QED
    BY <1>2, <2>14, <2>1, <2>2, <2>3, <2>4, <2>5, <2>6, <2>7, <2>8, <2>9, <2>10, <2>11, <2>12, <2>13
       DEF ThreadStep
<1>3. CASE InitIdle
  BY <1>3, InitIdle_Inv
<1>4. CASE InitYield
  BY <1>4, InitYield_Inv
<1>5. CASE InitArm
  BY <1>5, InitArm_Inv
<1>6. CASE TimerIRQ
  BY <1>6, TimerIRQ_Inv
<1>7. CASE PendSVEnter
  BY <1>7, PendSVEnter_Inv
<1>8. CASE _arch_irq_task_switch
  BY <1>8, arch_irq_task_switch_Inv
<1>9. CASE PendSVExit
  BY <1>9, PendSVExit_Inv
<1>10. CASE TimePasses
  BY <1>10, TimePasses_Inv
<1>11. QED
  BY <1>1, <1>2, <1>3, <1>4, <1>5, <1>6, <1>7, <1>8, <1>9, <1>10 DEF Next

-----------------------------------------------------------------------------
(* The theorems.                                                             *)

\* The inductive invariant holds in every state the scheduler reaches.
THEOREM Invariance == Spec => []SchedInv
<1>1. Init => SchedInv
  BY InitInv
<1>2. SchedInv /\ [Next]_vars => SchedInv'
  BY StepInv
<1>3. QED
  BY <1>1, <1>2, PTL DEF Spec

\* Every variable of the scheduler has its type, whatever threads do.
THEOREM TypeCorrect == Spec => []TypeOK
<1>1. SchedInv => TypeOK
  BY DEF SchedInv
<1>2. QED
  BY <1>1, Invariance, PTL

\* The thread on the processor is the one the run queue calls current
\* (run_queue_current, _switch), unless it has exited.
THEOREM CurrentIsOnCpu == Spec => []CurrentOnCpu
<1>1. SchedInv => CurrentOnCpu
  BY DEF SchedInv, Contexts, CurrentOnCpu, run_queue_current, Gone
<1>2. QED
  BY <1>1, Invariance, PTL

\* No kthread is queued twice, used after it is freed, or lost
\* (run_queue_add, _exited_kthread, kthread_join, _free_kthread).
THEOREM EveryThreadHasOneHome == Spec => []OneHome
<1>1. SchedInv => OneHome
  BY DEF SchedInv
<1>2. QED
  BY <1>1, Invariance, PTL

\* A thread whose stack canary is gone is never switched out (stack_check in
\* _arch_irq_task_switch): the switch that would do it stops the system.
THEOREM OverflowIsCaught == Spec => []OverflowCaught
<1>1. Init => OverflowCaught
  BY DEF Init, OverflowCaught
<1>2. SchedInv /\ OverflowCaught /\ [Next]_vars => OverflowCaught'
  <2> SUFFICES ASSUME SchedInv, OverflowCaught, [Next]_vars PROVE OverflowCaught'
    OBVIOUS
  <2>1. CASE UNCHANGED <<smashed, cpu, halted>>
    BY <2>1 DEF OverflowCaught
  <2>2. CASE _arch_irq_task_switch
    <3>1. ~halted /\ UNCHANGED smashed
      BY <2>2 DEF _arch_irq_task_switch, threadVars
    <3>2. CASE BugOnSwitch(run_queue_current, kthreads[run_queue_next])
      <4>1. halted' = TRUE
        BY <2>2, <3>2 DEF _arch_irq_task_switch
      <4>2. QED
        BY <4>1 DEF OverflowCaught
    <3>3. CASE ~BugOnSwitch(run_queue_current, kthreads[run_queue_next])
      <4>1. run_queue_current \notin smashed /\ run_queue_current # NULL
        BY <3>3 DEF BugOnSwitch
      <4>2. cpu = run_queue_current
        BY <3>1, <4>1 DEF SchedInv, Contexts, run_queue_current
      <4>3. smashed' = {}
        BY <3>1, <4>1, <4>2 DEF OverflowCaught
      <4>4. QED
        BY <4>3 DEF OverflowCaught
    <3>4. QED
      BY <3>2, <3>3
  <2>3. ASSUME NEW t \in Threads, Overflow(t) PROVE OverflowCaught'
    BY <2>3 DEF Overflow, OverflowCaught, At, Executing, hwVars
  <2>4. CASE smashed' \subseteq smashed /\ cpu' = cpu /\ (halted => halted')
    BY <2>4 DEF OverflowCaught
  <2>5. CASE InitIdle \/ InitYield \/ InitArm \/ TimerIRQ \/ PendSVEnter \/ PendSVExit \/ TimePasses
    BY <2>4, <2>5 DEF InitIdle, InitYield, InitArm, TimerIRQ, PendSVEnter, PendSVExit,
                      TimePasses, hwVars, threadVars, At, Executing
  <2>6. ASSUME NEW t \in Threads, ThreadStep(t), ~Overflow(t) PROVE OverflowCaught'
    BY <2>4, <2>6 DEF ThreadStep, kthread_yield, _kthread_create, NoStackPages, run_queue_add, CreateRefused, kthread_sleep,
         SleepFlag, SleepYield, SleepReturn, kthread_join, JoinTest, _exited_kthread, ExitYield,
         _free_kthread, hwVars, threadVars, At, Executing
  <2>7. QED
    BY <2>1, <2>2, <2>3, <2>5, <2>6 DEF Next, vars, hwVars, threadVars
<1>3. QED
  BY <1>1, <1>2, Invariance, PTL DEF Spec

\* PendSV leaves with the timer armed, and kthread_init is over before it is entered.
SliceArmed ==
  /\ Preemptible
  /\ mode = "tail" => timer
  /\ pc[BOOT] = "init_yield" => cpu = BOOT /\ mode = "thread" /\ ~pendsv /\ ~timer

\* If the timer does not fire in the last instructions of PendSV (LateTick), whatever
\* thread mode executes will be interrupted (_sched_next_task, TimerIRQ, PendSVExit).
THEOREM NobodyKeepsTheProcessor == LateTick = FALSE /\ Spec => []Preemptible
<1> SUFFICES ASSUME LateTick = FALSE PROVE Spec => []Preemptible
  OBVIOUS
<1>1. Init => SliceArmed
  BY SchedAssumption DEF Init, SliceArmed, Preemptible
<1>2. SchedInv /\ SliceArmed /\ [Next]_vars => SliceArmed'
  <2> SUFFICES ASSUME SchedInv, SliceArmed, [Next]_vars PROVE SliceArmed'
    OBVIOUS
  <2> USE SchedAssumption
  <2>1. CASE UNCHANGED <<mode, halted, timer, pendsv, pc, cpu>>
    BY <2>1 DEF SliceArmed, Preemptible
  <2>3. CASE InitIdle
    BY <2>3 DEF InitIdle, SliceArmed, Preemptible, SchedInv, InitPhase, TypeOK, hwVars, At,
                Executing
  <2>4. CASE InitYield \/ InitArm
    BY <2>4 DEF InitYield, InitArm, _sched_next_task, Goto, SliceArmed, Preemptible, SchedInv,
                TypeOK, At, Executing
  <2>5. CASE TimerIRQ
    BY <2>5 DEF TimerIRQ, SliceArmed, Preemptible, threadVars
  <2>6. CASE PendSVEnter
    BY <2>6 DEF PendSVEnter, SliceArmed, Preemptible, threadVars, SchedInv, InitPhase
  <2>7. CASE _arch_irq_task_switch
    BY <2>7 DEF _arch_irq_task_switch, _sched_next_task, SliceArmed, Preemptible, threadVars
  <2>8. CASE PendSVExit
    BY <2>8 DEF PendSVExit, SliceArmed, Preemptible, threadVars
  <2>9. CASE TimePasses
    BY <2>1, <2>9 DEF TimePasses, threadVars
  <2>10. ASSUME NEW t \in Threads, ThreadStep(t) PROVE SliceArmed'
    <3>1. mode = "thread" /\ ~pendsv /\ ~halted /\ cpu = t /\ UNCHANGED <<mode, timer>>
      BY <2>10 DEF ThreadStep, kthread_yield, _kthread_create, NoStackPages, run_queue_add, CreateRefused, kthread_sleep,
           SleepFlag, SleepYield, SleepReturn, kthread_join, JoinTest, _exited_kthread,
           ExitYield, Overflow, hwVars, At, Executing
    <3>2. pc[t] \notin {"init", "init_yield"}
      BY <2>10 DEF ThreadStep, kthread_yield, _kthread_create, NoStackPages, run_queue_add, CreateRefused, kthread_sleep,
           SleepFlag, SleepYield, SleepReturn, kthread_join, JoinTest, _exited_kthread,
           ExitYield, Overflow, At
    <3>3. pc[BOOT] \notin {"init", "init_yield"}
      BY <3>1, <3>2 DEF SliceArmed, SchedInv, InitPhase
    <3>4. timer
      BY <3>1, <3>3 DEF SliceArmed, Preemptible
    <3>5. pc'[BOOT] # "init_yield"
      BY <2>10, <3>3 DEF ThreadStep, kthread_yield, _kthread_create, NoStackPages, run_queue_add, CreateRefused, kthread_sleep,
           SleepFlag, SleepYield, SleepReturn, kthread_join, JoinTest, _exited_kthread, Goto,
           ExitYield, Overflow, threadVars, SchedInv, TypeOK
    <3>6. QED
      BY <3>1, <3>4, <3>5 DEF SliceArmed, Preemptible
  <2>11. QED
    BY <2>1, <2>3, <2>4, <2>5, <2>6, <2>7, <2>8, <2>9, <2>10 DEF Next, vars, hwVars, threadVars
<1>3. QED
  BY <1>1, <1>2, Invariance, PTL DEF Spec, SliceArmed

\* A sleeper is not back in thread mode before its time (kthread_sleep_ts,
\* _is_runnable, _arch_irq_task_switch).
THEOREM NoEarlyWake == Spec => SleepNotEarly
<1>1. SchedInv /\ [Next]_vars =>
        [\A t \in Threads : pc[t] = "asleep" /\ pc'[t] = "run" => now >= until[t]]_vars
  <2> SUFFICES ASSUME SchedInv, Next, NEW t \in Threads, pc[t] = "asleep", pc'[t] = "run"
               PROVE  now >= until[t]
    BY DEF vars, hwVars, threadVars
  <2>1. /\ Queued(t) /\ t \in heap
        /\ \A x \in Threads : ~Adding(x, t)
        /\ JOINABLE \notin flags[t]
    BY DEF SchedInv, PlaceOfHome, OneHome, Gone
  <2>2. SleepReturn(t)
    <3>1. CASE InitIdle \/ InitYield \/ InitArm
      BY <3>1, <2>1 DEF InitIdle, InitYield, InitArm, SchedInv, TypeOK, InitPhase, IdleSlot,
                        Goto, At
    <3>2. CASE TimerIRQ \/ PendSVEnter \/ _arch_irq_task_switch \/ PendSVExit \/ TimePasses
      BY <3>2 DEF TimerIRQ, PendSVEnter, _arch_irq_task_switch, PendSVExit, TimePasses, threadVars
    <3>3. ASSUME NEW x \in Threads, ThreadStep(x) PROVE SleepReturn(t)
      <4>1. CASE SleepReturn(x)
        BY <3>3, <4>1 DEF SleepReturn, SchedInv, TypeOK, Goto, At
      <4>2. CASE run_queue_add(x)
        BY <2>1, <4>2 DEF run_queue_add, SchedInv, TypeOK, Goto, At, Adding
      <4>3. CASE \E n \in Threads : _kthread_create(x, n)
        BY <2>1, <4>3 DEF _kthread_create, SchedInv, TypeOK, At
      <4>4. CASE JoinTest(x)
        BY <4>4 DEF JoinTest, SchedInv, TypeOK, Goto, At
      <4>5. CASE CreateRefused(x)
        BY <2>1, <4>5 DEF CreateRefused, SchedInv, TypeOK, At, Adding
      <4>6. QED
        BY <3>3, <4>1, <4>2, <4>3, <4>4, <4>5 DEF ThreadStep, kthread_yield, NoStackPages, kthread_sleep, SleepFlag,
           SleepYield, kthread_join, _exited_kthread, ExitYield, Overflow, threadVars, Goto,
           SchedInv, TypeOK
    <3>4. QED
      BY <3>1, <3>2, <3>3 DEF Next
  <2>3. cpu = t /\ mode = "thread" /\ ~pendsv /\ ~halted
    BY <2>2 DEF SleepReturn, At, Executing
  <2>4. SLEEP \notin flags[t]
    BY <2>3 DEF SchedInv, Sleeping
  <2>5. QED
    BY <2>3, <2>4 DEF SchedInv, Sleeping
<1>2. QED
  BY <1>1, Invariance, PTL DEF Spec, SleepNotEarly

=============================================================================
