-------------------------------- MODULE Sched --------------------------------
(***************************************************************************)
(* The pre-emptive scheduler of the kernel on one core: the run queue, the *)
(* life of a kthread (create, sleep, yield, join, exit), the oneshot timer *)
(* that ends a time slice and the PendSV handler that switches tasks       *)
(* (src/src/kernel/sched/sched.c, sched_sleep.c, and the ARM-M port in     *)
(* arch/arm_m and drivers/ns/nRF51822/timer).                              *)
(*                                                                         *)
(* A step of a thread is what it does between two points where it can be   *)
(* pre-empted.  SCHED_CRITICAL sections and the code between spinlock_lock *)
(* and spinlock_unlock run with interrupts off (CONFIG_UNICORE), so each   *)
(* is one step.  A pending PendSV is taken before the next instruction of  *)
(* thread mode, so a thread runs only while none is pending.               *)
(***************************************************************************)
EXTENDS Integers, FiniteSets

CONSTANTS
  Threads,   \* the struct kthread objects the heap can hold
  IDLE,      \* the idle task, kthreads[0]
  BOOT,      \* the boot task, kthreads[1]
  NULL,      \* the null pointer
  Deep,      \* the threads whose calls may nest deeper than their stack
  NSlots,    \* the length of run_queue->kthreads, 32 in the code
  MaxTime,   \* bound on the system time, in slices
  MaxSleep,  \* bound on the time a thread asks to sleep for
  LateTick   \* may the timer fire in the last instructions of PendSV?

ASSUME SchedAssumption ==
  /\ IDLE \in Threads /\ BOOT \in Threads /\ IDLE # BOOT
  /\ NULL \notin Threads
  /\ Deep \subseteq Threads \ {IDLE}
  /\ NSlots \in Nat /\ NSlots > 1
  /\ MaxTime \in Nat /\ MaxSleep \in Nat
  /\ LateTick \in BOOLEAN

VARIABLES
  kthreads,          \* run_queue->kthreads
  running,           \* run_queue->running
  flags,             \* kthread.flags, as a set
  sleep_until_time,  \* kthread.sleep_until_time
  cpu_state,         \* whose registers kthread.cpu_state holds
  heap,              \* the kthreads that are allocated, with their stacks
  smashed,           \* the kthreads whose stack canary is overwritten
  pc,                \* where each thread is
  child,             \* the handle a thread is creating or joining
  until,             \* the local system_time of kthread_sleep_ts
  cpu,               \* the thread whose registers the processor holds
  mode,              \* what the processor executes
  pendsv,            \* PendSV is pending
  timer,             \* the oneshot timer is armed
  now,               \* the time get_system_time returns
  halted             \* the kernel is in _bug() or a fault, which never return

hwVars     == <<cpu, mode, pendsv, timer, now>>
threadVars == <<pc, child, until, heap, smashed>>
queueVars  == <<kthreads, running, flags, sleep_until_time, cpu_state>>
vars       == <<hwVars, threadVars, queueVars, halted>>

Slots    == 0 .. NSlots - 1
JOINABLE == "joinable"
SLEEP    == "sleep"
Flags    == {JOINABLE, SLEEP}
Places   == {"unborn", "init", "init_yield", "init_arm", "run", "add", "refused", "sleep",
             "flagged", "asleep", "join", "exited", "dead"}

TypeOK ==
  /\ kthreads \in [Slots -> Threads \cup {NULL}]
  /\ running \in Slots
  /\ flags \in [Threads -> SUBSET Flags]
  /\ sleep_until_time \in [Threads -> Nat]
  /\ cpu_state \in [Threads -> Threads \cup {NULL}]
  /\ heap \subseteq Threads
  /\ smashed \subseteq Threads
  /\ pc \in [Threads -> Places]
  /\ child \in [Threads -> Threads \cup {NULL}]
  /\ until \in [Threads -> Nat]
  /\ cpu \in Threads \cup {NULL}
  /\ mode \in {"thread", "handler", "tail"}
  /\ pendsv \in BOOLEAN
  /\ timer \in BOOLEAN
  /\ now \in 0 .. MaxTime
  /\ halted \in BOOLEAN

-----------------------------------------------------------------------------
(* The run queue.                                                            *)

Queued(t) == \E s \in Slots : kthreads[s] = t

run_queue_current == kthreads[running]

\* Mutants: the clock is not compared; a sleeper is not looked at.
_is_runnable_AnyTime(t) == t # NULL /\ (flags[t] = {} \/ SLEEP \in flags[t])
_is_runnable_NoWake(t)  == t # NULL /\ flags[t] = {}

\* No flag is set, or only time stands between the thread and the processor.
_is_runnable(t) ==
  /\ t # NULL
  /\ \/ flags[t] = {}
     \/ SLEEP \in flags[t] /\ now >= sleep_until_time[t]

\* Mutant: every search starts at the first slot.
Distance_FromStart(s) == s

\* How many slots run_queue_next looks at before slot s.
Distance(s) == (s - running + NSlots - 1) % NSlots

\* The first runnable thread after the current slot, the current one last;
\* slot 0, the idle task, only if there is none.
run_queue_next ==
  LET runnable == {s \in Slots \ {0} : _is_runnable(kthreads[s])}
  IN  IF runnable = {} THEN 0
      ELSE CHOOSE s \in runnable : \A r \in runnable : Distance(s) <= Distance(r)

\* The slot at which run_queue_add and run_queue_remove stop searching for x.
IsFirst(s, x) == kthreads[s] = x /\ \A r \in Slots : kthreads[r] = x => s <= r

-----------------------------------------------------------------------------
(* kthread_init, from the point where the boot task sits in slot 1.          *)

\* Mutant: the heap does not zero what it hands out.
Init_NotZeroed ==
  /\ kthreads = [s \in Slots |-> IF s = 1 THEN BOOT ELSE NULL]
  /\ running = 1
  /\ flags = [t \in Threads |-> {"garbage"}]
  /\ sleep_until_time = [t \in Threads |-> 0]
  /\ cpu_state = [t \in Threads |-> NULL]
  /\ heap = {BOOT} /\ smashed = {}
  /\ pc = [t \in Threads |-> IF t = BOOT THEN "init" ELSE "unborn"]
  /\ child = [t \in Threads |-> NULL]
  /\ until = [t \in Threads |-> 0]
  /\ cpu = BOOT /\ mode = "thread" /\ pendsv = FALSE /\ timer = FALSE
  /\ now = 0 /\ halted = FALSE

Init ==
  /\ kthreads = [s \in Slots |-> IF s = 1 THEN BOOT ELSE NULL]
  /\ running = 1
  /\ flags = [t \in Threads |-> {}]
  /\ sleep_until_time = [t \in Threads |-> 0]
  /\ cpu_state = [t \in Threads |-> NULL]
  /\ heap = {BOOT}
  /\ smashed = {}
  /\ pc = [t \in Threads |-> IF t = BOOT THEN "init" ELSE "unborn"]
  /\ child = [t \in Threads |-> NULL]
  /\ until = [t \in Threads |-> 0]
  /\ cpu = BOOT
  /\ mode = "thread"
  /\ pendsv = FALSE
  /\ timer = FALSE
  /\ now = 0
  /\ halted = FALSE

\* Thread t executes its next instruction.
Executing(t) ==
  /\ ~halted
  /\ mode = "thread" /\ ~pendsv
  /\ cpu = t

At(t, place) == Executing(t) /\ pc[t] = place
Goto(t, place) == pc' = [pc EXCEPT ![t] = place]

\* The idle task is created straight into its slot; a failure is a bug.
InitIdle ==
  /\ At(BOOT, "init")
  /\ \/ /\ halted' = TRUE
        /\ UNCHANGED <<kthreads, cpu_state, heap, pc>>
     \/ /\ kthreads' = [kthreads EXCEPT ![0] = IDLE]
        /\ cpu_state' = [cpu_state EXCEPT ![IDLE] = IDLE]
        /\ heap' = heap \cup {IDLE}
        /\ pc' = [pc EXCEPT ![BOOT] = "init_yield", ![IDLE] = "run"]
        /\ UNCHANGED halted
  /\ UNCHANGED <<hwVars, running, flags, sleep_until_time, smashed, child, until>>

\* The boot task yields to itself, to fill its empty kthread.
InitYield ==
  /\ At(BOOT, "init_yield")
  /\ pendsv' = TRUE
  /\ Goto(BOOT, "init_arm")
  /\ UNCHANGED <<cpu, mode, timer, now, queueVars, child, until, heap, smashed, halted>>

\* Mutant: the oneshot is left as it is.
_sched_next_task_NotArmed == timer' = timer

_sched_next_task == timer' = TRUE

InitArm ==
  /\ At(BOOT, "init_arm")
  /\ _sched_next_task
  /\ Goto(BOOT, "run")
  /\ UNCHANGED <<cpu, mode, pendsv, now, queueVars, child, until, heap, smashed, halted>>

-----------------------------------------------------------------------------
(* What threads do.  The idle task only waits for interrupts.                *)

kthread_yield(t) ==
  /\ At(t, "run") /\ t # IDLE
  /\ pendsv' = TRUE
  /\ UNCHANGED <<cpu, mode, timer, now, queueVars, threadVars, halted>>

\* _kthread_create: a zeroed kthread n with a stack and a first context.  (When
\* kmalloc fails nothing changes.)
_kthread_create(t, n) ==
  /\ At(t, "run") /\ t # IDLE
  /\ n \notin heap
  /\ heap' = heap \cup {n}
  /\ smashed' = smashed \ {n}
  /\ flags' = [flags EXCEPT ![n] = {}]
  /\ sleep_until_time' = [sleep_until_time EXCEPT ![n] = 0]
  /\ cpu_state' = [cpu_state EXCEPT ![n] = n]
  /\ child' = [child EXCEPT ![t] = n]
  /\ pc' = [pc EXCEPT ![t] = "add", ![n] = "run"]
  /\ UNCHANGED <<hwVars, kthreads, running, until, halted>>

\* When there is no page for a stack, stack_alloc fills it before it looks at the
\* null stack_base: the first page is flash, and the write a hard fault.
NoStackPages(t) ==
  /\ At(t, "run") /\ t # IDLE
  /\ halted' = TRUE
  /\ UNCHANGED <<hwVars, threadVars, queueVars>>

\* Mutant: only the stack is freed.
_free_kthread_Leak(n) ==
  /\ heap' = heap
  /\ smashed' = smashed \ {n}
  /\ cpu_state' = [cpu_state EXCEPT ![n] = NULL]

_free_kthread(n) ==
  /\ heap' = heap \ {n}
  /\ smashed' = smashed \ {n}
  /\ cpu_state' = [cpu_state EXCEPT ![n] = NULL]

\* The first free slot, in a critical section; kthread_create then returns, or finds that there
\* was none.
run_queue_add(t) ==
  /\ At(t, "add")
  /\ \/ \E s \in Slots :
          /\ IsFirst(s, NULL)
          /\ kthreads' = [kthreads EXCEPT ![s] = child[t]]
          /\ child' = [child EXCEPT ![t] = NULL]
          /\ Goto(t, "run")
     \/ /\ ~Queued(NULL)
        /\ Goto(t, "refused")
        /\ UNCHANGED <<kthreads, child>>
  /\ UNCHANGED <<hwVars, running, flags, sleep_until_time, cpu_state, until, heap, smashed, halted>>

\* It frees the thread outside of the lock, whatever slots have become free since.
CreateRefused(t) ==
  LET n == child[t]
  IN  /\ At(t, "refused")
      /\ _free_kthread(n)
      /\ pc' = [pc EXCEPT ![t] = "run", ![n] = "unborn"]
      /\ child' = [child EXCEPT ![t] = NULL]
      /\ UNCHANGED <<hwVars, kthreads, running, flags, sleep_until_time, until, halted>>

\* kthread_sleep_ts computes the wake-up time outside the critical section.
kthread_sleep(t, d) ==
  /\ At(t, "run") /\ t # IDLE
  /\ now + d <= MaxTime
  /\ until' = [until EXCEPT ![t] = now + d]
  /\ Goto(t, "sleep")
  /\ UNCHANGED <<hwVars, queueVars, child, heap, smashed, halted>>

\* SCHED_CRITICAL of kthread_sleep_ts.
SleepFlag(t) ==
  /\ At(t, "sleep")
  /\ LET thr == run_queue_current
     IN  /\ flags' = [x \in Threads |->
                        IF x = thr THEN flags[x] \cup {SLEEP} ELSE flags[x]]
         /\ sleep_until_time' = [x \in Threads |->
                        IF x = thr THEN until[t] ELSE sleep_until_time[x]]
  /\ Goto(t, "flagged")
  /\ UNCHANGED <<hwVars, kthreads, running, cpu_state, child, until, heap, smashed, halted>>

SleepYield(t) ==
  /\ At(t, "flagged")
  /\ pendsv' = TRUE
  /\ Goto(t, "asleep")
  /\ UNCHANGED <<cpu, mode, timer, now, queueVars, child, until, heap, smashed, halted>>

SleepReturn(t) ==
  /\ At(t, "asleep")
  /\ until' = [until EXCEPT ![t] = 0]
  /\ Goto(t, "run")
  /\ UNCHANGED <<hwVars, queueVars, child, heap, smashed, halted>>

\* A thread calls kthread_join with a handle kthread_create returned.
kthread_join(t, h) ==
  /\ At(t, "run") /\ t # IDLE
  /\ h \in heap \ {t, IDLE, BOOT}
  /\ Queued(h) \/ JOINABLE \in flags[h]
  /\ child' = [child EXCEPT ![t] = h]
  /\ Goto(t, "join")
  /\ UNCHANGED <<hwVars, queueVars, until, heap, smashed, halted>>

\* One turn of its loop: free the thread that has exited, or yield.
JoinTest(t) ==
  /\ At(t, "join")
  /\ IF JOINABLE \in flags[child[t]]
     THEN /\ _free_kthread(child[t])
          /\ child' = [child EXCEPT ![t] = NULL]
          /\ Goto(t, "run")
          /\ UNCHANGED pendsv
     ELSE /\ pendsv' = TRUE
          /\ UNCHANGED <<heap, smashed, cpu_state, child, pc>>
  /\ UNCHANGED <<cpu, mode, timer, now, kthreads, running, flags, sleep_until_time,
                 until, halted>>

\* The start routine returns into _exited_kthread.
_exited_kthread(t) ==
  /\ At(t, "run") /\ t \notin {IDLE, BOOT}
  /\ LET c == run_queue_current
     IN  /\ kthreads' = [s \in Slots |-> IF IsFirst(s, c) THEN NULL ELSE kthreads[s]]
         /\ flags' = [x \in Threads |->
                        IF x = c THEN flags[x] \cup {JOINABLE} ELSE flags[x]]
  /\ halted' = (running = 0)
  /\ Goto(t, "exited")
  /\ UNCHANGED <<hwVars, running, sleep_until_time, cpu_state, child, until, heap, smashed>>

\* Its last yield, and the _BUG() that waits for a thread that comes back.
ExitYield(t) ==
  /\ Executing(t) /\ pc[t] \in {"exited", "dead"}
  /\ pendsv' = (pc[t] = "exited")
  /\ halted' = (pc[t] = "dead")
  /\ Goto(t, "dead")
  /\ UNCHANGED <<cpu, mode, timer, now, queueVars, child, until, heap, smashed>>

\* The thread's stack grows over its canary.
Overflow(t) ==
  /\ At(t, "run") /\ t \in Deep
  /\ t \notin smashed
  /\ smashed' = smashed \cup {t}
  /\ UNCHANGED <<hwVars, queueVars, pc, child, until, heap, halted>>

-----------------------------------------------------------------------------
(* Interrupts.                                                               *)

\* The timer's _IRQ: stop the timer and request PendSV.  It outranks PendSV.
TimerIRQ ==
  /\ ~halted
  /\ timer
  /\ mode = "tail" => LateTick
  /\ timer' = FALSE
  /\ pendsv' = TRUE
  /\ UNCHANGED <<cpu, mode, now, queueVars, threadVars, halted>>

PendSVEnter ==
  /\ ~halted
  /\ mode = "thread" /\ pendsv
  /\ mode' = "handler"
  /\ pendsv' = FALSE
  /\ UNCHANGED <<cpu, timer, now, queueVars, threadVars, halted>>

\* Mutants: the context is loaded whether or not the thread changes, before it is
\* saved; the canary checked is that of the thread being switched in.
_switch_LoadFirst(c, n) ==
  /\ cpu' = cpu_state[n]
  /\ cpu_state' = [cpu_state EXCEPT ![c] = cpu]
BugOnSwitch_WrongStack(c, n) == n = NULL \/ c = NULL \/ n \in smashed

\* Save the registers in c; load those of n if it is another thread.
_switch(c, n) ==
  /\ cpu_state' = [cpu_state EXCEPT ![c] = cpu]
  /\ cpu' = IF c # n THEN cpu_state[n] ELSE cpu

\* _BUG_ON(!n), _BUG_ON(!c), and the canary of the thread being put to sleep.
BugOnSwitch(c, n) == n = NULL \/ c = NULL \/ c \in smashed

\* _arch_irq_task_switch: choose, check, swap the contexts, arm the timer.
_arch_irq_task_switch ==
  /\ ~halted
  /\ mode = "handler"
  /\ LET c == run_queue_current
         n == kthreads[run_queue_next]
     IN  /\ running' = run_queue_next
         /\ flags' = [t \in Threads |-> IF t = n /\ run_queue_next # 0
                                         THEN flags[t] \ {SLEEP} ELSE flags[t]]
         /\ \/ /\ BugOnSwitch(c, n)
               /\ halted' = TRUE
               /\ UNCHANGED <<cpu_state, cpu, timer, mode>>
            \/ /\ ~BugOnSwitch(c, n)
               /\ _switch(c, n)
               /\ _sched_next_task
               /\ mode' = "tail"
               /\ UNCHANGED halted
  /\ UNCHANGED <<pendsv, now, kthreads, sleep_until_time, threadVars>>

\* The handler writes PENDSVCLR and returns.
PendSVExit ==
  /\ ~halted
  /\ mode = "tail"
  /\ pendsv' = FALSE
  /\ mode' = "thread"
  /\ UNCHANGED <<cpu, timer, now, queueVars, threadVars, halted>>

TimePasses ==
  /\ ~halted
  /\ now < MaxTime
  /\ now' = now + 1
  /\ UNCHANGED <<cpu, mode, pendsv, timer, queueVars, threadVars, halted>>

ThreadStep(t) ==
  \/ kthread_yield(t)
  \/ \E n \in Threads : _kthread_create(t, n)
  \/ NoStackPages(t)
  \/ run_queue_add(t)
  \/ CreateRefused(t)
  \/ \E d \in 0 .. MaxSleep : kthread_sleep(t, d)
  \/ SleepFlag(t)
  \/ SleepYield(t)
  \/ SleepReturn(t)
  \/ \E h \in Threads : kthread_join(t, h)
  \/ JoinTest(t)
  \/ _exited_kthread(t)
  \/ ExitYield(t)
  \/ Overflow(t)

Next ==
  \/ InitIdle
  \/ InitYield
  \/ InitArm
  \/ \E t \in Threads : ThreadStep(t)
  \/ TimerIRQ
  \/ PendSVEnter
  \/ _arch_irq_task_switch
  \/ PendSVExit
  \/ TimePasses

\* The clock runs, an armed timer fires, and the processor executes a handler
\* it has entered and takes an exception that stays pending.
Fairness ==
  /\ WF_vars(TimePasses)
  /\ WF_vars(TimerIRQ)
  /\ WF_vars(PendSVEnter)
  /\ WF_vars(_arch_irq_task_switch)
  /\ WF_vars(PendSVExit)

Spec     == Init /\ [][Next]_vars
FairSpec == Spec /\ Fairness

-----------------------------------------------------------------------------
(* Properties.                                                               *)

\* The thread whose registers the processor holds is the one run_queue_current
\* returns, so a critical section sets the flags of the thread that is in it:
\* the slot `running' and the loaded context never disagree, whatever is created,
\* put to sleep or switched (_arch_irq_task_switch, _switch, kthread_sleep_ts).
\* Only a thread on its way out has no slot.
CurrentOnCpu ==
  ~halted => /\ cpu \in Threads
             /\ pc[cpu] \notin {"exited", "dead"} => run_queue_current = cpu

Adding(x, t) == pc[x] \in {"add", "refused"} /\ child[x] = t

\* A kthread is never in two slots, and its memory is allocated exactly while it is
\* queued, in the hands of the kthread_create that made it, or waiting to be joined: no
\* slot dangles and no thread is lost when creators race for the last slots.
OneHome ==
  /\ \A s, r \in Slots : kthreads[s] = kthreads[r] /\ kthreads[s] # NULL => s = r
  /\ \A t, x \in Threads : Adding(x, t) => t \in heap /\ ~Queued(t)
  /\ \A t, x, y \in Threads : Adding(x, t) /\ Adding(y, t) => x = y
  /\ \A t \in Threads : Queued(t) => t \in heap
  /\ \A t \in heap : JOINABLE \in flags[t] \/ Queued(t) \/ \E x \in Threads : Adding(x, t)

\* A thread that blew its stack never gets off the processor: the switch that would put
\* it to sleep stops the system (stack_check in _arch_irq_task_switch).
OverflowCaught == ~halted => smashed \subseteq {cpu}

\* Once the scheduler has started, whatever thread mode executes will be interrupted: the
\* timer is armed or PendSV is pending.  A path of the handler or of kthread_init that
\* left neither would let one thread keep the processor for ever.
Preemptible ==
  (mode = "thread" /\ ~halted /\ pc[BOOT] \notin {"init", "init_yield"}) => timer \/ pendsv

\* kthread_sleep_ts returns no earlier than the time it was asked to sleep until, however
\* the thread is pre-empted between reading the clock, setting its flag and yielding.
SleepNotEarly ==
  [][\A t \in Threads : pc[t] = "asleep" /\ pc'[t] = "run" => now >= until[t]]_vars

\* Round robin starves nobody: a queued thread with no flag set gets the processor.
RunnableRuns ==
  \A t \in Threads \ {IDLE} : (Queued(t) /\ flags[t] = {}) ~> (cpu = t \/ halted)

\* A sleeper is woken, even when every thread sleeps and only the idle task runs.
SleepersWake ==
  \A t \in Threads \ {IDLE} : (SLEEP \in flags[t]) ~> (SLEEP \notin flags[t] \/ halted)

\* The assertion _BUG_ON(!c) of _arch_irq_task_switch: the thread being switched out is
\* in the run queue.
SwitchHasCurrent == mode = "handler" => run_queue_current # NULL
=============================================================================
