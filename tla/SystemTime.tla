----------------------------- MODULE SystemTime -----------------------------
(***************************************************************************)
(* The system clock (src/src/kernel/timer/system_time.c): seconds and      *)
(* nanoseconds since boot, kept from a free-running hardware counter that  *)
(* wraps around.  Time is only brought up to date when somebody asks.      *)
(*                                                                         *)
(* Threads ask with interrupts off and interrupt handlers ask from         *)
(* heartbeat_update, at the highest priority: both run get_system_time     *)
(* in one step.  _arch_irq_task_switch asks from PendSV, where             *)
(* spinlock_lock_irqsave does nothing (spinlock.h of arm_m) and which      *)
(* every other interrupt may pre-empt: that call is cut where a second     *)
(* one could get in.  `elapsed' is the true time, which no code can see.   *)
(***************************************************************************)
EXTENDS Integers

CONSTANTS
  Freq,        \* sync_freq: ticks of the counter in a second
  Period,      \* the number of values of the counter
  Wrap,        \* what the driver's wrap() answers
  Nano,        \* nanoseconds in a second, 1000000000 in the code
  MaxGap,      \* the most ticks between two calls of get_system_time
  MaxElapsed,  \* bound on the true time, in ticks
  Nested       \* may an interrupt handler run inside the call of PendSV?

ASSUME ClockAssumption ==
  /\ Freq \in Nat \ {0} /\ Period \in Nat /\ Nano \in Nat
  /\ Freq < Nano
  /\ Wrap \in {Period - 1, Period}
  /\ MaxGap \in Nat /\ MaxGap + Freq < Period
  /\ MaxElapsed \in Nat
  /\ Nested \in BOOLEAN

VARIABLES
  elapsed,    \* ticks since start_system_time
  start,      \* the counter at start_system_time
  gap,        \* ticks since the counter was last read
  base_ts,    \* base_ts.seconds
  base_tick,  \* base_tick
  curr_ts,    \* curr_ts
  pendsv,     \* where PendSV is in get_system_time
  tick,       \* its local copy of the counter
  add         \* its local copies in _forward_time

vars == <<elapsed, start, gap, base_ts, base_tick, curr_ts, pendsv, tick, add>>

TypeOK ==
  /\ elapsed \in 0 .. MaxElapsed
  /\ start \in 0 .. Period - 1
  /\ gap \in 0 .. MaxGap
  /\ base_ts \in Nat
  /\ base_tick \in 0 .. Wrap
  /\ curr_ts \in [seconds : Nat, nanoseconds : 0 .. Nano - 1]
  /\ pendsv \in {"out", "read", "rebase"}
  /\ tick \in 0 .. Period - 1
  /\ add \in Nat

sync_freq_factor == Nano \div Freq

\* The driver's cur().
cur == (start + elapsed) % Period

\* start_system_time: the clock starts at zero, wherever the counter is.
Init ==
  /\ start \in 0 .. Period - 1
  /\ base_tick = start
  /\ base_ts = 0
  /\ curr_ts = [seconds |-> 0, nanoseconds |-> 0]
  /\ elapsed = 0 /\ gap = 0
  /\ pendsv = "out" /\ tick = 0 /\ add = 0

-----------------------------------------------------------------------------
(* _forward_time and _looped_time.                                           *)

\* Mutants: a full second stays in the fraction; the wrapped part is left out; the
\* base does not wrap, or does not move.
addseconds_TooFew(ticks)       == (ticks - 1) \div Freq
Progress_NoWrap(t, base)       == IF t > base THEN t - base ELSE t
Rebased_NoWrap(base, rebase)   == base + rebase
Rebased_NotMoved(base, rebase) == base

addseconds(ticks) == ticks \div Freq

\* The ticks from base to t, at most one wrap later.
Progress(t, base) == IF t > base THEN t - base ELSE t + (Wrap - base)

\* Where base_tick goes, modulo the wrap-around.
Rebased(base, rebase) ==
  IF rebase <= Wrap - base THEN base + rebase ELSE rebase - (Wrap - base) - 1

\* The time `seconds' and the rest of `ticks' make.
Timespec(seconds, ticks) ==
  [seconds     |-> seconds,
   nanoseconds |-> (ticks - addseconds(ticks) * Freq) * sync_freq_factor]

compare_system_time(ts0, ts1) ==
  CASE ts0.seconds < ts1.seconds -> -1
    [] ts0.seconds > ts1.seconds -> 1
    [] OTHER -> CASE ts0.nanoseconds < ts1.nanoseconds -> -1
                  [] ts0.nanoseconds > ts1.nanoseconds -> 1
                  [] OTHER -> 0

-----------------------------------------------------------------------------
\* get_system_time in one step: from a thread, or from an interrupt handler.
get_system_time ==
  /\ pendsv = "out" \/ Nested
  /\ IF cur = base_tick
     THEN UNCHANGED <<base_ts, base_tick, curr_ts>>
     ELSE LET ticks == Progress(cur, base_tick)
          IN  /\ base_ts' = base_ts + addseconds(ticks)
              /\ curr_ts' = Timespec(base_ts', ticks)
              /\ base_tick' = Rebased(base_tick, addseconds(ticks) * Freq)
  /\ gap' = 0
  /\ UNCHANGED <<elapsed, start, pendsv, tick, add>>

\* get_system_time from PendSV: the counter is read,
PendSVRead ==
  /\ pendsv = "out"
  /\ tick' = cur
  /\ gap' = 0
  /\ pendsv' = "read"
  /\ UNCHANGED <<elapsed, start, base_ts, base_tick, curr_ts, add>>

\* then compared with base_tick, and the seconds that have passed are added,
PendSVForward ==
  /\ pendsv = "read"
  /\ IF tick = base_tick
     THEN /\ pendsv' = "out"
          /\ UNCHANGED <<base_ts, curr_ts, add>>
     ELSE LET ticks == Progress(tick, base_tick)
          IN  /\ base_ts' = base_ts + addseconds(ticks)
              /\ curr_ts' = Timespec(base_ts', ticks)
              /\ add' = addseconds(ticks) * Freq
              /\ pendsv' = "rebase"
  /\ UNCHANGED <<elapsed, start, gap, base_tick, tick>>

\* and base_tick is moved by as much.
PendSVRebase ==
  /\ pendsv = "rebase"
  /\ base_tick' = Rebased(base_tick, add)
  /\ pendsv' = "out"
  /\ UNCHANGED <<elapsed, start, gap, base_ts, curr_ts, tick, add>>

\* The counter runs.  Somebody asks for the time often enough.
Tick ==
  /\ elapsed < MaxElapsed /\ gap < MaxGap
  /\ elapsed' = elapsed + 1
  /\ gap' = gap + 1
  /\ UNCHANGED <<start, base_ts, base_tick, curr_ts, pendsv, tick, add>>

Next ==
  \/ get_system_time
  \/ PendSVRead
  \/ PendSVForward
  \/ PendSVRebase
  \/ Tick

Spec == Init /\ [][Next]_vars

-----------------------------------------------------------------------------
(* Properties.                                                               *)

\* The clock tracks the time since boot (the first lines of system_time.c): it is
\* never ahead of it, however often the counter has wrapped.
NeverAhead ==
  (curr_ts.seconds * Nano + curr_ts.nanoseconds) * Freq <= elapsed * Nano

\* Time never runs backwards for those who compare two readings (compare_system_time),
\* across wrap-arounds and whoever made the readings.
Monotone == [][compare_system_time(curr_ts', curr_ts) >= 0]_vars

\* A reading is at most one tick late: no wrap-around is missed, and no tick gets lost for
\* good (_looped_time leaves one out, the next reading has it again).
Fresh ==
  [][get_system_time /\ pendsv = "out" =>
       curr_ts'.seconds * Freq + curr_ts'.nanoseconds \div sync_freq_factor >= elapsed - 1]_vars

\* Between two readings base_ts and base_tick name one point of the counter's past, less
\* than a period ago: the next reading can tell whether the counter has wrapped since.
BaseExact ==
  pendsv = "out" =>
    /\ (start + base_ts * Freq) % Period = base_tick
    /\ base_ts * Freq <= elapsed
    /\ elapsed - base_ts * Freq < Period
=============================================================================
