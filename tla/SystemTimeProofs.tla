--------------------------- MODULE SystemTimeProofs ---------------------------
(***************************************************************************)
(* Theorems about the system clock for every frequency and period of the   *)
(* hardware counter, and every pattern of calls that is frequent enough.   *)
(***************************************************************************)
EXTENDS SystemTime, TLAPS

\* What division leaves: the facts about \div and % that the others rest on.
LEMMA DivMod ==
  ASSUME NEW x \in Nat, NEW p \in Nat \ {0}
  PROVE  /\ x \div p \in Nat /\ x % p \in 0 .. p - 1
         /\ x = p * (x \div p) + (x % p)
  OBVIOUS

\* Two points of the counter's past less than a period apart: their difference can be
\* read off their counter values.
LEMMA CounterDistance ==
  ASSUME NEW x \in Nat, NEW y \in Nat, NEW p \in Nat \ {0}, x <= y, y - x < p
  PROVE  y - x = IF y % p >= x % p THEN (y % p) - (x % p) ELSE (y % p) - (x % p) + p
<1> DEFINE qx == x \div p
           qy == y \div p
<1>1. /\ qx \in Nat /\ x % p \in 0 .. p - 1 /\ x = p * qx + (x % p)
      /\ qy \in Nat /\ y % p \in 0 .. p - 1 /\ y = p * qy + (y % p)
  BY DivMod
<1> HIDE DEF qx, qy
<1>2. CASE qy = qx
  BY <1>1, <1>2
<1>3. CASE qy = qx + 1
  <2>1. p * qy = p * qx + p
    BY <1>1, <1>3
  <2>2. QED
    BY <1>1, <2>1
<1>4. CASE qy < qx
  <2>1. PICK k \in Nat : qx = qy + 1 + k
    <3>1. qx = qy + 1 + (qx - qy - 1) /\ qx - qy - 1 \in Nat
      BY <1>1, <1>4
    <3>2. QED
      BY <3>1
  <2>2. p * qx = p * qy + p + p * k /\ p * k >= 0
    BY <1>1, <2>1
  <2>3. QED
    BY <1>1, <2>2
<1>5. CASE qy > qx + 1
  <2>1. PICK k \in Nat : qy = qx + 2 + k
    <3>1. qy = qx + 2 + (qy - qx - 2) /\ qy - qx - 2 \in Nat
      BY <1>1, <1>5
    <3>2. QED
      BY <3>1
  <2>2. p * qy = p * qx + p + p + p * k /\ p * k >= 0
    BY <1>1, <2>1
  <2>3. QED
    BY <1>1, <2>2
<1>6. QED
  BY <1>1, <1>2, <1>3, <1>4, <1>5

\* Distinct products of one factor keep the order of the others.
LEMMA ProductOrder ==
  ASSUME NEW x \in Nat, NEW y \in Nat, NEW f \in Nat, x <= y
  PROVE  x * f <= y * f
<1>1. PICK k \in Nat : y = x + k
  <2>1. y = x + (y - x) /\ y - x \in Nat
    OBVIOUS
  <2>2. QED
    BY <2>1
<1>2. y * f = x * f + k * f /\ k * f >= 0 /\ x * f \in Int /\ k * f \in Int
  BY <1>1
<1>3. QED
  BY <1>2

-----------------------------------------------------------------------------
(* The inductive invariant.                                                  *)

Sampled == elapsed - gap
Point   == base_ts * Freq

\* Where base_tick is, or is about to be put.
Base == IF pendsv = "rebase" THEN Rebased(base_tick, add) ELSE base_tick

\* What a call that reads t adds to the point base_tick is at b for.
Reading(b, t) == IF t = b THEN 0 ELSE Progress(t, b)

\* base_tick is the value the counter had at base_ts seconds, at most a second before it
\* was last read; curr_ts is no later than that reading.
ClockInv ==
  /\ TypeOK
  /\ gap <= elapsed
  /\ (start + Point) % Period = Base
  /\ Point <= Sampled
  /\ Sampled - Point <= Freq + (IF pendsv = "read" THEN MaxGap ELSE 0)
  /\ pendsv = "read" => tick = (start + Sampled) % Period
  /\ \E r \in 0 .. Freq - 1 :
       /\ curr_ts = [seconds |-> base_ts, nanoseconds |-> r * sync_freq_factor]
       /\ r <= Reading(Base, (start + Sampled) % Period)

\* The nanoseconds of less than a second of ticks are less than a second.
LEMMA Factor ==
  /\ sync_freq_factor \in Nat \ {0}
  /\ sync_freq_factor * Freq <= Nano
  /\ \A r \in 0 .. Freq - 1 : r * sync_freq_factor \in 0 .. Nano - 1
<1> DEFINE f == sync_freq_factor
<1>1. /\ f \in Nat /\ Nano % Freq \in 0 .. Freq - 1
      /\ Nano = Freq * f + (Nano % Freq)
  BY DivMod, ClockAssumption DEF sync_freq_factor
<1>2. f # 0
  <2>1. SUFFICES ASSUME f = 0 PROVE FALSE
    OBVIOUS
  <2>2. Freq * f = 0
    BY <2>1, ClockAssumption
  <2>3. QED
    BY <1>1, <2>2, ClockAssumption
<1> HIDE DEF f
<1>3. f * Freq = Freq * f /\ f * Freq <= Nano
  BY <1>1, ClockAssumption
<1>4. ASSUME NEW r \in 0 .. Freq - 1 PROVE r * f \in 0 .. Nano - 1
  <2>1. (r + 1) * f <= Freq * f
    BY <1>1, ProductOrder, ClockAssumption
  <2>2. (r + 1) * f = r * f + f /\ r * f \in Nat
    BY <1>1
  <2>3. r * f + f <= Nano
    BY <1>1, <1>3, <2>1, <2>2, ClockAssumption
  <2> DEFINE u == r * f
  <2>4. u \in Nat /\ u + f <= Nano
    BY <2>2, <2>3
  <2> HIDE DEF u
  <2>5. u \in 0 .. Nano - 1
    BY <1>1, <1>2, <2>4, ClockAssumption
  <2>6. QED
    BY <2>5 DEF u
<1>5. QED
  BY <1>1, <1>2, <1>3, <1>4 DEF f

\* The whole seconds of a number of ticks.
LEMMA WholeSeconds ==
  ASSUME NEW ticks \in Nat
  PROVE  /\ addseconds(ticks) \in Nat /\ addseconds(ticks) * Freq \in Nat
         /\ ticks - addseconds(ticks) * Freq \in 0 .. Freq - 1
<1> DEFINE q == addseconds(ticks)
<1>1. q \in Nat /\ ticks % Freq \in 0 .. Freq - 1 /\ ticks = Freq * q + (ticks % Freq)
  BY DivMod, ClockAssumption DEF addseconds
<1> HIDE DEF q
<1>2. q * Freq = Freq * q /\ q * Freq \in Nat
  BY <1>1, ClockAssumption
<1>3. q \in Nat /\ q * Freq \in Nat /\ ticks - q * Freq \in 0 .. Freq - 1
  BY <1>1, <1>2, ClockAssumption
<1>4. QED
  BY <1>3 DEF q

\* The same for two points counted from the value s of the counter.
LEMMA Between ==
  ASSUME NEW s \in Nat, NEW p \in Nat, NEW x \in Nat, NEW n \in Nat \ {0},
         p <= x, x - p < n
  PROVE  x - p = IF (s + x) % n >= (s + p) % n
                 THEN ((s + x) % n) - ((s + p) % n)
                 ELSE ((s + x) % n) - ((s + p) % n) + n
<1> DEFINE u == s + p
           v == s + x
<1>1. u \in Nat /\ v \in Nat /\ u <= v /\ v - u < n /\ v - u = x - p
  OBVIOUS
<1>2. v - u = IF v % n >= u % n THEN (v % n) - (u % n) ELSE (v % n) - (u % n) + n
  <2> HIDE DEF u, v
  <2>1. u \in Nat /\ v \in Nat /\ u <= v /\ v - u < n
    BY <1>1
  <2>2. QED
    BY <2>1, CounterDistance
<1>3. QED
  BY <1>1, <1>2, Zenon

\* _forward_time and _looped_time: the seconds and the base move together, to a point at
\* most a second before the counter was read, and the rest is at most a tick short.
LEMMA ForwardTime ==
  ASSUME Wrap = Period - 1,
         NEW s \in 0 .. Period - 1, NEW p \in Nat, NEW x \in Nat,
         p <= x, x - p < Period, (s + x) % Period # (s + p) % Period
  PROVE  LET b     == (s + p) % Period
             t     == (s + x) % Period
             ticks == Progress(t, b)
             a     == addseconds(ticks) * Freq
             r     == ticks - a
         IN  /\ ticks \in Nat /\ a \in Nat
             /\ (s + (p + a)) % Period = Rebased(b, a)
             /\ p + a <= x
             /\ r \in 0 .. Freq - 1
             /\ x - (p + a) \in {r, r + 1}
             /\ r <= Reading(Rebased(b, a), t)
<1> DEFINE b     == (s + p) % Period
           t     == (s + x) % Period
           ticks == Progress(t, b)
           a     == addseconds(ticks) * Freq
           r     == ticks - a
<1>0. s \in Nat /\ Period \in Nat \ {0}
  BY ClockAssumption
<1>1. b \in 0 .. Period - 1 /\ t \in 0 .. Period - 1 /\ t # b
  <2>1. s + p \in Nat /\ s + x \in Nat
    BY <1>0
  <2>2. QED
    BY <1>0, <2>1, DivMod
<1>2. x - p = IF t >= b THEN t - b ELSE t - b + Period
  BY <1>0, Between
<1> HIDE DEF b, t
<1>3. ticks \in Nat /\ ticks = IF t >= b THEN x - p ELSE x - p - 1
  BY <1>0, <1>1, <1>2 DEF Progress
<1>4. a \in Nat /\ r \in 0 .. Freq - 1
  BY <1>3, WholeSeconds
<1> HIDE DEF a
<1>5. p + a <= x /\ x - (p + a) \in {r, r + 1}
  BY <1>1, <1>2, <1>3, <1>4
<1>6. PICK e \in Nat : e = p + a /\ p <= e /\ e <= x /\ e - p < Period /\ x - e < Period
  BY <1>0, <1>4, <1>5
<1>7. (s + e) % Period = Rebased(b, a) /\ Rebased(b, a) \in 0 .. Period - 1
  <2> DEFINE c == (s + e) % Period
  <2>1. c \in 0 .. Period - 1
    <3>1. s + e \in Nat
      BY <1>0
    <3>2. QED
      BY <1>0, <3>1, DivMod
  <2>2. e - p = IF c >= b THEN c - b ELSE c - b + Period
    <3>1. p <= e /\ e - p < Period
      BY <1>6
    <3>2. QED
      BY <1>0, <3>1, Between DEF b
  <2> HIDE DEF c
  <2>3. c = Rebased(b, a)
    BY <1>0, <1>1, <1>4, <1>6, <2>1, <2>2 DEF Rebased
  <2>4. QED
    BY <2>1, <2>3 DEF c
<1>8. r <= Reading(Rebased(b, a), t)
  <2>1. x - e = IF t >= (s + e) % Period THEN t - ((s + e) % Period)
                                         ELSE t - ((s + e) % Period) + Period
    <3>1. e <= x /\ x - e < Period
      BY <1>6
    <3>2. QED
      BY <1>0, <3>1, Between DEF t
  <2>2. x - e = IF t >= Rebased(b, a) THEN t - Rebased(b, a) ELSE t - Rebased(b, a) + Period
    BY <1>7, <2>1, Zenon
  <2>3. t >= b => r = x - e
    BY <1>3, <1>4, <1>6
  <2>4. t < b => r = x - e - 1
    BY <1>0, <1>1, <1>3, <1>4, <1>6
  <2>5. QED
    BY <1>0, <1>1, <1>4, <1>6, <1>7, <2>2, <2>3, <2>4 DEF Reading, Progress, Rebased
<1>9. QED
  BY <1>3, <1>4, <1>5, <1>6, <1>7, <1>8 DEF a, b, t

\* While the counter runs for less than a period, what a call would add only grows, and
\* is the true distance or one tick less.
LEMMA ReadingGrows ==
  ASSUME Wrap = Period - 1,
         NEW s \in 0 .. Period - 1, NEW p \in Nat, NEW x \in Nat, NEW y \in Nat,
         p <= x, x <= y, y - p < Period
  PROVE  LET b == (s + p) % Period
         IN  /\ Reading(b, (s + x) % Period) <= Reading(b, (s + y) % Period)
             /\ Reading(b, (s + x) % Period) <= x - p
             /\ (s + x) % Period = b => x = p
<1> DEFINE b  == (s + p) % Period
           tx == (s + x) % Period
           ty == (s + y) % Period
<1>1. s \in Nat /\ Period \in Nat \ {0}
  BY ClockAssumption
<1>2. b \in 0 .. Period - 1 /\ tx \in 0 .. Period - 1 /\ ty \in 0 .. Period - 1
  <2>1. s + p \in Nat /\ s + x \in Nat /\ s + y \in Nat
    BY <1>1
  <2>2. QED
    BY <1>1, <2>1, DivMod
<1>3. x - p = IF tx >= b THEN tx - b ELSE tx - b + Period
  <2>1. x - p < Period
    BY <1>1
  <2>2. QED
    BY <1>1, <2>1, Between
<1>4. y - p = IF ty >= b THEN ty - b ELSE ty - b + Period
  <2>1. p <= y
    OBVIOUS
  <2>2. QED
    BY <1>1, <2>1, Between
<1> HIDE DEF b, tx, ty
<1>5. /\ Reading(b, tx) <= Reading(b, ty)
      /\ Reading(b, tx) <= x - p
      /\ tx = b => x = p
  BY <1>1, <1>2, <1>3, <1>4 DEF Reading, Progress
<1>6. QED
  BY <1>5 DEF b, tx, ty

-----------------------------------------------------------------------------
(* The invariant holds initially, and each action preserves it.              *)

\* The driver of the micro:bit answers the largest value of the counter, and no handler
\* gets into the call of PendSV.
Undisturbed == Wrap = Period - 1 /\ Nested = FALSE

\* start_system_time establishes the invariant, wherever the counter is.
LEMMA ClockInit == Undisturbed /\ Init => ClockInv
<1> SUFFICES ASSUME Undisturbed, Init PROVE ClockInv
  OBVIOUS
<1> USE ClockAssumption DEF Init, Undisturbed
<1>1. Point = 0 /\ Sampled = 0 /\ Base = start
  BY DEF Point, Sampled, Base
<1>2. start % Period = start
  <2>1. start \in Nat /\ Period \in Nat \ {0} /\ start < Period
    OBVIOUS
  <2>2. /\ start \div Period \in Nat /\ start % Period \in 0 .. Period - 1
        /\ start = Period * (start \div Period) + (start % Period)
    BY <2>1, DivMod
  <2> DEFINE q == start \div Period
             m == start % Period
  <2> HIDE DEF q, m
  <2>3. q = 0
    <3>1. SUFFICES ASSUME q > 0 PROVE FALSE
      BY <2>2 DEF q
    <3>2. PICK k \in Nat : q = k + 1
      <4>1. q - 1 \in Nat /\ q = (q - 1) + 1
        BY <2>2, <3>1 DEF q
      <4>2. QED
        BY <4>1
    <3>3. Period * q = Period * k + Period /\ Period * k >= 0 /\ Period * k \in Int
      BY <2>1, <3>2
    <3>4. QED
      BY <2>1, <2>2, <3>3 DEF q, m
  <2>4. Period * q = 0
    BY <2>1, <2>3
  <2>5. QED
    BY <2>1, <2>2, <2>4 DEF q, m
<1>3. 0 * sync_freq_factor = 0
  BY Factor
<1>4. TypeOK
  BY DEF TypeOK
<1>5. 0 <= Reading(Base, (start + Sampled) % Period)
  BY <1>1, <1>2 DEF Reading
<1>6. QED
  BY <1>1, <1>2, <1>3, <1>4, <1>5 DEF ClockInv

\* A call that finds the counter moved: the new seconds, base and rest are those of a
\* point at most a second before it was read (_forward_time, _looped_time).
LEMMA Progressed ==
  ASSUME Undisturbed, TypeOK, NEW x \in Nat,
         Point <= x, x - Point < Period,
         (start + Point) % Period = base_tick, (start + x) % Period # base_tick
  PROVE  LET ticks == Progress((start + x) % Period, base_tick)
             a     == addseconds(ticks) * Freq
             sec   == base_ts + addseconds(ticks)
         IN  /\ sec \in Nat /\ a \in Nat
             /\ (start + sec * Freq) % Period = Rebased(base_tick, a)
             /\ Rebased(base_tick, a) \in 0 .. Wrap
             /\ sec * Freq <= x /\ x - sec * Freq <= Freq
             /\ Timespec(sec, ticks) \in [seconds : Nat, nanoseconds : 0 .. Nano - 1]
             /\ \E r \in 0 .. Freq - 1 :
                  /\ Timespec(sec, ticks) = [seconds |-> sec, nanoseconds |-> r * sync_freq_factor]
                  /\ r <= Reading(Rebased(base_tick, a), (start + x) % Period)
                  /\ sec * Freq + r >= x - 1
                  /\ addseconds(ticks) = 0 => r = ticks
<1> DEFINE t     == (start + x) % Period
           ticks == Progress(t, base_tick)
           a     == addseconds(ticks) * Freq
           sec   == base_ts + addseconds(ticks)
           r     == ticks - a
<1>1. Point \in Nat /\ base_ts \in Nat /\ start \in 0 .. Period - 1 /\ Wrap = Period - 1
  BY ClockAssumption DEF TypeOK, Point, Undisturbed
<1>2. /\ ticks \in Nat /\ a \in Nat
      /\ (start + (Point + a)) % Period = Rebased(base_tick, a)
      /\ Point + a <= x
      /\ r \in 0 .. Freq - 1
      /\ x - (Point + a) \in {r, r + 1}
      /\ r <= Reading(Rebased(base_tick, a), t)
  BY <1>1, ForwardTime, Zenon
<1> HIDE DEF ticks
<1>3. addseconds(ticks) \in Nat
  BY <1>2, WholeSeconds
<1>4. sec \in Nat /\ sec * Freq = Point + a
  BY <1>1, <1>3, ClockAssumption DEF Point
<1>5. Rebased(base_tick, a) \in 0 .. Wrap
  <2>1. start + (Point + a) \in Nat
    BY <1>1, <1>2
  <2>2. Period \in Nat \ {0}
    BY ClockAssumption
  <2>3. (start + (Point + a)) % Period \in 0 .. Period - 1
    BY <2>1, <2>2, DivMod
  <2>4. QED
    BY <1>1, <1>2, <2>3
<1>6. Timespec(sec, ticks) = [seconds |-> sec, nanoseconds |-> r * sync_freq_factor]
  BY DEF Timespec
<1>7. r * sync_freq_factor \in 0 .. Nano - 1
  BY <1>2, Factor
<1>8. addseconds(ticks) = 0 => r = ticks
  BY <1>2, ClockAssumption
<1>9. /\ (start + sec * Freq) % Period = Rebased(base_tick, a)
      /\ sec * Freq <= x /\ x - sec * Freq <= Freq /\ sec * Freq + r >= x - 1
  <2> HIDE DEF a, sec, r
  <2>1. QED
    BY <1>1, <1>2, <1>4, ClockAssumption
<1>10. Timespec(sec, ticks) \in [seconds : Nat, nanoseconds : 0 .. Nano - 1]
  BY <1>4, <1>6, <1>7
<1> HIDE DEF a, sec, r
<1>11. \E z \in 0 .. Freq - 1 :
          /\ Timespec(sec, ticks) = [seconds |-> sec, nanoseconds |-> z * sync_freq_factor]
          /\ z <= Reading(Rebased(base_tick, a), t)
          /\ sec * Freq + z >= x - 1
          /\ addseconds(ticks) = 0 => z = ticks
  BY <1>2, <1>6, <1>8, <1>9
<1>12. QED
  BY <1>2, <1>4, <1>5, <1>9, <1>10, <1>11 DEF a, sec, ticks

\* What the invariant says of the types, for the steps below.
LEMMA ClockTypes ==
  ASSUME Undisturbed, ClockInv
  PROVE  /\ start \in 0 .. Period - 1 /\ start \in Nat /\ Period \in Nat \ {0}
         /\ Point \in Nat /\ Sampled \in Nat /\ elapsed \in Nat /\ gap \in Nat
         /\ Sampled <= elapsed /\ elapsed - Sampled = gap /\ gap <= MaxGap
         /\ Wrap = Period - 1 /\ base_ts \in Nat /\ Freq \in Nat \ {0}
BY ClockAssumption DEF Undisturbed, ClockInv, TypeOK, Point, Sampled

\* An earlier reading is no more than a later one adds to the same base.
LEMMA LaterReading ==
  ASSUME Undisturbed, ClockInv, NEW x \in Nat, Sampled <= x, x - Point < Period
  PROVE  /\ Reading(Base, (start + Sampled) % Period) <= Reading(Base, (start + x) % Period)
         /\ (start + x) % Period = Base => x = Point
<1>1. Point <= Sampled /\ (start + Point) % Period = Base
  BY DEF ClockInv
<1>2. /\ Reading((start + Point) % Period, (start + Sampled) % Period)
             <= Reading((start + Point) % Period, (start + x) % Period)
  BY <1>1, ClockTypes, ReadingGrows
<1>3. (start + x) % Period = (start + Point) % Period => x = Point
  <2>1. Point <= x
    BY <1>1, ClockTypes
  <2>2. QED
    BY <2>1, ClockTypes, ReadingGrows
<1>4. QED
  BY <1>1, <1>2, <1>3

\* What is shown now is no more than what a later reading will find.
LEMMA ShownLater ==
  ASSUME Undisturbed, ClockInv, NEW x \in Nat, Sampled <= x, x - Point < Period
  PROVE  \E r \in 0 .. Freq - 1 :
           /\ curr_ts = [seconds |-> base_ts, nanoseconds |-> r * sync_freq_factor]
           /\ r <= Reading(Base, (start + x) % Period)
<1> DEFINE r1 == Reading(Base, (start + Sampled) % Period)
           r2 == Reading(Base, (start + x) % Period)
<1>1. r1 <= r2
  BY LaterReading
<1>2. r1 \in Int /\ r2 \in Int
  <2>1. start + Sampled \in Nat /\ start + x \in Nat /\ start + Point \in Nat
    BY ClockTypes
  <2>2. /\ (start + Sampled) % Period \in Nat /\ (start + x) % Period \in Nat
        /\ (start + Point) % Period \in Nat
    <3>1. \A z \in Nat : z % Period \in Nat
      BY ClockTypes, DivMod
    <3>2. QED
      BY <2>1, <3>1
  <2>3. Base \in Nat
    BY <2>2 DEF ClockInv
  <2>4. QED
    BY <2>2, <2>3, ClockTypes DEF Reading, Progress
<1>3. PICK r \in 0 .. Freq - 1 :
        /\ curr_ts = [seconds |-> base_ts, nanoseconds |-> r * sync_freq_factor]
        /\ r <= r1
  BY DEF ClockInv
<1> HIDE DEF r1, r2
<1>4. r <= r2
  BY <1>1, <1>2, <1>3
<1>5. QED
  BY <1>3, <1>4 DEF r2

\* The counter runs: nothing that has been read changes.
LEMMA Tick_Inv ==
  ASSUME Undisturbed, ClockInv, Tick
  PROVE  ClockInv'
<1>1. Sampled' = Sampled /\ Point' = Point /\ Base' = Base
  BY ClockTypes, ClockAssumption DEF Tick, Sampled, Point, Base
<1>2. TypeOK' /\ gap' <= elapsed'
  BY ClockAssumption DEF Tick, ClockInv, TypeOK
<1>3. QED
  BY <1>1, <1>2 DEF ClockInv, Tick

\* PendSV reads the counter.
LEMMA PendSVRead_Inv ==
  ASSUME Undisturbed, ClockInv, PendSVRead
  PROVE  ClockInv'
<1> USE DEF PendSVRead
<1>1. Sampled' = elapsed /\ Point' = Point /\ Base' = Base /\ Base = base_tick
  BY ClockTypes DEF Sampled, Point, Base
<1>2. Point <= elapsed /\ elapsed - Point <= Freq + MaxGap /\ elapsed - Point < Period
  BY ClockTypes, ClockAssumption DEF ClockInv
<1>3. TypeOK' /\ gap' <= elapsed'
  <2>1. start + elapsed \in Nat
    BY ClockTypes
  <2>2. cur \in 0 .. Period - 1
    BY <2>1, ClockTypes, DivMod DEF cur
  <2>3. QED
    BY <2>2, ClockTypes, ClockAssumption DEF ClockInv, TypeOK
<1>4. \E r \in 0 .. Freq - 1 :
        /\ curr_ts' = [seconds |-> base_ts', nanoseconds |-> r * sync_freq_factor]
        /\ r <= Reading(Base', (start' + Sampled') % Period)
  BY <1>1, <1>2, ClockTypes, ShownLater
<1>5. QED
  BY <1>1, <1>2, <1>3, <1>4 DEF ClockInv, cur

\* PendSV brings the seconds up to date.
LEMMA PendSVForward_Inv ==
  ASSUME Undisturbed, ClockInv, PendSVForward
  PROVE  ClockInv'
<1> USE DEF PendSVForward
<1>1. /\ Sampled' = Sampled /\ Base = base_tick /\ tick = (start + Sampled) % Period
      /\ Point <= Sampled /\ Sampled - Point < Period /\ (start + Point) % Period = base_tick
  BY ClockTypes, ClockAssumption DEF ClockInv, Sampled, Base
<1>2. CASE tick = base_tick
  <2>1. Sampled = Point
    BY <1>1, <1>2, ClockTypes, LaterReading
  <2>2. Point' = Point /\ Base' = Base
    BY <1>1, <1>2 DEF Point, Base
  <2>3. TypeOK'
    BY <1>2 DEF ClockInv, TypeOK
  <2>4. Sampled' - Point' <= Freq /\ pendsv' = "out" /\ gap' <= elapsed'
    BY <1>1, <1>2, <2>1, <2>2, ClockTypes DEF ClockInv
  <2>5. QED
    BY <1>1, <1>2, <2>2, <2>3, <2>4, ClockTypes DEF ClockInv
<1>3. CASE tick # base_tick
  <2> DEFINE ticks == Progress((start + Sampled) % Period, base_tick)
             a     == addseconds(ticks) * Freq
             sec   == base_ts + addseconds(ticks)
  <2>1. /\ base_ts' = sec /\ curr_ts' = Timespec(sec, ticks) /\ add' = a
        /\ pendsv' = "rebase" /\ UNCHANGED <<elapsed, start, gap, base_tick, tick>>
    BY <1>1, <1>3
  <2>2. TypeOK
    BY DEF ClockInv
  <2>3. /\ sec \in Nat /\ a \in Nat
        /\ (start + sec * Freq) % Period = Rebased(base_tick, a)
        /\ sec * Freq <= Sampled /\ Sampled - sec * Freq <= Freq
        /\ Timespec(sec, ticks) \in [seconds : Nat, nanoseconds : 0 .. Nano - 1]
        /\ \E r \in 0 .. Freq - 1 :
             /\ Timespec(sec, ticks) = [seconds |-> sec, nanoseconds |-> r * sync_freq_factor]
             /\ r <= Reading(Rebased(base_tick, a), (start + Sampled) % Period)
    BY <1>1, <1>3, <2>2, ClockTypes, Progressed
  <2> HIDE DEF sec, a, ticks
  <2>4. Point' = sec * Freq /\ Base' = Rebased(base_tick, a)
    BY <2>1 DEF Point, Base
  <2>5. TypeOK'
    BY <2>1, <2>2, <2>3 DEF TypeOK
  <2>6. gap' <= elapsed'
    BY <2>1 DEF ClockInv
  <2>7. QED
    BY <1>1, <2>1, <2>3, <2>4, <2>5, <2>6, ClockTypes DEF ClockInv
<1>4. QED
  BY <1>2, <1>3

\* PendSV moves the base after the seconds.
LEMMA PendSVRebase_Inv ==
  ASSUME Undisturbed, ClockInv, PendSVRebase
  PROVE  ClockInv'
<1> USE DEF PendSVRebase
<1>1. Sampled' = Sampled /\ Point' = Point /\ Base' = Base /\ base_tick' = Base
  BY DEF Sampled, Point, Base
<1>2. Base \in 0 .. Wrap
  <2>1. start + Point \in Nat
    BY ClockTypes
  <2>2. (start + Point) % Period \in 0 .. Period - 1
    BY <2>1, ClockTypes, DivMod
  <2>3. QED
    BY <2>2, ClockTypes DEF ClockInv
<1>3. TypeOK' /\ gap' <= elapsed'
  BY <1>1, <1>2 DEF ClockInv, TypeOK
<1>4. QED
  BY <1>1, <1>3 DEF ClockInv

\* A thread or an interrupt handler asks for the time.
LEMMA get_system_time_Inv ==
  ASSUME Undisturbed, ClockInv, get_system_time
  PROVE  ClockInv'
<1> USE DEF get_system_time
<1>1. /\ pendsv = "out" /\ pendsv' = "out" /\ Sampled' = elapsed /\ Base = base_tick
      /\ Base' = base_tick' /\ UNCHANGED <<elapsed, start, tick, add, pendsv>> /\ gap' = 0
  <2>1. pendsv = "out"
    BY Zenon DEF Undisturbed
  <2>2. QED
    BY <2>1, ClockTypes DEF Sampled, Base
<1>2. /\ Point <= elapsed /\ elapsed - Point < Period /\ (start + Point) % Period = base_tick
  BY <1>1, ClockTypes, ClockAssumption DEF ClockInv
<1>3. CASE cur = base_tick
  <2>1. elapsed = Point
    BY <1>1, <1>2, <1>3, ClockTypes, LaterReading DEF cur
  <2>2. UNCHANGED <<base_ts, base_tick, curr_ts>>
    BY <1>3
  <2>3. Point' = Point
    BY <2>2 DEF Point
  <2>4. \E r \in 0 .. Freq - 1 :
          /\ curr_ts' = [seconds |-> base_ts', nanoseconds |-> r * sync_freq_factor]
          /\ r <= Reading(Base', (start' + Sampled') % Period)
    BY <1>1, <1>2, <2>2, ClockTypes, ShownLater
  <2>5. TypeOK' /\ gap' <= elapsed'
    BY <1>1, <2>2, ClockAssumption DEF ClockInv, TypeOK
  <2>6. QED
    BY <1>1, <1>2, <2>1, <2>2, <2>3, <2>4, <2>5, ClockTypes DEF ClockInv
<1>4. CASE cur # base_tick
  <2> DEFINE ticks == Progress((start + elapsed) % Period, base_tick)
             a     == addseconds(ticks) * Freq
             sec   == base_ts + addseconds(ticks)
  <2>1. /\ base_ts' = sec /\ curr_ts' = Timespec(sec, ticks)
        /\ base_tick' = Rebased(base_tick, a)
    BY <1>4 DEF cur
  <2>2. TypeOK
    BY DEF ClockInv
  <2>3. /\ sec \in Nat /\ a \in Nat
        /\ (start + sec * Freq) % Period = Rebased(base_tick, a)
        /\ Rebased(base_tick, a) \in 0 .. Wrap
        /\ sec * Freq <= elapsed /\ elapsed - sec * Freq <= Freq
        /\ Timespec(sec, ticks) \in [seconds : Nat, nanoseconds : 0 .. Nano - 1]
        /\ \E r \in 0 .. Freq - 1 :
             /\ Timespec(sec, ticks) = [seconds |-> sec, nanoseconds |-> r * sync_freq_factor]
             /\ r <= Reading(Rebased(base_tick, a), (start + elapsed) % Period)
    BY <1>2, <1>4, <2>2, ClockTypes, Progressed DEF cur
  <2> HIDE DEF sec, a, ticks
  <2>4. Point' = sec * Freq
    BY <2>1 DEF Point
  <2>5. TypeOK' /\ gap' <= elapsed'
    BY <1>1, <2>1, <2>2, <2>3, ClockAssumption DEF TypeOK
  <2>6. QED
    BY <1>1, <2>1, <2>3, <2>4, <2>5, ClockTypes DEF ClockInv
<1>5. QED
  BY <1>3, <1>4

-----------------------------------------------------------------------------
(* The theorems.                                                             *)

\* Every step of the clock keeps the invariant.
LEMMA ClockStep == Undisturbed /\ ClockInv /\ [Next]_vars => ClockInv'
<1>1. CASE UNCHANGED vars
  BY <1>1 DEF vars, ClockInv, TypeOK, Point, Sampled, Base
<1>2. QED
  BY <1>1, Tick_Inv, PendSVRead_Inv, PendSVForward_Inv, PendSVRebase_Inv, get_system_time_Inv
     DEF Next

\* With a driver that answers its largest value and no call inside another, the invariant
\* holds for every frequency, period and starting value of the counter.
THEOREM ClockInvariance == Undisturbed /\ Spec => []ClockInv
<1> SUFFICES ASSUME Undisturbed PROVE Spec => []ClockInv
  OBVIOUS
<1>1. Init => ClockInv
  BY ClockInit
<1>2. ClockInv /\ [Next]_vars => ClockInv'
  BY ClockStep
<1>3. QED
  BY <1>1, <1>2, PTL DEF Spec

\* The clock's variables keep their types; in particular base_tick stays a value the
\* counter can have.
THEOREM ClockTyped == Undisturbed /\ Spec => []TypeOK
<1>1. ClockInv => TypeOK
  BY DEF ClockInv
<1>2. QED
  BY <1>1, ClockInvariance, PTL

\* No wrap-around of the counter is ever missed (get_system_time).
THEOREM BaseIsExact == Undisturbed /\ Spec => []BaseExact
<1> SUFFICES ASSUME Undisturbed PROVE Spec => []BaseExact
  OBVIOUS
<1>1. ClockInv => BaseExact
  BY ClockTypes, ClockAssumption DEF ClockInv, BaseExact, Point, Base
<1>2. QED
  BY <1>1, ClockInvariance, PTL

\* curr_ts is never ahead of the true time (_forward_time, sync_freq_factor).
THEOREM ClockNeverAhead == Undisturbed /\ Spec => []NeverAhead
<1> SUFFICES ASSUME Undisturbed PROVE Spec => []NeverAhead
  OBVIOUS
<1>1. ASSUME ClockInv PROVE NeverAhead
  <2>1. PICK r \in 0 .. Freq - 1 :
          /\ curr_ts = [seconds |-> base_ts, nanoseconds |-> r * sync_freq_factor]
          /\ r <= Reading(Base, (start + Sampled) % Period)
    BY <1>1 DEF ClockInv
  <2>2. r <= Sampled - Point
    <3>1. Reading((start + Point) % Period, (start + Sampled) % Period) <= Sampled - Point
      <4>1. Point <= Sampled /\ Sampled - Point < Period /\ Sampled <= Sampled
        BY <1>1, ClockTypes, ClockAssumption DEF ClockInv
      <4>2. QED
        BY <1>1, <4>1, ClockTypes, ReadingGrows
    <3>2. Reading(Base, (start + Sampled) % Period) <= Sampled - Point
      BY <1>1, <3>1 DEF ClockInv
    <3>3. Reading(Base, (start + Sampled) % Period) \in Int
      <4>1. start + Sampled \in Nat /\ start + Point \in Nat
        BY <1>1, ClockTypes
      <4>2. \A z \in Nat : z % Period \in Nat
        BY <1>1, ClockTypes, DivMod
      <4>3. (start + Sampled) % Period \in Nat /\ Base \in Nat
        BY <1>1, <4>1, <4>2 DEF ClockInv
      <4>4. QED
        BY <1>1, <4>3, ClockTypes DEF Reading, Progress
    <3> DEFINE rr == Reading(Base, (start + Sampled) % Period)
    <3>4. r <= rr /\ rr <= Sampled - Point /\ rr \in Int
      BY <2>1, <3>2, <3>3
    <3> HIDE DEF rr
    <3>5. QED
      BY <1>1, <3>4, ClockTypes
  <2>3. Point + r <= elapsed /\ Point + r \in Nat /\ r \in Nat
    BY <1>1, <2>2, ClockTypes
  <2> DEFINE f == sync_freq_factor
  <2>4. f \in Nat /\ Nano \in Nat /\ f * Freq <= Nano /\ f * Freq \in Nat /\ Freq \in Nat
    BY Factor, ClockAssumption
  <2> HIDE DEF f
  <2>5. (Point + r) * Nano <= elapsed * Nano
    BY <1>1, <2>3, <2>4, ClockTypes, ProductOrder
  <2>6. r * (f * Freq) <= r * Nano
    <3>1. (f * Freq) * r <= Nano * r
      BY <2>3, <2>4, ProductOrder
    <3>2. QED
      BY <2>3, <2>4, <3>1
  <2>7. (Point + r) * Nano = base_ts * Freq * Nano + r * Nano
    BY <1>1, <2>3, <2>4, ClockTypes DEF Point
  <2>8. (base_ts * Nano + r * f) * Freq = base_ts * Freq * Nano + r * (f * Freq)
    BY <1>1, <2>3, <2>4, ClockTypes
  <2>9. (base_ts * Nano + r * f) * Freq <= elapsed * Nano
    <3> DEFINE q == base_ts * Freq * Nano
               u == r * (f * Freq)
               v == r * Nano
               w == elapsed * Nano
    <3>1. q \in Nat /\ u \in Nat /\ v \in Nat /\ w \in Nat
      BY <1>1, <2>3, <2>4, ClockTypes
    <3>2. q + v <= w /\ u <= v /\ (base_ts * Nano + r * f) * Freq = q + u
      BY <2>5, <2>6, <2>7, <2>8
    <3> HIDE DEF q, u, v, w
    <3>3. (base_ts * Nano + r * f) * Freq <= w
      BY <3>1, <3>2
    <3>4. QED
      BY <3>3 DEF w
  <2>10. QED
    BY <2>1, <2>9 DEF NeverAhead, f
<1>2. QED
  BY <1>1, ClockInvariance, PTL

\* Readings made later compare no less, whoever makes them (compare_system_time).
THEOREM ClockMonotone == Undisturbed /\ Spec => Monotone
<1> SUFFICES ASSUME Undisturbed PROVE Spec => Monotone
  OBVIOUS
<1>1. ASSUME ClockInv, Next PROVE compare_system_time(curr_ts', curr_ts) >= 0
  <2>1. PICK r \in 0 .. Freq - 1 :
          curr_ts = [seconds |-> base_ts, nanoseconds |-> r * sync_freq_factor]
    BY <1>1 DEF ClockInv
  <2>2. base_ts \in Nat /\ r * sync_freq_factor \in Nat
    BY <1>1, Factor, ClockTypes
  <2>3. CASE curr_ts' = curr_ts
    BY <2>1, <2>2, <2>3 DEF compare_system_time
  <2>4. ASSUME NEW x \in Nat, Sampled <= x, x - Point < Period, Base = base_tick,
               (start + x) % Period # base_tick,
               LET ticks == Progress((start + x) % Period, base_tick)
               IN  curr_ts' = Timespec(base_ts + addseconds(ticks), ticks)
        PROVE  compare_system_time(curr_ts', curr_ts) >= 0
    <3> DEFINE ticks == Progress((start + x) % Period, base_tick)
               sec   == base_ts + addseconds(ticks)
    <3>1. /\ TypeOK /\ Point <= x /\ (start + Point) % Period = base_tick
      BY <1>1, <2>4, ClockTypes DEF ClockInv
    <3>2. PICK z \in 0 .. Freq - 1 :
            /\ Timespec(sec, ticks) = [seconds |-> sec, nanoseconds |-> z * sync_freq_factor]
            /\ addseconds(ticks) = 0 => z = ticks
      BY <2>4, <3>1, Progressed
    <3>3. PICK y \in 0 .. Freq - 1 :
            /\ curr_ts = [seconds |-> base_ts, nanoseconds |-> y * sync_freq_factor]
            /\ y <= Reading(Base, (start + x) % Period)
      BY <1>1, <2>4, ShownLater
    <3>4. Reading(Base, (start + x) % Period) = ticks
      BY <2>4 DEF Reading
    <3>5. sec \in Nat /\ addseconds(ticks) \in Nat
      <4>1. ticks \in Nat
        BY <1>1, <2>4, <3>1, ClockTypes, Progressed, ForwardTime
      <4> HIDE DEF ticks
      <4>2. addseconds(ticks) \in Nat
        BY <4>1, WholeSeconds
      <4>3. QED
        BY <2>2, <4>2
    <3>6. z * sync_freq_factor \in Nat /\ y * sync_freq_factor \in Nat
      BY Factor
    <3>7. sec = base_ts => y * sync_freq_factor <= z * sync_freq_factor
      <4>1. sec = base_ts => z = ticks
        BY <2>2, <3>2, <3>5
      <4>2. sec = base_ts => y <= z
        BY <3>3, <3>4, <4>1
      <4>3. QED
        BY <4>2, Factor, ProductOrder
    <3> DEFINE m == z * sync_freq_factor
               n == y * sync_freq_factor
    <3>8. curr_ts' = [seconds |-> sec, nanoseconds |-> m]
          /\ curr_ts = [seconds |-> base_ts, nanoseconds |-> n]
      BY <2>4, <3>2, <3>3
    <3>9. m \in Nat /\ n \in Nat /\ sec \in Nat /\ (sec = base_ts => n <= m) /\ sec >= base_ts
      BY <2>2, <3>5, <3>6, <3>7
    <3> HIDE DEF sec, m, n
    <3>10. QED
      <4>1. /\ curr_ts'.seconds = sec /\ curr_ts'.nanoseconds = m
            /\ curr_ts.seconds = base_ts /\ curr_ts.nanoseconds = n
        BY <3>8
      <4>2. ~(sec < base_ts) /\ (~(sec > base_ts) => ~(m < n)) /\ sec \in Int
        BY <2>2, <3>9
      <4>3. CASE sec > base_ts
        BY <4>1, <4>2, <4>3 DEF compare_system_time
      <4>4. CASE ~(sec > base_ts)
        BY <3>9, <4>1, <4>2, <4>4 DEF compare_system_time
      <4>5. QED
        BY <4>3, <4>4
  <2>5. CASE get_system_time
    <3>1. pendsv = "out"
      BY <2>5, Zenon DEF get_system_time, Undisturbed
    <3>2. Sampled <= elapsed /\ elapsed - Point < Period /\ Base = base_tick /\ elapsed \in Nat
      BY <1>1, <3>1, ClockTypes, ClockAssumption DEF ClockInv, Base
    <3>3. CASE cur = base_tick
      BY <2>3, <2>5, <3>3 DEF get_system_time
    <3>4. CASE cur # base_tick
      BY <2>4, <2>5, <3>2, <3>4 DEF get_system_time, cur
    <3>5. QED
      BY <3>3, <3>4
  <2>6. CASE PendSVForward
    <3>1. /\ Sampled <= Sampled /\ Sampled - Point < Period /\ Base = base_tick
          /\ Sampled \in Nat /\ tick = (start + Sampled) % Period
      BY <1>1, <2>6, ClockTypes, ClockAssumption DEF ClockInv, Base, PendSVForward
    <3>2. CASE tick = base_tick
      BY <2>3, <2>6, <3>2 DEF PendSVForward
    <3>3. CASE tick # base_tick
      BY <2>4, <2>6, <3>1, <3>3 DEF PendSVForward
    <3>4. QED
      BY <3>2, <3>3
  <2>7. QED
    BY <1>1, <2>3, <2>5, <2>6 DEF Next, Tick, PendSVRead, PendSVRebase
<1>2. ClockInv /\ [Next]_vars => [compare_system_time(curr_ts', curr_ts) >= 0]_vars
  BY <1>1
<1>3. QED
  BY <1>2, ClockInvariance, PTL DEF Spec, Monotone

\* What a reading shows is at most a tick late: the driver never misses a wrap-around, and the
\* tick that _looped_time leaves out is in the next reading again.
THEOREM ClockFresh == Undisturbed /\ Spec => Fresh
<1> SUFFICES ASSUME Undisturbed PROVE Spec => Fresh
  OBVIOUS
<1> DEFINE shown == curr_ts'.seconds * Freq + curr_ts'.nanoseconds \div sync_freq_factor
<1>1. ASSUME ClockInv, get_system_time, pendsv = "out" PROVE shown >= elapsed - 1
  <2>1. Sampled <= elapsed /\ elapsed - Point < Period /\ Base = base_tick /\ elapsed \in Nat
    BY <1>1, ClockTypes, ClockAssumption DEF ClockInv, Base
  <2>2. ASSUME NEW sec \in Nat, NEW z \in 0 .. Freq - 1, sec * Freq + z >= elapsed - 1,
               curr_ts' = [seconds |-> sec, nanoseconds |-> z * sync_freq_factor]
        PROVE  shown >= elapsed - 1
    <3> DEFINE f == sync_freq_factor
    <3>1. f \in Nat \ {0} /\ z \in Nat
      BY <1>1, Factor, ClockTypes
    <3> HIDE DEF f
    <3>2. (f * z + 0) \div f = z /\ f * z + 0 = z * f
      BY <3>1
    <3>3. (z * f) \div f = z
      BY <3>2, Zenon
    <3>4. curr_ts'.seconds = sec /\ curr_ts'.nanoseconds = z * f
      BY <2>2 DEF f
    <3>5. shown = sec * Freq + z
      BY <3>3, <3>4 DEF f
    <3>6. QED
      BY <2>2, <3>5
  <2>3. CASE cur = base_tick
    <3>1. elapsed = Point
      BY <1>1, <2>1, <2>3, LaterReading DEF cur
    <3>2. curr_ts' = curr_ts
      BY <1>1, <2>3 DEF get_system_time
    <3>3. PICK z \in 0 .. Freq - 1 :
            curr_ts = [seconds |-> base_ts, nanoseconds |-> z * sync_freq_factor]
      BY <1>1 DEF ClockInv
    <3>4. base_ts \in Nat /\ base_ts * Freq = elapsed /\ base_ts * Freq + z >= elapsed - 1
      BY <1>1, <2>1, <3>1, ClockTypes DEF Point
    <3>5. QED
      BY <2>2, <3>2, <3>3, <3>4
  <2>4. CASE cur # base_tick
    <3> DEFINE ticks == Progress((start + elapsed) % Period, base_tick)
               sec   == base_ts + addseconds(ticks)
    <3>1. curr_ts' = Timespec(sec, ticks)
      BY <1>1, <2>4 DEF get_system_time, cur
    <3>2. TypeOK /\ Point <= elapsed /\ (start + Point) % Period = base_tick
      BY <1>1, <2>1, ClockTypes DEF ClockInv
    <3>3. sec \in Nat /\ \E z \in 0 .. Freq - 1 :
            /\ Timespec(sec, ticks) = [seconds |-> sec, nanoseconds |-> z * sync_freq_factor]
            /\ sec * Freq + z >= elapsed - 1
      BY <2>1, <2>4, <3>2, Progressed DEF cur
    <3> HIDE DEF sec, ticks
    <3>4. QED
      BY <2>2, <3>1, <3>3
  <2>5. QED
    BY <2>3, <2>4
<1>2. ClockInv => (get_system_time /\ pendsv = "out" => shown >= elapsed - 1)
  BY <1>1
<1>3. QED
  BY <1>2, ClockInvariance, PTL DEF Spec, Fresh

=============================================================================
