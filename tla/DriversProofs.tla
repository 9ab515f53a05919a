--------------------------- MODULE DriversProofs ---------------------------
(***************************************************************************)
(* The drivers, for rings and FIFOs of any size, any number of threads and *)
(* any number of bytes: what they hand on is what they were given, and     *)
(* nobody waits for an interrupt that is disabled.                         *)
(***************************************************************************)
EXTENDS Drivers, FifoBufferProofs

Holds == INSTANCE MutexProofs WITH Threads <- Locking

-----------------------------------------------------------------------------
(* Bytes that follow one another, numbered modulo NUMBERS.                   *)

After(n) == (n + 1) % NUMBERS

\* s holds the bytes that follow n, one after the other, up to m.
Follow(n, s, m) ==
  /\ \A i \in 1 .. Len(s) : s[i] = (n + i) % NUMBERS
  /\ m = (n + Len(s)) % NUMBERS

\* What division leaves.
LEMMA DivMod ==
  ASSUME NEW x \in Nat, NEW p \in Nat \ {0}
  PROVE  /\ x \div p \in Nat /\ x % p \in 0 .. p - 1
         /\ x = p * (x \div p) + (x % p)
  OBVIOUS

LEMMA ModUnique ==
  ASSUME NEW p \in Nat \ {0}, NEW k \in Nat, NEW r \in 0 .. p - 1
  PROVE  (p * k + r) % p = r
  OBVIOUS

\* A remainder is taken again, wherever it was taken before.
LEMMA ModStep ==
  ASSUME NEW a \in Nat, NEW b \in Nat, NEW p \in Nat \ {0}
  PROVE  ((a % p) + b) % p = (a + b) % p
<1>1. PICK q \in Nat, r \in 0 .. p - 1 : r = a % p /\ a = p * q + r
  BY DivMod
<1>2. r + b \in Nat
  OBVIOUS
<1>3. PICK d \in Nat, s \in 0 .. p - 1 : s = (r + b) % p /\ r + b = p * d + s
  <2> DEFINE y == r + b
  <2>1. y \in Nat
    BY <1>2
  <2> HIDE DEF y
  <2>2. y \div p \in Nat /\ y % p \in 0 .. p - 1 /\ y = p * (y \div p) + (y % p)
    BY <2>1, DivMod, Zenon
  <2>3. \E d \in Nat, s \in 0 .. p - 1 : s = y % p /\ y = p * d + s
    BY <2>2, Zenon
  <2>4. QED
    BY <2>3, Zenon DEF y
<1>4. p * q + p * d = p * (q + d) /\ q + d \in Nat
  OBVIOUS
<1>5. a + b = p * (q + d) + s
  BY <1>1, <1>3, <1>4
<1>6. (p * (q + d) + s) % p = s
  BY <1>4, ModUnique
<1>7. QED
  BY <1>1, <1>3, <1>5, <1>6

\* The bounds of the calls and of what arrives, without the rest of the assumption.
LEMMA CallBounds ==
  MaxCount \in Nat /\ MaxCalls \in Nat /\ MaxReceived \in Nat /\ Depth \in Nat
BY DriversAssumption, Zenon

\* A count that is below its bound may be raised, and one that is not zero lowered.
LEMMA CountStep ==
  ASSUME NEW m \in Nat, NEW k \in 0 .. m
  PROVE  (k < m => k + 1 \in 0 .. m) /\ (k > 0 => k - 1 \in 0 .. m)
OBVIOUS

LEMMA ByteFacts ==
  /\ NUMBERS \in Nat \ {0} /\ Byte = 0 .. NUMBERS - 1 /\ 0 \in Byte
  /\ \A n \in Nat : n % NUMBERS \in Byte
  /\ \A n \in Byte : n \in Nat /\ n % NUMBERS = n /\ After(n) \in Byte
BY DriversAssumption DEF After

LEMMA FollowNone ==
  ASSUME NEW n \in Byte
  PROVE  Follow(n, <<>>, n)
<1>1. n \in Nat /\ n % NUMBERS = n
  BY ByteFacts
<1>2. n + 0 = n
  BY <1>1
<1>3. Len(<<>>) = 0
  OBVIOUS
<1>4. QED
  BY <1>1, <1>2, <1>3 DEF Follow

LEMMA FollowAppend ==
  ASSUME NEW n \in Byte, NEW s \in Seq(Byte), NEW m, Follow(n, s, m)
  PROVE  After(m) \in Byte /\ Follow(n, Append(s, After(m)), After(m))
<1>1. m = (n + Len(s)) % NUMBERS /\ m \in Byte /\ Len(s) \in Nat /\ n + Len(s) \in Nat
  <2>1. Len(s) \in Nat /\ n \in Nat
    BY ByteFacts, LenProperties
  <2>2. m = (n + Len(s)) % NUMBERS /\ n + Len(s) \in Nat
    BY <2>1 DEF Follow
  <2>3. QED
    BY <2>1, <2>2, ByteFacts
<1>2. After(m) = (n + (Len(s) + 1)) % NUMBERS
  <2>1. NUMBERS \in Nat \ {0} /\ 1 \in Nat
    BY ByteFacts
  <2>2. (((n + Len(s)) % NUMBERS) + 1) % NUMBERS = ((n + Len(s)) + 1) % NUMBERS
    BY <1>1, <2>1, ModStep
  <2>3. n \in Nat
    BY ByteFacts
  <2>4. QED
    BY <1>1, <2>2, <2>3 DEF After
<1>3. /\ Len(Append(s, After(m))) = Len(s) + 1
      /\ \A i \in 1 .. Len(s) : Append(s, After(m))[i] = s[i]
      /\ Append(s, After(m))[Len(s) + 1] = After(m)
  BY <1>1, ByteFacts, AppendProperties
<1>4. ASSUME NEW i \in 1 .. Len(s) + 1
      PROVE  Append(s, After(m))[i] = (n + i) % NUMBERS
  <2>1. CASE i \in 1 .. Len(s)
    BY <1>3, <2>1 DEF Follow
  <2>2. CASE i = Len(s) + 1
    BY <1>2, <1>3, <2>2
  <2>3. QED
    BY <1>1, <2>1, <2>2
<1>5. QED
  BY <1>1, <1>2, <1>3, <1>4, ByteFacts DEF Follow

LEMMA FollowTail ==
  ASSUME NEW n \in Byte, NEW s \in Seq(Byte), NEW m, Follow(n, s, m), s # <<>>
  PROVE  Head(s) \in Byte /\ Tail(s) \in Seq(Byte) /\ Follow(Head(s), Tail(s), m)
<1>1. /\ Head(s) = s[1] /\ Head(s) \in Byte /\ Tail(s) \in Seq(Byte) /\ Len(s) \in Nat \ {0}
      /\ Len(Tail(s)) = Len(s) - 1 /\ \A i \in 1 .. Len(Tail(s)) : Tail(s)[i] = s[i + 1]
  BY HeadTailProperties, LenProperties, EmptySeq
<1>2. Head(s) = (n + 1) % NUMBERS
  BY <1>1 DEF Follow
<1>3. ASSUME NEW k \in Nat PROVE (Head(s) + k) % NUMBERS = (n + (k + 1)) % NUMBERS
  <2>1. n \in Nat /\ n + 1 \in Nat /\ NUMBERS \in Nat \ {0}
    BY ByteFacts
  <2>2. (((n + 1) % NUMBERS) + k) % NUMBERS = (n + 1 + k) % NUMBERS
    BY <2>1, ModStep, Zenon
  <2>3. n + 1 + k = n + (k + 1)
    BY <2>1
  <2>4. QED
    BY <1>2, <2>2, <2>3
<1>4. m = (Head(s) + Len(Tail(s))) % NUMBERS
  BY <1>1, <1>3 DEF Follow
<1>5. ASSUME NEW i \in 1 .. Len(Tail(s)) PROVE Tail(s)[i] = (Head(s) + i) % NUMBERS
  BY <1>1, <1>3 DEF Follow
<1>6. QED
  BY <1>1, <1>4, <1>5 DEF Follow

\* A ring into which the next byte is put, and one from which a byte is taken.
LEMMA PutFollows ==
  ASSUME NEW f, WellFormed(f), f.wsz > 0, NEW n \in Byte, NEW m, Follow(n, Contents(f), m)
  PROVE  /\ After(m) \in Byte /\ WellFormed(fifo_buffer_putb(f, After(m)))
         /\ Follow(n, Contents(fifo_buffer_putb(f, After(m))), After(m))
BY FollowAppend, PutAppends, ContentsIsSeq

LEMMA GetFollows ==
  ASSUME NEW f, WellFormed(f), f.rsz > 0, NEW n \in Byte, NEW m, Follow(n, Contents(f), m)
  PROVE  /\ NextByte(f) \in Byte /\ WellFormed(fifo_buffer_getb(f))
         /\ Follow(NextByte(f), Contents(fifo_buffer_getb(f)), m)
BY FollowTail, GetTakesHead, ContentsIsSeq
-----------------------------------------------------------------------------
(* The random number generator.                                              *)

RngInv ==
  /\ RNG!TypeOK /\ RNG!NeverStalls
  /\ Follow(log.given, Contents(ctx.read_buffer), log.stored)
  /\ reg.VALRDY => reg.VALUE = After(log.stored)
  /\ ~reg.on => \A t \in Threads : thr.pc[t] = "out"

\* The ring of the driver is the ring of FifoBuffer.
LEMMA RngRing ==
  /\ \A f, b : RNG!fifo_buffer_putb(f, b) = fifo_buffer_putb(f, b)
  /\ \A f : /\ RNG!fifo_buffer_getb(f) = fifo_buffer_getb(f)
            /\ RNG!NextByte(f) = NextByte(f)
            /\ RNG!WellFormed(f) <=> WellFormed(f)
            /\ RNG!Contents(f) = Contents(f)
  /\ RNG!fifo_buffer_create = fifo_buffer_create
  /\ RNG!Ring = Ring
  /\ \A n : RNG!Following(n) = After(n)
BY DEF RNG!fifo_buffer_putb, fifo_buffer_putb, RNG!fifo_buffer_getb, fifo_buffer_getb,
       RNG!NextByte, NextByte, RNG!WellFormed, WellFormed, RNG!Contents, Contents,
       RNG!fifo_buffer_create, fifo_buffer_create, RNG!Ring, Ring, RNG!Wrap, Wrap,
       RNG!Advance, Advance, RNG!Following, After

LEMMA RngInit == RNG!Init => RngInv
<1> SUFFICES ASSUME RNG!Init PROVE RngInv
  OBVIOUS
<1>1. PICK f \in fifo_buffer_create : ctx = [read_buffer |-> f]
  BY RngRing DEF RNG!Init
<1>2. WellFormed(f) /\ Contents(f) = <<>> /\ f \in Ring
  BY CreateEmpty DEF WellFormed
<1>3. RNG!TypeOK
  BY <1>1, <1>2, RngRing, ByteFacts, DriversAssumption DEF RNG!Init, RNG!TypeOK
<1>4. Follow(log.given, Contents(ctx.read_buffer), log.stored)
  BY <1>1, <1>2, FollowNone, ByteFacts DEF RNG!Init
<1>5. QED
  BY <1>3, <1>4 DEF RngInv, RNG!Init, RNG!NeverStalls

\* The handler stores the byte that follows the last one it has stored.
LEMMA RngIrq == ASSUME RngInv, RNG!_IRQ PROVE RngInv'
<1>1. CASE ctx.read_buffer.wsz > 0
  <2>1. /\ ctx' = [ctx EXCEPT !.read_buffer = fifo_buffer_putb(ctx.read_buffer, After(log.stored))]
        /\ reg' = [reg EXCEPT !.VALRDY = FALSE] /\ thr' = thr
        /\ log' = [log EXCEPT !.stored = After(log.stored)] /\ reg.INTEN
    BY <1>1, RngRing DEF RNG!_IRQ, RNG!Pending, RNG!Taken, RngInv
  <2>2. /\ After(log.stored) \in Byte
        /\ WellFormed(fifo_buffer_putb(ctx.read_buffer, After(log.stored)))
        /\ Follow(log.given, Contents(fifo_buffer_putb(ctx.read_buffer, After(log.stored))),
                  After(log.stored))
    BY <1>1, PutFollows, RngRing DEF RngInv, RNG!TypeOK
  <2>3. ctx'.read_buffer = fifo_buffer_putb(ctx.read_buffer, After(log.stored))
    BY <2>1 DEF RngInv, RNG!TypeOK
  <2>4. RNG!TypeOK'
    BY <2>1, <2>2, <2>3, RngRing DEF RngInv, RNG!TypeOK, WellFormed
  <2>5. QED
    BY <2>1, <2>2, <2>3, <2>4 DEF RngInv, RNG!NeverStalls, RNG!TypeOK
<1>2. CASE ~(ctx.read_buffer.wsz > 0)
  <2>1. ctx' = ctx /\ reg' = [reg EXCEPT !.INTEN = FALSE] /\ thr' = thr /\ log' = log
    BY <1>2 DEF RNG!_IRQ
  <2>2. ctx.read_buffer.rsz # 0
    BY <1>2, RngRing, FifoAssumption DEF RngInv, RNG!TypeOK, WellFormed, Ring
  <2>3. RNG!TypeOK'
    BY <2>1 DEF RngInv, RNG!TypeOK
  <2>4. QED
    BY <2>1, <2>2, <2>3 DEF RngInv, RNG!NeverStalls, RNG!TypeOK
<1>3. QED
  BY <1>1, <1>2

LEMMA RngGenerate == ASSUME RngInv, RNG!Generate PROVE RngInv'
<1>1. /\ reg' = [reg EXCEPT !.VALUE = After(log.stored), !.VALRDY = TRUE]
      /\ ctx' = ctx /\ thr' = thr /\ log' = log
  BY RngRing DEF RNG!Generate
<1>2. After(log.stored) \in Byte
  BY ByteFacts DEF RngInv, RNG!TypeOK
<1>3. RNG!TypeOK'
  BY <1>1, <1>2 DEF RngInv, RNG!TypeOK
<1>4. QED
  BY <1>1, <1>3 DEF RngInv, RNG!NeverStalls, RNG!TypeOK

LEMMA RngRead ==
  ASSUME RngInv, NEW t \in Threads, NEW n \in 1 .. MaxCount, RNG!_read(t, n)
  PROVE  RngInv'
<1>1. /\ thr' = [thr EXCEPT !.pc = [thr.pc EXCEPT ![t] = "lock"],
                            !.count = [thr.count EXCEPT ![t] = n]]
      /\ log' = [log EXCEPT !.calls = log.calls + 1] /\ log.calls < MaxCalls
      /\ ctx' = ctx /\ reg' = reg /\ thr.pc[t] = "out" /\ reg.on
  BY DEF RNG!_read, RNG!Runs
<1>2. /\ thr'.pc = [thr.pc EXCEPT ![t] = "lock"]
      /\ \A u \in Threads : /\ thr'.pc[u] = "retry" => thr.pc[u] = "retry"
                            /\ thr.pc[u] \in {"take", "enable"} => thr'.pc[u] = thr.pc[u]
  BY <1>1 DEF RngInv, RNG!TypeOK
<1>3. log.calls + 1 \in 0 .. MaxCalls /\ n \in 0 .. MaxCount
  <2>1. log.calls \in 0 .. MaxCalls
    BY DEF RngInv, RNG!TypeOK
  <2>2. log.calls < MaxCalls
    BY <1>1
  <2>3. log.calls + 1 \in 0 .. MaxCalls
    BY <2>1, <2>2, CallBounds, CountStep, Zenon
  <2>4. n \in 0 .. MaxCount
    BY CallBounds
  <2>5. QED
    BY <2>3, <2>4
<1>4. RNG!TypeOK'
  BY <1>1, <1>3 DEF RngInv, RNG!TypeOK
<1>5. QED
  BY <1>1, <1>2, <1>4 DEF RngInv, RNG!NeverStalls, RNG!TypeOK

LEMMA RngLock == ASSUME RngInv, NEW t \in Threads, RNG!Lock(t) PROVE RngInv'
<1>1. /\ thr' = [thr EXCEPT !.pc = [thr.pc EXCEPT ![t] = "take"]]
      /\ ctx' = ctx /\ reg' = reg /\ log' = log /\ thr.pc[t] # "out"
  BY DEF RNG!Lock, RNG!Goto, RNG!Runs
<1>2. thr'.pc = [thr.pc EXCEPT ![t] = "take"] /\ thr'.pc[t] = "take"
  BY <1>1 DEF RngInv, RNG!TypeOK
<1>3. RNG!TypeOK'
  BY <1>1 DEF RngInv, RNG!TypeOK
<1>4. QED
  BY <1>1, <1>2, <1>3 DEF RngInv, RNG!NeverStalls

\* A reader takes the byte that follows the last one taken.
LEMMA RngTake == ASSUME RngInv, NEW t \in Threads, RNG!Take(t) PROVE RngInv'
<1>1. /\ ctx' = [ctx EXCEPT !.read_buffer = fifo_buffer_getb(ctx.read_buffer)]
      /\ log' = [log EXCEPT !.given = NextByte(ctx.read_buffer)] /\ reg' = reg
      /\ thr' = [thr EXCEPT !.count = [thr.count EXCEPT ![t] = thr.count[t] - 1]]
      /\ thr.pc[t] = "take" /\ thr.count[t] > 0 /\ ctx.read_buffer.rsz > 0
  BY RngRing DEF RNG!Take, RNG!HasByte
<1>2. /\ NextByte(ctx.read_buffer) \in Byte /\ WellFormed(fifo_buffer_getb(ctx.read_buffer))
      /\ Follow(NextByte(ctx.read_buffer), Contents(fifo_buffer_getb(ctx.read_buffer)), log.stored)
  BY <1>1, GetFollows, RngRing DEF RngInv, RNG!TypeOK
<1>3. /\ ctx'.read_buffer = fifo_buffer_getb(ctx.read_buffer) /\ thr'.pc = thr.pc
      /\ log'.given = NextByte(ctx.read_buffer) /\ log'.stored = log.stored
  BY <1>1 DEF RngInv, RNG!TypeOK
<1>4. thr.count[t] - 1 \in 0 .. MaxCount
  <2>1. thr.count[t] \in 0 .. MaxCount
    BY DEF RngInv, RNG!TypeOK
  <2>2. QED
    BY <1>1, <2>1, CallBounds, CountStep, Zenon
<1>5. RNG!TypeOK'
  BY <1>1, <1>2, <1>3, <1>4, RngRing DEF RngInv, RNG!TypeOK, WellFormed
<1>6. QED
  BY <1>1, <1>2, <1>3, <1>5 DEF RngInv, RNG!NeverStalls

LEMMA RngUnlock == ASSUME RngInv, NEW t \in Threads, RNG!Unlock(t) PROVE RngInv'
<1>1. /\ thr' = [thr EXCEPT !.pc = [thr.pc EXCEPT ![t] = "enable"]]
      /\ ctx' = ctx /\ reg' = reg /\ log' = log /\ thr.pc[t] # "out"
  BY DEF RNG!Unlock, RNG!Goto
<1>2. thr'.pc = [thr.pc EXCEPT ![t] = "enable"] /\ thr'.pc[t] = "enable"
  BY <1>1 DEF RngInv, RNG!TypeOK
<1>3. RNG!TypeOK'
  BY <1>1 DEF RngInv, RNG!TypeOK
<1>4. QED
  BY <1>1, <1>2, <1>3 DEF RngInv, RNG!NeverStalls

\* Who yields on an empty ring has enabled the interrupt.
LEMMA RngEnable == ASSUME RngInv, NEW t \in Threads, RNG!Enable(t) PROVE RngInv'
<1>1. PICK place \in {"out", "retry"} : thr' = [thr EXCEPT !.pc = [thr.pc EXCEPT ![t] = place]]
  BY DEF RNG!Enable, RNG!Goto
<1>2. /\ reg' = [reg EXCEPT !.INTEN = TRUE]
      /\ ctx' = ctx /\ log' = log /\ thr.pc[t] # "out"
  BY DEF RNG!Enable, RNG!Enabled, RNG!Runs
<1>3. RNG!TypeOK' /\ reg'.INTEN /\ reg'.on = reg.on
  BY <1>1, <1>2 DEF RngInv, RNG!TypeOK
<1>4. QED
  BY <1>1, <1>2, <1>3 DEF RngInv, RNG!NeverStalls, RNG!TypeOK

LEMMA RngClose == ASSUME RngInv, RNG!_close PROVE RngInv'
<1>1. /\ reg' = [reg EXCEPT !.on = FALSE] /\ ctx' = ctx /\ thr' = thr /\ log' = log
      /\ \A t \in Threads : thr.pc[t] = "out"
  BY DEF RNG!_close
<1>2. RNG!TypeOK'
  BY <1>1 DEF RngInv, RNG!TypeOK
<1>3. QED
  BY <1>1, <1>2 DEF RngInv, RNG!NeverStalls, RNG!TypeOK

LEMMA RngReopen == ASSUME RngInv, RNG!Reopen PROVE RngInv'
<1> DEFINE f == [ctx.read_buffer EXCEPT !.ri = 0, !.wi = 0, !.rsz = 0, !.wsz = sz]
<1>1. /\ ctx' = [read_buffer |-> f] /\ reg' = [reg EXCEPT !.on = TRUE]
      /\ log' = [log EXCEPT !.given = log.stored] /\ thr' = thr /\ ~reg.on
  BY DEF RNG!Reopen
<1>2. f \in fifo_buffer_create
  BY RngRing DEF RngInv, RNG!TypeOK, Ring, fifo_buffer_create
<1> HIDE DEF f
<1>3. WellFormed(f) /\ f \in Ring /\ Contents(f) = <<>> /\ ctx'.read_buffer = f
  BY <1>1, <1>2, CreateEmpty DEF WellFormed
<1>4. RNG!TypeOK'
  BY <1>1, <1>3, RngRing DEF RngInv, RNG!TypeOK
<1>5. Follow(log.given, Contents(ctx.read_buffer), log.stored)'
  BY <1>1, <1>3, FollowNone DEF RngInv, RNG!TypeOK
<1>6. QED
  BY <1>1, <1>4, <1>5 DEF RngInv, RNG!NeverStalls, RNG!TypeOK

LEMMA RngStep == RngInv /\ RNG!Next => RngInv'
BY RngIrq, RngGenerate, RngRead, RngLock, RngTake, RngUnlock, RngEnable, RngClose, RngReopen
   DEF RNG!Next

LEMMA RngProperties == RngInv => RNG!TypeOK /\ RNG!InOrder /\ RNG!NeverStalls
<1> SUFFICES ASSUME RngInv PROVE RNG!InOrder
  BY DEF RngInv
<1>1. Len(Contents(ctx.read_buffer)) = ctx.read_buffer.rsz
  BY ContentsIsSeq, RngRing DEF RngInv, RNG!TypeOK
<1>2. QED
  BY <1>1, RngRing DEF RngInv, RNG!InOrder, Follow
-----------------------------------------------------------------------------
(* The console of the hosted port.                                           *)

HostedInv ==
  /\ Hosted!TypeOK /\ Hosted!NeverStalls
  /\ Follow(log.sent, Contents(ctx.write_buffer), log.put)
  /\ Follow(log.given, Contents(ctx.read_buffer), log.stored)
  /\ ctx.halt_flag => \A t \in Threads : thr.pc[t] \in {"out", "join"}
  /\ thr.service = "gone" => ctx.halt_flag
  /\ reg.kbhit <= log.typed

\* The rings of the driver are those of FifoBuffer.
LEMMA HostedRing ==
  /\ \A f, b : Hosted!fifo_buffer_putb(f, b) = fifo_buffer_putb(f, b)
  /\ \A f : /\ Hosted!fifo_buffer_getb(f) = fifo_buffer_getb(f)
            /\ Hosted!NextByte(f) = NextByte(f)
            /\ Hosted!WellFormed(f) <=> WellFormed(f)
            /\ Hosted!Contents(f) = Contents(f)
  /\ Hosted!fifo_buffer_create = fifo_buffer_create
  /\ Hosted!Ring = Ring
  /\ \A n : Hosted!Following(n) = After(n)
BY DEF Hosted!fifo_buffer_putb, fifo_buffer_putb, Hosted!fifo_buffer_getb, fifo_buffer_getb,
       Hosted!NextByte, NextByte, Hosted!WellFormed, WellFormed, Hosted!Contents, Contents,
       Hosted!fifo_buffer_create, fifo_buffer_create, Hosted!Ring, Ring, Hosted!Wrap, Wrap,
       Hosted!Advance, Advance, Hosted!Following, After

LEMMA HostedEmpty ==
  /\ Hosted!EmptyRing \in Ring /\ WellFormed(Hosted!EmptyRing)
  /\ Contents(Hosted!EmptyRing) = <<>>
<1> DEFINE Zero == [i \in 0 .. sz - 1 |-> 0]
           empty == [bp |-> Zero, ri |-> 0, wi |-> 0, rsz |-> 0, wsz |-> sz]
<1>1. empty \in fifo_buffer_create /\ empty.bp = Zero
  BY ByteFacts DEF fifo_buffer_create
<1>2. Hosted!EmptyRing \in fifo_buffer_create
  BY <1>1, HostedRing DEF Hosted!EmptyRing
<1>3. QED
  BY <1>2, CreateEmpty DEF WellFormed

LEMMA HostedInit == Hosted!Init => HostedInv
<1> SUFFICES ASSUME Hosted!Init PROVE HostedInv
  OBVIOUS
<1>1. /\ ctx.read_buffer = Hosted!EmptyRing /\ ctx.write_buffer = Hosted!EmptyRing
      /\ ~ctx.halt_flag /\ ctx.open
  BY DEF Hosted!Init, Hosted!Opened
<1>2. Hosted!TypeOK
  BY HostedEmpty, HostedRing, ByteFacts, DriversAssumption
     DEF Hosted!Init, Hosted!Opened, Hosted!TypeOK
<1>3. /\ Follow(log.sent, Contents(ctx.write_buffer), log.put)
      /\ Follow(log.given, Contents(ctx.read_buffer), log.stored)
  BY <1>1, HostedEmpty, FollowNone, ByteFacts DEF Hosted!Init
<1>4. QED
  BY <1>1, <1>2, <1>3 DEF HostedInv, Hosted!Init, Hosted!NeverStalls

LEMMA HostedCall ==
  ASSUME HostedInv, NEW t \in Threads, NEW f \in {"write", "read"}, NEW n \in 1 .. MaxCount,
         Hosted!Call(t, f, n)
  PROVE  HostedInv'
<1>1. /\ thr' = [thr EXCEPT !.pc = [thr.pc EXCEPT ![t] = "lock"],
                            !.call = [thr.call EXCEPT ![t] = f],
                            !.count = [thr.count EXCEPT ![t] = n]]
      /\ log' = [log EXCEPT !.calls = log.calls + 1] /\ log.calls < MaxCalls
      /\ ctx' = ctx /\ reg' = reg /\ ctx.open /\ ~ctx.halt_flag
  BY DEF Hosted!Call
<1>2. log.calls + 1 \in 0 .. MaxCalls /\ n \in 0 .. MaxCount
  <2>1. log.calls \in 0 .. MaxCalls
    BY DEF HostedInv, Hosted!TypeOK
  <2>2. log.calls + 1 \in 0 .. MaxCalls
    BY <1>1, <2>1, CallBounds, CountStep, Zenon
  <2>3. n \in 0 .. MaxCount
    BY CallBounds
  <2>4. QED
    BY <2>2, <2>3
<1>3. Hosted!TypeOK'
  BY <1>1, <1>2 DEF HostedInv, Hosted!TypeOK
<1>4. /\ thr'.service = thr.service /\ log'.sent = log.sent /\ log'.put = log.put
      /\ log'.given = log.given /\ log'.stored = log.stored /\ log'.typed = log.typed
  BY <1>1 DEF HostedInv, Hosted!TypeOK
<1>5. QED
  BY <1>1, <1>3, <1>4 DEF HostedInv, Hosted!NeverStalls

\* A thread that is in a call goes on to another place of it, or returns.
LEMMA HostedGoes ==
  ASSUME HostedInv, NEW t \in Threads, NEW place \in {"out", "lock", "move"},
         thr.pc[t] \in {"lock", "move"}, thr' = [thr EXCEPT !.pc = [thr.pc EXCEPT ![t] = place]],
         ctx' = ctx, reg' = reg, log' = log
  PROVE  HostedInv'
<1>1. ~ctx.halt_flag /\ ctx.open /\ thr.service # "gone"
  BY DEF HostedInv, Hosted!NeverStalls, Hosted!TypeOK
<1>2. Hosted!TypeOK' /\ thr'.service = thr.service
  BY DEF HostedInv, Hosted!TypeOK
<1>3. QED
  BY <1>1, <1>2 DEF HostedInv, Hosted!NeverStalls

LEMMA HostedLock == ASSUME HostedInv, NEW t \in Threads, Hosted!Lock(t) PROVE HostedInv'
BY HostedGoes DEF Hosted!Lock, Hosted!Goto

LEMMA HostedUnlock == ASSUME HostedInv, NEW t \in Threads, Hosted!Unlock(t) PROVE HostedInv'
<1>1. PICK place \in {"out", "lock"} : thr' = [thr EXCEPT !.pc = [thr.pc EXCEPT ![t] = place]]
  BY DEF Hosted!Unlock, Hosted!Goto
<1>2. QED
  BY <1>1, HostedGoes DEF Hosted!Unlock

\* A ring that the next byte goes into, or that a byte is taken from, with the history of it.
LEMMA HostedMove == ASSUME HostedInv, NEW t \in Threads, Hosted!Move(t) PROVE HostedInv'
<1>1. /\ thr' = [thr EXCEPT !.count = [thr.count EXCEPT ![t] = thr.count[t] - 1]]
      /\ thr.count[t] > 0 /\ reg' = reg
  BY DEF Hosted!Move, Hosted!CanMove
<1>2. thr.count[t] - 1 \in 0 .. MaxCount /\ thr.count \in [Threads -> 0 .. MaxCount]
  <2>1. thr.count \in [Threads -> 0 .. MaxCount]
    BY DEF HostedInv, Hosted!TypeOK
  <2>2. thr.count[t] \in 0 .. MaxCount
    BY <2>1
  <2>3. QED
    BY <1>1, <2>1, <2>2, CallBounds, CountStep, Zenon
<1>3. /\ thr'.pc = thr.pc /\ thr'.service = thr.service
      /\ thr' \in [pc : [Threads -> {"out", "lock", "move", "join"}],
                   call : [Threads -> {"write", "read", "close"}],
                   count : [Threads -> 0 .. MaxCount],
                   service : {"test", "lock", "send", "receive", "gone"}]
  BY <1>1, <1>2 DEF HostedInv, Hosted!TypeOK
<1>4. CASE thr.call[t] = "write"
  <2> DEFINE g == fifo_buffer_putb(ctx.write_buffer, After(log.put))
  <2>1. /\ ctx' = [ctx EXCEPT !.write_buffer = g] /\ log' = [log EXCEPT !.put = After(log.put)]
        /\ ctx.write_buffer.wsz > 0
    BY <1>4, HostedRing DEF Hosted!Move, Hosted!CanMove
  <2>2. /\ After(log.put) \in Byte /\ WellFormed(g) /\ g \in Ring
        /\ Follow(log.sent, Contents(g), After(log.put))
    BY <2>1, PutFollows, HostedRing DEF HostedInv, Hosted!TypeOK, WellFormed
  <2> HIDE DEF g
  <2>3. /\ ctx'.write_buffer = g /\ ctx'.read_buffer = ctx.read_buffer
        /\ ctx'.halt_flag = ctx.halt_flag /\ ctx'.open = ctx.open
        /\ log'.put = After(log.put) /\ log'.sent = log.sent
        /\ log'.given = log.given /\ log'.stored = log.stored /\ log'.typed = log.typed
    BY <2>1 DEF HostedInv, Hosted!TypeOK
  <2>4. Hosted!TypeOK'
    BY <1>1, <1>3, <2>1, <2>2, <2>3, HostedRing DEF HostedInv, Hosted!TypeOK
  <2>5. QED
    BY <1>1, <1>3, <2>2, <2>3, <2>4 DEF HostedInv, Hosted!NeverStalls
<1>5. CASE thr.call[t] # "write"
  <2> DEFINE g == fifo_buffer_getb(ctx.read_buffer)
             b == NextByte(ctx.read_buffer)
  <2>1. /\ ctx' = [ctx EXCEPT !.read_buffer = g] /\ log' = [log EXCEPT !.given = b]
        /\ ctx.read_buffer.rsz > 0
    BY <1>5, HostedRing DEF Hosted!Move, Hosted!CanMove
  <2>2. b \in Byte /\ WellFormed(g) /\ g \in Ring /\ Follow(b, Contents(g), log.stored)
    BY <2>1, GetFollows, HostedRing DEF HostedInv, Hosted!TypeOK, WellFormed
  <2> HIDE DEF g, b
  <2>3. /\ ctx'.read_buffer = g /\ ctx'.write_buffer = ctx.write_buffer
        /\ ctx'.halt_flag = ctx.halt_flag /\ ctx'.open = ctx.open
        /\ log'.given = b /\ log'.stored = log.stored /\ log'.typed = log.typed
        /\ log'.sent = log.sent /\ log'.put = log.put
    BY <2>1 DEF HostedInv, Hosted!TypeOK
  <2>4. Hosted!TypeOK'
    BY <1>1, <1>3, <2>1, <2>2, <2>3, HostedRing DEF HostedInv, Hosted!TypeOK
  <2>5. QED
    BY <1>1, <1>3, <2>2, <2>3, <2>4 DEF HostedInv, Hosted!NeverStalls
<1>6. QED
  BY <1>4, <1>5

\* Nobody is in a call when the service is told to stop.
LEMMA HostedClose == ASSUME HostedInv, NEW t \in Threads, Hosted!_close(t) PROVE HostedInv'
<1>1. /\ ctx' = [ctx EXCEPT !.halt_flag = TRUE]
      /\ thr' = [thr EXCEPT !.pc = [thr.pc EXCEPT ![t] = "join"],
                            !.call = [thr.call EXCEPT ![t] = "close"]]
      /\ reg' = reg /\ log' = log /\ ctx.open /\ \A u \in Threads : thr.pc[u] = "out"
  BY DEF Hosted!_close
<1>2. Hosted!TypeOK' /\ ctx'.halt_flag /\ ctx'.open
  BY <1>1 DEF HostedInv, Hosted!TypeOK
<1>3. /\ ctx'.read_buffer = ctx.read_buffer /\ ctx'.write_buffer = ctx.write_buffer
      /\ \A u \in Threads : thr'.pc[u] \in {"out", "join"}
  BY <1>1 DEF HostedInv, Hosted!TypeOK
<1>4. QED
  BY <1>1, <1>2, <1>3 DEF HostedInv, Hosted!NeverStalls

LEMMA HostedJoined == ASSUME HostedInv, NEW t \in Threads, Hosted!Joined(t) PROVE HostedInv'
<1>1. /\ ctx' = [ctx EXCEPT !.open = FALSE]
      /\ thr' = [thr EXCEPT !.pc = [thr.pc EXCEPT ![t] = "out"]]
      /\ reg' = reg /\ log' = log /\ thr.service = "gone" /\ ctx.halt_flag
  BY DEF Hosted!Joined, Hosted!Goto, HostedInv
<1>2. Hosted!TypeOK' /\ ctx'.halt_flag /\ thr'.service = "gone"
  BY <1>1 DEF HostedInv, Hosted!TypeOK
<1>3. /\ ctx'.read_buffer = ctx.read_buffer /\ ctx'.write_buffer = ctx.write_buffer
      /\ \A u \in Threads : thr'.pc[u] \in {"out", "join"}
  BY <1>1 DEF HostedInv, Hosted!TypeOK
<1>4. QED
  BY <1>1, <1>2, <1>3 DEF HostedInv, Hosted!NeverStalls

LEMMA HostedReopen == ASSUME HostedInv, Hosted!Reopen PROVE HostedInv'
<1> DEFINE f == Hosted!EmptyRing
<1>1. /\ ctx' = [read_buffer |-> f, write_buffer |-> f, halt_flag |-> FALSE, open |-> TRUE]
      /\ thr' = [thr EXCEPT !.service = "test"]
      /\ log' = [log EXCEPT !.sent = log.put, !.given = log.stored] /\ reg' = reg
  BY DEF Hosted!Reopen, Hosted!Opened
<1>2. f \in Ring /\ WellFormed(f) /\ Contents(f) = <<>>
  BY HostedEmpty
<1> HIDE DEF f
<1>3. Hosted!TypeOK'
  BY <1>1, <1>2, HostedRing DEF HostedInv, Hosted!TypeOK
<1>4. Follow(log.sent, Contents(ctx.write_buffer), log.put)'
  BY <1>1, <1>2, FollowNone DEF HostedInv, Hosted!TypeOK
<1>5. Follow(log.given, Contents(ctx.read_buffer), log.stored)'
  BY <1>1, <1>2, FollowNone DEF HostedInv, Hosted!TypeOK
<1>6. QED
  BY <1>1, <1>3, <1>4, <1>5 DEF HostedInv, Hosted!NeverStalls, Hosted!TypeOK

\* The service ends only after it has been told to.
LEMMA HostedService == ASSUME HostedInv, Hosted!service_IRQ PROVE HostedInv'
<1>1. PICK place \in {"gone", "lock"} :
        /\ thr' = [thr EXCEPT !.service = place]
        /\ place = "gone" <=> ctx.halt_flag
  BY DEF Hosted!service_IRQ
<1>2. ctx' = ctx /\ reg' = reg /\ log' = log /\ thr.service = "test"
  BY DEF Hosted!service_IRQ
<1>3. Hosted!TypeOK' /\ thr'.pc = thr.pc /\ thr'.service = place
  BY <1>1, <1>2 DEF HostedInv, Hosted!TypeOK
<1>4. QED
  BY <1>1, <1>2, <1>3 DEF HostedInv, Hosted!NeverStalls

LEMMA HostedServes ==
  ASSUME HostedInv, NEW place \in {"test", "send", "receive"}, thr.service # "gone",
         thr' = [thr EXCEPT !.service = place], ctx' = ctx, reg' = reg, log' = log
  PROVE  HostedInv'
<1>1. Hosted!TypeOK' /\ thr'.pc = thr.pc /\ thr'.service = place
  BY DEF HostedInv, Hosted!TypeOK
<1>2. QED
  BY <1>1 DEF HostedInv, Hosted!NeverStalls

LEMMA HostedSend == ASSUME HostedInv, Hosted!IrqSend PROVE HostedInv'
<1>1. CASE ctx.write_buffer.rsz > 0
  <2> DEFINE g == fifo_buffer_getb(ctx.write_buffer)
             b == NextByte(ctx.write_buffer)
  <2>1. /\ ctx' = [ctx EXCEPT !.write_buffer = g] /\ log' = [log EXCEPT !.sent = b]
        /\ reg' = reg /\ thr' = thr
    BY <1>1, HostedRing DEF Hosted!IrqSend
  <2>2. b \in Byte /\ WellFormed(g) /\ g \in Ring /\ Follow(b, Contents(g), log.put)
    BY <1>1, GetFollows, HostedRing DEF HostedInv, Hosted!TypeOK, WellFormed
  <2> HIDE DEF g, b
  <2>3. /\ ctx'.write_buffer = g /\ ctx'.read_buffer = ctx.read_buffer
        /\ ctx'.halt_flag = ctx.halt_flag /\ ctx'.open = ctx.open
        /\ log'.given = log.given /\ log'.stored = log.stored /\ log'.typed = log.typed
        /\ log'.sent = b /\ log'.put = log.put
    BY <2>1 DEF HostedInv, Hosted!TypeOK
  <2>4. Hosted!TypeOK'
    BY <2>1, <2>2, <2>3, HostedRing DEF HostedInv, Hosted!TypeOK
  <2>5. QED
    BY <2>1, <2>2, <2>3, <2>4 DEF HostedInv, Hosted!NeverStalls
<1>2. CASE ~(ctx.write_buffer.rsz > 0)
  BY <1>2, HostedServes DEF Hosted!IrqSend
<1>3. QED
  BY <1>1, <1>2

LEMMA HostedReceive == ASSUME HostedInv, Hosted!IrqReceive PROVE HostedInv'
<1>1. CASE reg.kbhit = 0
  BY <1>1, HostedServes DEF Hosted!IrqReceive
<1>2. CASE reg.kbhit # 0
  <2>1. reg' = [reg EXCEPT !.kbhit = reg.kbhit - 1] /\ thr' = thr
    BY <1>2 DEF Hosted!IrqReceive
  <2>2. reg' \in [kbhit : 0 .. MaxReceived] /\ reg'.kbhit <= log.typed
    <3>1. reg.kbhit \in 0 .. MaxReceived /\ log.typed \in 0 .. MaxReceived
      BY DEF HostedInv, Hosted!TypeOK
    <3>2. reg.kbhit - 1 \in 0 .. MaxReceived /\ reg.kbhit - 1 <= log.typed
      BY <1>2, <3>1, DriversAssumption DEF HostedInv
    <3>3. QED
      BY <2>1, <3>2 DEF HostedInv, Hosted!TypeOK
  <2>3. CASE ctx.read_buffer.wsz = 0
    <3>1. ctx' = ctx /\ log' = log
      BY <1>2, <2>3 DEF Hosted!IrqReceive
    <3>2. QED
      BY <2>1, <2>2, <3>1 DEF HostedInv, Hosted!TypeOK, Hosted!NeverStalls
  <2>4. CASE ctx.read_buffer.wsz # 0
    <3> DEFINE g == fifo_buffer_putb(ctx.read_buffer, After(log.stored))
    <3>1. /\ ctx' = [ctx EXCEPT !.read_buffer = g]
          /\ log' = [log EXCEPT !.stored = After(log.stored)]
      BY <1>2, <2>4, HostedRing DEF Hosted!IrqReceive
    <3>2. ctx.read_buffer.wsz > 0
      BY <2>4, FifoAssumption, HostedRing DEF HostedInv, Hosted!TypeOK, Ring
    <3>3. /\ After(log.stored) \in Byte /\ WellFormed(g) /\ g \in Ring
          /\ Follow(log.given, Contents(g), After(log.stored))
      BY <3>2, PutFollows, HostedRing DEF HostedInv, Hosted!TypeOK, WellFormed
    <3> HIDE DEF g
    <3>4. /\ ctx'.read_buffer = g /\ ctx'.write_buffer = ctx.write_buffer
          /\ ctx'.halt_flag = ctx.halt_flag /\ ctx'.open = ctx.open
          /\ log'.given = log.given /\ log'.stored = After(log.stored)
          /\ log'.typed = log.typed
          /\ log'.sent = log.sent /\ log'.put = log.put
      BY <3>1 DEF HostedInv, Hosted!TypeOK
    <3>5. Hosted!TypeOK'
      BY <2>1, <2>2, <3>1, <3>3, <3>4, HostedRing DEF HostedInv, Hosted!TypeOK
    <3>6. QED
      BY <2>1, <2>2, <3>3, <3>4, <3>5 DEF HostedInv, Hosted!NeverStalls
  <2>5. QED
    BY <2>3, <2>4
<1>3. QED
  BY <1>1, <1>2

LEMMA HostedIrqLock == ASSUME HostedInv, Hosted!IrqLock PROVE HostedInv'
BY HostedServes DEF Hosted!IrqLock

LEMMA HostedType == ASSUME HostedInv, Hosted!Type PROVE HostedInv'
<1>1. /\ reg' = [reg EXCEPT !.kbhit = reg.kbhit + 1] /\ log.typed < MaxReceived
      /\ log' = [log EXCEPT !.typed = log.typed + 1] /\ ctx' = ctx /\ thr' = thr
  BY DEF Hosted!Type
<1>2. /\ log.typed \in 0 .. MaxReceived /\ reg.kbhit \in 0 .. MaxReceived
      /\ reg.kbhit <= log.typed
  BY DEF HostedInv, Hosted!TypeOK
<1>3. /\ log.typed + 1 \in 0 .. MaxReceived /\ reg.kbhit + 1 \in 0 .. MaxReceived
      /\ reg.kbhit + 1 <= log.typed + 1
  <2>1. log.typed < MaxReceived /\ MaxReceived \in Nat
    BY <1>1, DriversAssumption
  <2>2. QED
    BY <1>2, <2>1
<1>4. Hosted!TypeOK'
  BY <1>1, <1>3 DEF HostedInv, Hosted!TypeOK
<1>5. QED
  BY <1>1, <1>3, <1>4 DEF HostedInv, Hosted!NeverStalls, Hosted!TypeOK

LEMMA HostedStep == HostedInv /\ Hosted!Next => HostedInv'
BY HostedCall, HostedLock, HostedMove, HostedUnlock, HostedClose, HostedJoined, HostedReopen,
   HostedService, HostedIrqLock, HostedSend, HostedReceive, HostedType DEF Hosted!Next

LEMMA HostedProperties == HostedInv => Hosted!TypeOK /\ Hosted!InOrder /\ Hosted!NeverStalls
BY HostedRing DEF HostedInv, Hosted!InOrder, Hosted!Continues, Follow

-----------------------------------------------------------------------------
(* The mutex: MutexProofs, for the threads that share it.                    *)

MutexInv == Holds!MutexInv

LEMMA MutexInit == Mutex!Init => MutexInv
<1>1. Mutex!Init => Holds!Init
  BY DEF Mutex!Init, Holds!Init, Mutex!UNLOCKED, Holds!UNLOCKED
<1>2. QED
  BY <1>1, Holds!MutexInit DEF MutexInv

\* Each action is the action of MutexProofs.
LEMMA MutexActions == Mutex!Next => Holds!Next
<1>1. \A t, f : Mutex!Call(t, f) => Holds!Call(t, f)
  BY DEF Mutex!Call, Holds!Call, Mutex!Goto, Holds!Goto, Mutex!Runs, Holds!Runs
<1>2. \A t : Mutex!Ldrex(t) => Holds!Ldrex(t)
  BY DEF Mutex!Ldrex, Holds!Ldrex, Mutex!Goto, Holds!Goto, Mutex!Runs, Holds!Runs
<1>3. \A t : Mutex!Test(t) => Holds!Test(t)
  BY DEF Mutex!Test, Holds!Test, Mutex!Goto, Holds!Goto, Mutex!Runs, Holds!Runs,
         Mutex!Taken, Holds!Taken, Mutex!LOCKED, Holds!LOCKED
<1>4. \A t : Mutex!Strex(t) => Holds!Strex(t)
  BY DEF Mutex!Strex, Holds!Strex, Mutex!Goto, Holds!Goto, Mutex!Runs, Holds!Runs,
         Mutex!LOCKED, Holds!LOCKED
<1>5. \A t : Mutex!TestAndSet(t) => Holds!TestAndSet(t)
  BY DEF Mutex!TestAndSet, Holds!TestAndSet, Mutex!Goto, Holds!Goto, Mutex!Runs, Holds!Runs,
         Mutex!Taken, Holds!Taken, Mutex!LOCKED, Holds!LOCKED
<1>6. \A t : Mutex!mutex_unlock(t) => Holds!mutex_unlock(t)
  BY DEF Mutex!mutex_unlock, Holds!mutex_unlock, Mutex!Goto, Holds!Goto, Mutex!Runs, Holds!Runs,
         Mutex!UNLOCKED, Holds!UNLOCKED
<1>7. Mutex!Preempt => Holds!Preempt
  BY DEF Mutex!Preempt, Holds!Preempt, Mutex!Clrex, Holds!Clrex
<1>8. \A t : Mutex!Yield(t) => Holds!Yield(t)
  BY DEF Mutex!Yield, Holds!Yield, Mutex!Goto, Holds!Goto, Mutex!Runs, Holds!Runs,
         Mutex!Clrex, Holds!Clrex
<1>9. QED
  BY <1>1, <1>2, <1>3, <1>4, <1>5, <1>6, <1>7, <1>8 DEF Mutex!Next, Holds!Next

LEMMA MutexStep == MutexInv /\ Mutex!Next => MutexInv'
BY MutexActions, Holds!MutexStep DEF MutexInv

LEMMA MutexProperties == MutexInv => Mutex!TypeOK /\ Mutex!OneHolder
BY DEF MutexInv, Holds!MutexInv, Holds!TypeOK, Mutex!TypeOK, Holds!OneHolder, Mutex!OneHolder,
       Holds!Places, Mutex!Places, Holds!LOCKED, Mutex!LOCKED, Holds!UNLOCKED, Mutex!UNLOCKED
-----------------------------------------------------------------------------
(* Two queues, one behind the other.                                         *)

\* What is put into the second comes last of all.
LEMMA PutBehind ==
  ASSUME NEW s \in Seq(Byte), NEW q \in Seq(Byte), NEW b \in Byte
  PROVE  s \o Append(q, b) = Append(s \o q, b)
<1>1. <<b>> \in Seq(Byte) /\ s \o q \in Seq(Byte)
  BY ConcatProperties
<1>2. Append(q, b) = q \o <<b>> /\ Append(s \o q, b) = (s \o q) \o <<b>>
  BY <1>1, AppendIsConcat
<1>3. QED
  BY <1>1, <1>2, ConcatAssociative

\* What moves from the second into the first keeps its place.
LEMMA MoveAhead ==
  ASSUME NEW s \in Seq(Byte), NEW q \in Seq(Byte), q # <<>>
  PROVE  Append(s, Head(q)) \o Tail(q) = s \o q
<1> DEFINE h == Head(q)
           t == Tail(q)
           z == Append(s, h)
<1>1. /\ h \in Byte /\ t \in Seq(Byte) /\ Len(t) = Len(q) - 1 /\ h = q[1]
      /\ \A i \in 1 .. Len(t) : t[i] = q[i + 1]
  BY HeadTailProperties
<1>2. /\ z \in Seq(Byte) /\ Len(z) = Len(s) + 1 /\ z[Len(s) + 1] = h
      /\ \A i \in 1 .. Len(s) : z[i] = s[i]
  BY <1>1, AppendProperties
<1> HIDE DEF h, t, z
<1>3. Len(q) \in Nat \ {0} /\ Len(s) \in Nat
  BY EmptySeq, LenProperties
<1>4. /\ z \o t \in Seq(Byte) /\ Len(z \o t) = Len(s) + Len(q)
      /\ \A i \in 1 .. Len(s) + Len(q) :
           (z \o t)[i] = IF i <= Len(s) + 1 THEN z[i] ELSE t[i - (Len(s) + 1)]
  <2>1. Len(z) + Len(t) = Len(s) + Len(q)
    BY <1>1, <1>2, <1>3
  <2>2. /\ z \o t \in Seq(Byte) /\ Len(z \o t) = Len(z) + Len(t)
        /\ \A i \in 1 .. Len(z) + Len(t) :
             (z \o t)[i] = IF i <= Len(z) THEN z[i] ELSE t[i - Len(z)]
    BY <1>1, <1>2, ConcatProperties
  <2>3. QED
    BY <1>2, <2>1, <2>2
<1>5. /\ s \o q \in Seq(Byte) /\ Len(s \o q) = Len(s) + Len(q)
      /\ \A i \in 1 .. Len(s) + Len(q) :
           (s \o q)[i] = IF i <= Len(s) THEN s[i] ELSE q[i - Len(s)]
  BY ConcatProperties
<1>6. ASSUME NEW i \in 1 .. Len(s) + Len(q) PROVE (z \o t)[i] = (s \o q)[i]
  <2>1. CASE i <= Len(s)
    BY <1>2, <1>3, <1>4, <1>5, <2>1
  <2>2. CASE i = Len(s) + 1
    <3>1. (z \o t)[i] = h /\ (s \o q)[i] = q[i - Len(s)] /\ i - Len(s) = 1
      BY <1>2, <1>3, <1>4, <1>5, <2>2
    <3>2. QED
      BY <1>1, <3>1
  <2>3. CASE i > Len(s) + 1
    <3>1. /\ (z \o t)[i] = t[i - (Len(s) + 1)] /\ (s \o q)[i] = q[i - Len(s)]
          /\ i - (Len(s) + 1) \in 1 .. Len(t) /\ (i - (Len(s) + 1)) + 1 = i - Len(s)
      BY <1>1, <1>3, <1>4, <1>5, <2>3
    <3>2. QED
      BY <1>1, <3>1
  <2>4. QED
    <3>1. i <= Len(s) \/ i = Len(s) + 1 \/ i > Len(s) + 1
      BY <1>3
    <3>2. QED
      BY <2>1, <2>2, <2>3, <3>1
<1>7. z \o t = s \o q
  BY <1>4, <1>5, <1>6, SeqEqual
<1>8. QED
  BY <1>7 DEF z, h, t

\* What leaves the first leaves both.
LEMMA LeaveBoth ==
  ASSUME NEW s \in Seq(Byte), NEW q \in Seq(Byte), s # <<>>
  PROVE  /\ s \o q # <<>> /\ Head(s \o q) = Head(s) /\ Tail(s \o q) = Tail(s) \o q
<1> DEFINE t == Tail(s)
           c == s \o q
<1>1. /\ Head(s) = s[1] /\ t \in Seq(Byte) /\ Len(t) = Len(s) - 1
      /\ \A i \in 1 .. Len(t) : t[i] = s[i + 1]
  BY HeadTailProperties
<1>2. Len(s) \in Nat \ {0} /\ Len(q) \in Nat
  BY EmptySeq, LenProperties
<1>3. /\ c \in Seq(Byte) /\ Len(c) = Len(s) + Len(q)
      /\ \A i \in 1 .. Len(s) + Len(q) : c[i] = IF i <= Len(s) THEN s[i] ELSE q[i - Len(s)]
  BY ConcatProperties
<1>4. c # <<>> /\ c[1] = s[1]
  BY <1>2, <1>3
<1>5. /\ Head(c) = c[1] /\ Tail(c) \in Seq(Byte) /\ Len(Tail(c)) = Len(c) - 1
      /\ \A i \in 1 .. Len(Tail(c)) : Tail(c)[i] = c[i + 1]
  BY <1>3, <1>4, HeadTailProperties
<1>6. /\ t \o q \in Seq(Byte) /\ Len(t \o q) = Len(s) - 1 + Len(q)
      /\ \A i \in 1 .. Len(s) - 1 + Len(q) :
           (t \o q)[i] = IF i <= Len(s) - 1 THEN t[i] ELSE q[i - (Len(s) - 1)]
  BY <1>1, <1>2, ConcatProperties
<1> HIDE DEF t, c
<1>7. ASSUME NEW i \in 1 .. Len(s) - 1 + Len(q) PROVE Tail(c)[i] = (t \o q)[i]
  <2>1. Tail(c)[i] = c[i + 1] /\ i + 1 \in 1 .. Len(s) + Len(q)
    BY <1>2, <1>3, <1>5
  <2>2. CASE i <= Len(s) - 1
    <3>1. i + 1 <= Len(s) /\ i \in 1 .. Len(t)
      BY <1>1, <1>2, <2>2
    <3>2. c[i + 1] = s[i + 1] /\ (t \o q)[i] = t[i] /\ t[i] = s[i + 1]
      BY <1>1, <1>3, <1>6, <2>1, <2>2, <3>1, Zenon
    <3>3. QED
      BY <2>1, <3>2, Zenon
  <2>3. CASE i > Len(s) - 1
    <3>1. i + 1 - Len(s) = i - (Len(s) - 1) /\ ~(i + 1 <= Len(s)) /\ ~(i <= Len(s) - 1)
      BY <1>2, <2>3
    <3>2. c[i + 1] = q[i + 1 - Len(s)]
      BY <1>3, <2>1, <3>1
    <3>3. (t \o q)[i] = q[i - (Len(s) - 1)]
      BY <1>6, <3>1
    <3>4. QED
      BY <2>1, <3>1, <3>2, <3>3, Zenon
  <2>4. i <= Len(s) - 1 \/ i > Len(s) - 1
    BY <1>2
  <2>5. QED
    BY <2>2, <2>3, <2>4
<1>8. Tail(c) = t \o q
  <2>1. Len(Tail(c)) = Len(s) - 1 + Len(q)
    BY <1>2, <1>3, <1>5
  <2>2. \A i \in 1 .. Len(Tail(c)) : Tail(c)[i] = (t \o q)[i]
    BY <1>7, <2>1, Zenon
  <2>3. Len(Tail(c)) = Len(t \o q) /\ Tail(c) \in Seq(Byte) /\ t \o q \in Seq(Byte)
    BY <1>5, <1>6, <2>1, Zenon
  <2>4. QED
    BY <2>2, <2>3, SeqEqual, Zenon
<1>9. QED
  BY <1>1, <1>4, <1>5, <1>8 DEF t, c
-----------------------------------------------------------------------------
(* The console of the OMAP and its interrupt controller.                     *)

\* How far console_setup and the scheduler have come: n calls are still to be made.
UartBoots ==
  LET n == Len(thr.todo)
      intc == ctx.intc
  IN  /\ n = 4 => reg.IER = {}
      /\ n <= 3 => "RHR_IT" \in reg.IER
      /\ intc.functions[Uart!UART3] = IF n > 2 THEN NoHandler ELSE "uart"
      /\ intc.functions[Uart!TIMER1] = IF n > 0 THEN NoHandler ELSE "timer"
      /\ Uart!UART3 \in intc.masked <=> n > 1
      /\ Uart!TIMER1 \in intc.masked <=> n > 0

\* The controller waits while an interrupt is handled, and has sent it for a line that it may.
UartIrqs ==
  /\ ctx.intc.agreed <=> thr.irq = "out"
  /\ thr.irq = "called" => thr.SIR \in {Uart!UART3, Uart!TIMER1} \ ctx.intc.masked

\* No handler runs while the lock is held, nobody calls before the boot is over, and what is
\* in the ring, or is about to be, has its interrupt enabled.
UartMoves ==
  /\ thr.pc[User] = "move" => thr.irq = "out"
  /\ thr.pc[User] # "out" => thr.todo = <<>>
  /\ thr.pc[User] = "move" /\ thr.call[User] = "write" => "THR_IT" \in reg.IER
  /\ ctx.write_buffer.rsz > 0 => "THR_IT" \in reg.IER

UartOrder ==
  /\ Follow(log.sent, reg.THR \o Contents(ctx.write_buffer), log.put)
  /\ Follow(log.given, Contents(ctx.read_buffer), log.stored)

UartInv == Uart!TypeOK /\ UartBoots /\ UartIrqs /\ UartMoves /\ UartOrder

\* The rings of the driver are those of FifoBuffer.
LEMMA UartRing ==
  /\ \A f, b : Uart!fifo_buffer_putb(f, b) = fifo_buffer_putb(f, b)
  /\ \A f : /\ Uart!fifo_buffer_getb(f) = fifo_buffer_getb(f)
            /\ Uart!NextByte(f) = NextByte(f)
            /\ Uart!WellFormed(f) <=> WellFormed(f)
            /\ Uart!Contents(f) = Contents(f)
  /\ Uart!fifo_buffer_create = fifo_buffer_create
  /\ Uart!Ring = Ring
  /\ \A n : Uart!Following(n) = After(n)
BY DEF Uart!fifo_buffer_putb, fifo_buffer_putb, Uart!fifo_buffer_getb, fifo_buffer_getb,
       Uart!NextByte, NextByte, Uart!WellFormed, WellFormed, Uart!Contents, Contents,
       Uart!fifo_buffer_create, fifo_buffer_create, Uart!Ring, Ring, Uart!Wrap, Wrap,
       Uart!Advance, Advance, Uart!Following, After

Steps == {SubSeq(Uart!Calls, i, Len(Uart!Calls)) : i \in 1 .. Len(Uart!Calls) + 1}

\* The calls at boot that are left after the first of them.
LEMMA StepsLeft ==
  /\ Len(Uart!Calls) = 4 /\ Uart!Calls \in Steps /\ <<>> \in Steps
  /\ \A s \in Steps : s # <<>> => /\ Len(s) \in 1 .. 4 /\ Head(s) = Uart!Calls[5 - Len(s)]
                                  /\ Tail(s) \in Steps /\ Len(Tail(s)) = Len(s) - 1
<1> DEFINE S == {"chrd_open", "register_handler", "unmask", "sched_init"}
           C == Uart!Calls
<1>1. C \in Seq(S) /\ Len(C) = 4
  BY DEF Uart!Calls
<1> HIDE DEF C, S
<1>2. ASSUME NEW i \in 1 .. 5
      PROVE  /\ SubSeq(C, i, 4) \in Seq(S) /\ Len(SubSeq(C, i, 4)) = 5 - i
             /\ \A j \in 1 .. 5 - i : SubSeq(C, i, 4)[j] = C[i + j - 1]
  <2>1. \A j \in i .. 4 : C[j] \in S
    <3>1. C \in [1 .. 4 -> S]
      BY <1>1, LenProperties
    <3>2. QED
      BY <3>1
  <2>2. /\ SubSeq(C, i, 4) \in Seq(S)
        /\ Len(SubSeq(C, i, 4)) = IF i <= 4 THEN 4 - i + 1 ELSE 0
        /\ \A j \in 1 .. 4 - i + 1 : SubSeq(C, i, 4)[j] = C[i + j - 1]
    BY <2>1, SubSeqProperties
  <2>3. 4 - i + 1 = 5 - i
    OBVIOUS
  <2>4. QED
    BY <2>2, <2>3
<1>3. ASSUME NEW i \in 1 .. 5, SubSeq(C, i, 4) # <<>>
      PROVE  /\ i \in 1 .. 4 /\ Head(SubSeq(C, i, 4)) = C[i]
             /\ Tail(SubSeq(C, i, 4)) = SubSeq(C, i + 1, 4)
  <2>1. i \in 1 .. 4
    BY <1>2, <1>3, EmptySeq
  <2>2. QED
    BY <1>1, <2>1, HeadTailOfSubSeq
<1>4. Steps = {SubSeq(C, i, 4) : i \in 1 .. 5}
  BY <1>1 DEF Steps, C
<1>5. C \in Steps
  <2>1. SubSeq(C, 1, 4) = C
    BY <1>1, SubSeqFull
  <2>2. QED
    BY <1>4, <2>1
<1>6. <<>> \in Steps
  <2>1. SubSeq(C, 5, 4) = <<>>
    BY SubSeqEmpty
  <2>2. QED
    BY <1>4, <2>1
<1>7. ASSUME NEW s \in Steps, s # <<>>
      PROVE  /\ Len(s) \in 1 .. 4 /\ Head(s) = C[5 - Len(s)]
             /\ Tail(s) \in Steps /\ Len(Tail(s)) = Len(s) - 1
  <2>1. PICK i \in 1 .. 5 : s = SubSeq(C, i, 4)
    BY <1>4
  <2>2. i \in 1 .. 4 /\ Head(s) = C[i] /\ Tail(s) = SubSeq(C, i + 1, 4)
    BY <1>3, <1>7, <2>1
  <2>3. i + 1 \in 1 .. 5
    BY <2>2
  <2>4. Len(s) = 5 - i /\ Len(Tail(s)) = 5 - (i + 1)
    BY <1>2, <2>1, <2>2, <2>3
  <2>5. Len(s) \in 1 .. 4 /\ 5 - Len(s) = i /\ Len(Tail(s)) = Len(s) - 1
    BY <2>2, <2>4
  <2>6. QED
    BY <1>4, <2>2, <2>3, <2>5
<1>8. QED
  BY <1>1, <1>5, <1>6, <1>7 DEF C
LEMMA UartInit == Uart!Init => UartInv
<1> SUFFICES ASSUME Uart!Init PROVE UartInv
  OBVIOUS
<1>1. PICK f \in fifo_buffer_create :
        ctx = [read_buffer |-> f, write_buffer |-> f, intc |-> Uart!IntcOpen]
  BY UartRing DEF Uart!Init
<1>2. WellFormed(f) /\ Contents(f) = <<>> /\ f \in Ring /\ f.rsz = 0
  BY CreateEmpty DEF WellFormed, fifo_buffer_create
<1>3. thr.todo = Uart!Calls /\ thr.todo \in Steps /\ Len(thr.todo) = 4
  BY StepsLeft DEF Uart!Init
<1>4. {Uart!UART3, Uart!TIMER1} \subseteq Lines
  BY DriversAssumption DEF Uart!UART3, Uart!TIMER1
<1>5. /\ reg = [IER |-> {}, THR |-> <<>>, RHR |-> 0, TISR |-> FALSE] /\ <<>> \in Seq(Byte)
      /\ Len(<<>>) <= Depth /\ 0 \in 0 .. Depth
  BY EmptySeq, DriversAssumption DEF Uart!Init
<1>6. /\ thr.pc \in [{User} -> {"out", "lock", "move"}]
      /\ thr \in [todo : Steps, pc : [{User} -> {"out", "lock", "move"}],
                  call : [{User} -> {"write", "read"}], count : [{User} -> 0 .. MaxCount],
                  irq : {"out", "called", "thr", "rhr", "end"}, SIR : Lines]
  BY <1>3, <1>4, DriversAssumption DEF Uart!Init
<1>7. Uart!TypeOK
  <2>1. ctx \in [read_buffer : Ring, write_buffer : Ring,
                 intc : [functions : [Lines -> {"uart", "timer", NoHandler}],
                         masked : SUBSET Lines, agreed : BOOLEAN]]
    BY <1>1, <1>2 DEF Uart!IntcOpen
  <2>2. log \in [put : Byte, sent : Byte, stored : Byte, given : Byte, received : 0 .. MaxReceived]
    BY ByteFacts, DriversAssumption DEF Uart!Init
  <2>3. QED
    BY <1>1, <1>2, <1>5, <1>6, <2>1, <2>2, UartRing DEF Uart!TypeOK, Steps
<1>8. UartOrder
  <2>1. Contents(ctx.write_buffer) = <<>> /\ Contents(ctx.read_buffer) = <<>>
    BY <1>1, <1>2
  <2>2. reg.THR \o Contents(ctx.write_buffer) = <<>>
    BY <1>5, <2>1
  <2>3. QED
    BY <2>1, <2>2, FollowNone, ByteFacts DEF UartOrder, Uart!Init
<1>9. UartBoots
  <2>1. /\ ctx.intc.functions = [l \in Lines |-> NoHandler] /\ ctx.intc.masked = Lines
        /\ reg.IER = {}
    BY <1>1, <1>5 DEF Uart!IntcOpen
  <2>2. QED
    BY <1>3, <1>4, <2>1 DEF UartBoots
<1>10. UartIrqs /\ UartMoves
  BY <1>1, <1>2 DEF UartIrqs, UartMoves, Uart!Init, Uart!IntcOpen
<1>11. QED
  BY <1>7, <1>8, <1>9, <1>10 DEF UartInv

\* The order of console_setup: how many calls are left says which comes next.
LEMMA CallAt ==
  ASSUME NEW n \in 1 .. 4
  PROVE  /\ Uart!Calls[5 - n] = "chrd_open" => n = 4
         /\ Uart!Calls[5 - n] = "register_handler" => n = 3
         /\ Uart!Calls[5 - n] = "unmask" => n = 2
         /\ Uart!Calls[5 - n] = "sched_init" => n = 1
<1>1. /\ Uart!Calls[1] = "chrd_open" /\ Uart!Calls[2] = "register_handler"
      /\ Uart!Calls[3] = "unmask" /\ Uart!Calls[4] = "sched_init"
  BY DEF Uart!Calls
<1>2. n \in {1, 2, 3, 4} /\ 5 - 1 = 4 /\ 5 - 2 = 3 /\ 5 - 3 = 2 /\ 5 - 4 = 1
  OBVIOUS
<1>3. QED
  BY <1>1, <1>2

\* A call at boot: which one it is says how many are left.
UartThread == [todo : Steps, pc : [{User} -> {"out", "lock", "move"}],
               call : [{User} -> {"write", "read"}], count : [{User} -> 0 .. MaxCount],
               irq : {"out", "called", "thr", "rhr", "end"}, SIR : Lines]

LEMMA UartTyped ==
  ASSUME UartInv
  PROVE  /\ thr \in UartThread
         /\ ctx \in [read_buffer : Ring, write_buffer : Ring,
                     intc : [functions : [Lines -> {"uart", "timer", NoHandler}],
                             masked : SUBSET Lines, agreed : BOOLEAN]]
         /\ WellFormed(ctx.read_buffer) /\ WellFormed(ctx.write_buffer)
         /\ reg \in [IER : SUBSET {"THR_IT", "RHR_IT"}, THR : Seq(Byte), RHR : 0 .. Depth,
                     TISR : BOOLEAN]
         /\ Len(reg.THR) <= Depth
         /\ log \in [put : Byte, sent : Byte, stored : Byte, given : Byte,
                     received : 0 .. MaxReceived]
BY UartRing DEF UartInv, Uart!TypeOK, UartThread, Steps

LEMMA UartType ==
  ASSUME ctx' \in [read_buffer : Ring, write_buffer : Ring,
                   intc : [functions : [Lines -> {"uart", "timer", NoHandler}],
                           masked : SUBSET Lines, agreed : BOOLEAN]],
         WellFormed(ctx'.read_buffer), WellFormed(ctx'.write_buffer),
         reg' \in [IER : SUBSET {"THR_IT", "RHR_IT"}, THR : Seq(Byte), RHR : 0 .. Depth,
                   TISR : BOOLEAN],
         Len(reg'.THR) <= Depth, thr' \in UartThread,
         log' \in [put : Byte, sent : Byte, stored : Byte, given : Byte,
                   received : 0 .. MaxReceived]
  PROVE  Uart!TypeOK'
BY UartRing DEF Uart!TypeOK, UartThread, Steps

LEMMA UartCall ==
  ASSUME UartInv, NEW call, Uart!Boots(call)
  PROVE  /\ call = Uart!Calls[5 - Len(thr.todo)] /\ Len(thr.todo) \in 1 .. 4
         /\ thr' = [thr EXCEPT !.todo = Tail(thr.todo)] /\ log' = log
         /\ Len(thr'.todo) = Len(thr.todo) - 1
         /\ thr' \in [todo : Steps, pc : [{User} -> {"out", "lock", "move"}],
                      call : [{User} -> {"write", "read"}], count : [{User} -> 0 .. MaxCount],
                      irq : {"out", "called", "thr", "rhr", "end"}, SIR : Lines]
         /\ thr'.irq = "out" /\ thr.irq = "out" /\ ctx.intc.agreed
         /\ thr'.pc[User] = "out" /\ thr.pc[User] = "out"
<1>1. /\ thr \in [todo : Steps, pc : [{User} -> {"out", "lock", "move"}],
                  call : [{User} -> {"write", "read"}], count : [{User} -> 0 .. MaxCount],
                  irq : {"out", "called", "thr", "rhr", "end"}, SIR : Lines]
      /\ thr.todo # <<>> /\ Head(thr.todo) = call /\ thr.irq = "out" /\ log' = log
      /\ thr' = [thr EXCEPT !.todo = Tail(thr.todo)]
  BY DEF UartInv, Uart!TypeOK, Steps, Uart!Boots
<1>2. /\ call = Uart!Calls[5 - Len(thr.todo)] /\ Len(thr.todo) \in 1 .. 4
      /\ Tail(thr.todo) \in Steps /\ Len(Tail(thr.todo)) = Len(thr.todo) - 1
  BY <1>1, StepsLeft
<1>3. thr.pc[User] = "out" /\ ctx.intc.agreed
  BY <1>1 DEF UartInv, UartMoves, UartIrqs
<1>4. thr'.todo = Tail(thr.todo) /\ thr'.pc = thr.pc /\ thr'.irq = thr.irq
  BY <1>1
<1>5. QED
  BY <1>1, <1>2, <1>3, <1>4

LEMMA UartOpen == ASSUME UartInv, Uart!_chrd_open PROVE UartInv'
<1>1. Uart!Boots("chrd_open") /\ reg' = [reg EXCEPT !.IER = {"RHR_IT"}] /\ ctx' = ctx
  BY DEF Uart!_chrd_open
<1>2. Len(thr.todo) = 4 /\ Len(thr'.todo) = 3
  <2>1. Len(thr.todo) = 4
    BY <1>1, UartCall, CallAt
  <2>2. QED
    BY <1>1, <2>1, UartCall
<1>3. reg.IER = {} /\ reg'.THR = reg.THR /\ reg'.IER = {"RHR_IT"}
  BY <1>1, <1>2 DEF UartInv, UartBoots, Uart!TypeOK
<1>4. Uart!TypeOK'
  <2>1. thr' \in UartThread /\ log' = log
    BY <1>1, UartCall DEF UartThread
  <2>2. reg' \in [IER : SUBSET {"THR_IT", "RHR_IT"}, THR : Seq(Byte), RHR : 0 .. Depth,
                  TISR : BOOLEAN]
    BY <1>1, UartTyped
  <2>3. QED
    BY <1>1, <1>3, <2>1, <2>2, UartType, UartTyped
<1>5. UartBoots'
  BY <1>1, <1>2, <1>3 DEF UartInv, UartBoots
<1>6. UartIrqs' /\ UartMoves'
  BY <1>1, <1>3, UartCall DEF UartInv, UartIrqs, UartMoves
<1>7. UartOrder'
  BY <1>1, <1>3, UartCall DEF UartInv, UartOrder
<1>8. QED
  BY <1>4, <1>5, <1>6, <1>7 DEF UartInv

\* What the boot does to the controller leaves the rings alone.
LEMMA UartController ==
  ASSUME UartInv, NEW call, Uart!Boots(call), reg' = reg,
         NEW intc \in [functions : [Lines -> {"uart", "timer", NoHandler}],
                       masked : SUBSET Lines, agreed : {TRUE}],
         ctx' = [ctx EXCEPT !.intc = intc], UartBoots'
  PROVE  UartInv'
<1>1. /\ ctx'.read_buffer = ctx.read_buffer /\ ctx'.write_buffer = ctx.write_buffer
      /\ ctx'.intc = intc /\ intc.agreed
  BY DEF UartInv, Uart!TypeOK
<1>2. Uart!TypeOK'
  <2>1. thr' \in UartThread /\ log' = log
    BY UartCall DEF UartThread
  <2>2. ctx' \in [read_buffer : Ring, write_buffer : Ring,
                  intc : [functions : [Lines -> {"uart", "timer", NoHandler}],
                          masked : SUBSET Lines, agreed : BOOLEAN]]
    BY UartTyped
  <2>3. QED
    BY <1>1, <2>1, <2>2, UartType, UartTyped
<1>3. UartIrqs' /\ UartMoves'
  BY <1>1, UartCall DEF UartInv, UartIrqs, UartMoves
<1>4. UartOrder'
  BY <1>1, UartCall DEF UartInv, UartOrder
<1>5. QED
  BY <1>2, <1>3, <1>4 DEF UartInv

LEMMA LinesInTable ==
  /\ Uart!UART3 = 74 /\ Uart!TIMER1 = 37 /\ 74 \in Lines /\ 37 \in Lines
  /\ 74 < INTERRUPTS_MAX /\ 37 < INTERRUPTS_MAX
  /\ \A l \in Lines : l < INTERRUPTS_MAX /\ ~(l >= INTERRUPTS_MAX)
  /\ NoHandler # "uart" /\ NoHandler # "timer"
BY DriversAssumption DEF Uart!UART3, Uart!TIMER1

LEMMA UartRegister == ASSUME UartInv, Uart!Register PROVE UartInv'
<1> DEFINE intc == [ctx.intc EXCEPT !.functions = [ctx.intc.functions EXCEPT ![74] = "uart"]]
<1>1. Uart!Boots("register_handler") /\ reg' = reg
  BY DEF Uart!Register
<1>2. Len(thr.todo) = 3 /\ Len(thr'.todo) = 2
  <2>1. Len(thr.todo) = 3
    BY <1>1, UartCall, CallAt
  <2>2. QED
    BY <1>1, <2>1, UartCall
<1>3. ctx' = [ctx EXCEPT !.intc = intc]
  BY <1>2, LinesInTable DEF Uart!Register, Uart!_register_handler, UartInv, UartBoots
<1>4. intc \in [functions : [Lines -> {"uart", "timer", NoHandler}], masked : SUBSET Lines,
                agreed : {TRUE}]
  BY <1>1, UartCall DEF UartInv, Uart!TypeOK
<1>5. /\ intc.functions[74] = "uart" /\ intc.functions[37] = ctx.intc.functions[37]
      /\ intc.masked = ctx.intc.masked
  BY LinesInTable DEF UartInv, Uart!TypeOK
<1>6. ctx'.intc = intc
  BY <1>3 DEF UartInv, Uart!TypeOK
<1> HIDE DEF intc
<1>7. UartBoots'
  BY <1>1, <1>2, <1>5, <1>6, LinesInTable DEF UartInv, UartBoots
<1>8. QED
  BY <1>1, <1>3, <1>4, <1>7, UartController

LEMMA UartUnmask == ASSUME UartInv, Uart!Unmask PROVE UartInv'
<1> DEFINE intc == [ctx.intc EXCEPT !.masked = ctx.intc.masked \ {74}]
<1>1. Uart!Boots("unmask") /\ reg' = reg
  BY DEF Uart!Unmask
<1>2. Len(thr.todo) = 2 /\ Len(thr'.todo) = 1
  <2>1. Len(thr.todo) = 2
    BY <1>1, UartCall, CallAt
  <2>2. QED
    BY <1>1, <2>1, UartCall
<1>3. ctx' = [ctx EXCEPT !.intc = intc]
  BY LinesInTable DEF Uart!Unmask, Uart!_unmask
<1>4. intc \in [functions : [Lines -> {"uart", "timer", NoHandler}], masked : SUBSET Lines,
                agreed : {TRUE}]
  BY <1>1, UartCall DEF UartInv, Uart!TypeOK
<1>5. intc.functions = ctx.intc.functions /\ intc.masked = ctx.intc.masked \ {74}
  BY DEF UartInv, Uart!TypeOK
<1>6. ctx'.intc = intc
  BY <1>3 DEF UartInv, Uart!TypeOK
<1> HIDE DEF intc
<1>7. UartBoots'
  BY <1>1, <1>2, <1>5, <1>6, LinesInTable DEF UartInv, UartBoots
<1>8. QED
  BY <1>1, <1>3, <1>4, <1>7, UartController

LEMMA UartSched == ASSUME UartInv, Uart!SchedInit PROVE UartInv'
<1> DEFINE intc == [ctx.intc EXCEPT !.functions = [ctx.intc.functions EXCEPT ![37] = "timer"],
                                    !.masked = ctx.intc.masked \ {37}]
<1>1. Uart!Boots("sched_init") /\ reg' = reg
  BY DEF Uart!SchedInit
<1>2. Len(thr.todo) = 1 /\ Len(thr'.todo) = 0
  <2>1. Len(thr.todo) = 1
    BY <1>1, UartCall, CallAt
  <2>2. QED
    BY <1>1, <2>1, UartCall
<1>3. ctx' = [ctx EXCEPT !.intc = intc]
  <2>1. ctx.intc.functions[37] = NoHandler
    BY <1>2, LinesInTable DEF UartInv, UartBoots
  <2>2. Uart!_register_handler(ctx.intc, 37, "timer")
          = [ctx.intc EXCEPT !.functions = [ctx.intc.functions EXCEPT ![37] = "timer"]]
    BY <2>1, LinesInTable DEF Uart!_register_handler
  <2>3. Uart!_unmask(Uart!_register_handler(ctx.intc, 37, "timer"), 37) = intc
    BY <2>2, LinesInTable DEF Uart!_unmask, UartInv, Uart!TypeOK
  <2>4. QED
    BY <2>3, LinesInTable DEF Uart!SchedInit
<1>4. intc \in [functions : [Lines -> {"uart", "timer", NoHandler}], masked : SUBSET Lines,
                agreed : {TRUE}]
  BY <1>1, UartCall DEF UartInv, Uart!TypeOK
<1>5. /\ intc.functions[37] = "timer" /\ intc.functions[74] = ctx.intc.functions[74]
      /\ intc.masked = ctx.intc.masked \ {37}
  BY LinesInTable DEF UartInv, Uart!TypeOK
<1>6. ctx'.intc = intc
  BY <1>3 DEF UartInv, Uart!TypeOK
<1> HIDE DEF intc
<1>7. UartBoots'
  BY <1>1, <1>2, <1>5, <1>6, LinesInTable DEF UartInv, UartBoots
<1>8. QED
  BY <1>1, <1>3, <1>4, <1>7, UartController
LEMMA UartCalls ==
  ASSUME UartInv, NEW f \in {"write", "read"}, NEW n \in 1 .. MaxCount, Uart!Call(User, f, n)
  PROVE  UartInv'
<1>1. /\ thr' = [thr EXCEPT !.pc = [thr.pc EXCEPT ![User] = "lock"],
                            !.call = [thr.call EXCEPT ![User] = f],
                            !.count = [thr.count EXCEPT ![User] = n]]
      /\ ctx' = ctx /\ reg' = reg /\ log' = log /\ thr.todo = <<>>
  BY DEF Uart!Call
<1>2. n \in 0 .. MaxCount
  BY DriversAssumption
<1>3. /\ thr' \in UartThread /\ thr'.todo = thr.todo /\ thr'.irq = thr.irq /\ thr'.SIR = thr.SIR
      /\ thr'.pc[User] = "lock"
  BY <1>1, <1>2, UartTyped DEF UartThread
<1>4. Uart!TypeOK'
  BY <1>1, <1>3, UartType, UartTyped
<1>5. QED
  BY <1>1, <1>3, <1>4 DEF UartInv, UartBoots, UartIrqs, UartMoves, UartOrder

\* The interrupt is enabled before the ring is filled.
LEMMA UartLock == ASSUME UartInv, Uart!Lock(User) PROVE UartInv'
<1>1. /\ thr' = [thr EXCEPT !.pc = [thr.pc EXCEPT ![User] = "move"]]
      /\ ctx' = ctx /\ log' = log /\ thr.irq = "out" /\ thr.pc[User] = "lock"
  BY DEF Uart!Lock, Uart!Goto, Uart!Runs
<1>2. /\ thr' \in UartThread /\ thr'.todo = thr.todo /\ thr'.irq = thr.irq /\ thr'.SIR = thr.SIR
      /\ thr'.pc[User] = "move" /\ thr'.call = thr.call /\ thr.todo = <<>>
  BY <1>1, UartTyped DEF UartThread, UartInv, UartMoves
<1>3. /\ reg' \in [IER : SUBSET {"THR_IT", "RHR_IT"}, THR : Seq(Byte), RHR : 0 .. Depth,
                   TISR : BOOLEAN]
      /\ reg'.THR = reg.THR /\ reg.IER \subseteq reg'.IER
      /\ thr.call[User] = "write" => "THR_IT" \in reg'.IER
  BY UartTyped DEF Uart!Lock, Uart!WithTransmit
<1>4. Uart!TypeOK'
  BY <1>1, <1>2, <1>3, UartType, UartTyped
<1>5. Len(thr.todo) = 0
  BY <1>2
<1>6. UartBoots'
  <2>1. "RHR_IT" \in reg'.IER
    BY <1>3, <1>5 DEF UartInv, UartBoots
  <2>2. Len(thr'.todo) = 0 /\ ctx'.intc = ctx.intc
    BY <1>1, <1>2, <1>5
  <2>3. QED
    BY <1>5, <2>1, <2>2 DEF UartInv, UartBoots
<1>7. UartIrqs' /\ UartMoves' /\ UartOrder'
  BY <1>1, <1>2, <1>3 DEF UartInv, UartIrqs, UartMoves, UartOrder
<1>8. QED
  BY <1>4, <1>6, <1>7 DEF UartInv

LEMMA UartMove == ASSUME UartInv, Uart!Move(User) PROVE UartInv'
<1>1. /\ thr' = [thr EXCEPT !.count = [thr.count EXCEPT ![User] = thr.count[User] - 1]]
      /\ thr.count[User] > 0 /\ reg' = reg /\ thr.pc[User] = "move"
  BY DEF Uart!Move, Uart!CanMove
<1>2. thr.count[User] - 1 \in 0 .. MaxCount
  <2>1. thr.count[User] \in 0 .. MaxCount
    BY UartTyped DEF UartThread
  <2>2. QED
    BY <1>1, <2>1, CallBounds, CountStep, Zenon
<1>3. /\ thr' \in UartThread /\ thr'.todo = thr.todo /\ thr'.irq = thr.irq /\ thr'.SIR = thr.SIR
      /\ thr'.pc = thr.pc /\ thr'.call = thr.call
  BY <1>1, <1>2, UartTyped DEF UartThread
<1>4. CASE thr.call[User] = "write"
  <2> DEFINE b == After(log.put)
             g == fifo_buffer_putb(ctx.write_buffer, b)
             c == Contents(ctx.write_buffer)
  <2>1. /\ ctx' = [ctx EXCEPT !.write_buffer = g] /\ log' = [log EXCEPT !.put = b]
        /\ ctx.write_buffer.wsz > 0
    BY <1>4, UartRing DEF Uart!Move, Uart!CanMove
  <2>2. b \in Byte /\ c \in Seq(Byte) /\ reg.THR \in Seq(Byte)
    BY UartTyped, ByteFacts, ContentsIsSeq
  <2>3. WellFormed(g) /\ g \in Ring /\ Contents(g) = Append(c, b)
    BY <2>1, <2>2, PutAppends, UartTyped DEF WellFormed
  <2>4. Follow(log.sent, reg.THR \o Contents(g), b)
    <3>1. /\ reg.THR \o c \in Seq(Byte) /\ reg.THR \o Contents(g) = Append(reg.THR \o c, b)
          /\ Follow(log.sent, reg.THR \o c, log.put) /\ log.sent \in Byte
      BY <2>2, <2>3, PutBehind, ConcatProperties, UartTyped DEF UartInv, UartOrder
    <3>2. QED
      BY <3>1, FollowAppend
  <2> HIDE DEF g, b, c
  <2>5. /\ ctx'.write_buffer = g /\ ctx'.read_buffer = ctx.read_buffer /\ ctx'.intc = ctx.intc
        /\ log'.put = b /\ log'.sent = log.sent
        /\ log'.given = log.given /\ log'.stored = log.stored
    BY <2>1, UartTyped
  <2>6. Uart!TypeOK'
    BY <1>1, <1>3, <2>1, <2>2, <2>3, <2>5, UartType, UartTyped
  <2>7. QED
    BY <1>1, <1>3, <1>4, <2>4, <2>5, <2>6 DEF UartInv, UartBoots, UartIrqs, UartMoves, UartOrder
<1>5. CASE thr.call[User] # "write"
  <2> DEFINE g == fifo_buffer_getb(ctx.read_buffer)
             b == NextByte(ctx.read_buffer)
  <2>1. /\ ctx' = [ctx EXCEPT !.read_buffer = g] /\ log' = [log EXCEPT !.given = b]
        /\ ctx.read_buffer.rsz > 0
    BY <1>5, UartRing DEF Uart!Move, Uart!CanMove
  <2>2. b \in Byte /\ WellFormed(g) /\ g \in Ring /\ Follow(b, Contents(g), log.stored)
    BY <2>1, GetFollows, UartTyped DEF UartInv, UartOrder, WellFormed
  <2> HIDE DEF g, b
  <2>3. /\ ctx'.read_buffer = g /\ ctx'.write_buffer = ctx.write_buffer /\ ctx'.intc = ctx.intc
        /\ log'.given = b /\ log'.stored = log.stored
        /\ log'.sent = log.sent /\ log'.put = log.put
    BY <2>1, UartTyped
  <2>4. Uart!TypeOK'
    BY <1>1, <1>3, <2>1, <2>2, <2>3, UartType, UartTyped
  <2>5. QED
    BY <1>1, <1>3, <2>2, <2>3, <2>4 DEF UartInv, UartBoots, UartIrqs, UartMoves, UartOrder
<1>6. QED
  BY <1>4, <1>5

LEMMA UartUnlock == ASSUME UartInv, Uart!Unlock(User) PROVE UartInv'
<1>1. PICK place \in {"out", "lock"} : thr' = [thr EXCEPT !.pc = [thr.pc EXCEPT ![User] = place]]
  BY DEF Uart!Unlock, Uart!Goto
<1>2. ctx' = ctx /\ reg' = reg /\ log' = log /\ thr.pc[User] = "move"
  BY DEF Uart!Unlock
<1>3. /\ thr' \in UartThread /\ thr'.todo = thr.todo /\ thr'.irq = thr.irq /\ thr'.SIR = thr.SIR
      /\ thr'.pc[User] = place
  BY <1>1, UartTyped DEF UartThread
<1>4. Uart!TypeOK'
  BY <1>2, <1>3, UartType, UartTyped
<1>5. QED
  BY <1>2, <1>3, <1>4 DEF UartInv, UartBoots, UartIrqs, UartMoves, UartOrder

\* The controller sends an interrupt only while nobody holds the lock, and for a line it may.
LEMMA UartInterrupt == ASSUME UartInv, NEW l \in Lines, Uart!Interrupt(l) PROVE UartInv'
<1>1. /\ l \in {Uart!UART3, Uart!TIMER1} \ ctx.intc.masked /\ thr.pc[User] # "move"
      /\ ctx' = [ctx EXCEPT !.intc = [ctx.intc EXCEPT !.agreed = FALSE]]
      /\ thr' = [thr EXCEPT !.irq = "called", !.SIR = l] /\ reg' = reg /\ log' = log
  BY DEF Uart!Interrupt, Uart!Interrupts, Uart!Sends, Uart!Asserted, Uart!Locked, Uart!Sent
<1>2. /\ thr' \in UartThread /\ thr'.todo = thr.todo /\ thr'.pc = thr.pc
      /\ thr'.irq = "called" /\ thr'.SIR = l
  BY <1>1, UartTyped DEF UartThread
<1>3. /\ ctx'.write_buffer = ctx.write_buffer /\ ctx'.read_buffer = ctx.read_buffer
      /\ ctx'.intc.functions = ctx.intc.functions /\ ctx'.intc.masked = ctx.intc.masked
      /\ ctx'.intc.agreed = FALSE
      /\ ctx' \in [read_buffer : Ring, write_buffer : Ring,
                   intc : [functions : [Lines -> {"uart", "timer", NoHandler}],
                           masked : SUBSET Lines, agreed : BOOLEAN]]
  BY <1>1, UartTyped
<1>4. Uart!TypeOK'
  BY <1>1, <1>2, <1>3, UartType, UartTyped
<1>5. UartBoots' /\ UartIrqs' /\ UartMoves' /\ UartOrder'
  BY <1>1, <1>2, <1>3 DEF UartInv, UartBoots, UartIrqs, UartMoves, UartOrder
<1>6. QED
  BY <1>4, <1>5 DEF UartInv

\* A handler goes on to another place, and the device changes what does not concern the rings.
LEMMA UartHandles ==
  ASSUME UartInv, NEW place \in {"thr", "rhr", "end"}, thr.irq # "out",
         thr' = [thr EXCEPT !.irq = place], ctx' = ctx, log' = log,
         reg' \in [IER : SUBSET {"THR_IT", "RHR_IT"}, THR : {reg.THR}, RHR : 0 .. Depth,
                   TISR : BOOLEAN],
         reg'.IER = reg.IER \/ (ctx.write_buffer.rsz = 0 /\ reg'.IER = reg.IER \ {"THR_IT"})
  PROVE  UartInv'
<1>1. /\ thr' \in UartThread /\ thr'.todo = thr.todo /\ thr'.pc = thr.pc /\ thr'.irq = place
      /\ thr'.call = thr.call
  BY UartTyped DEF UartThread
<1>2. reg'.THR = reg.THR /\ reg.THR \in Seq(Byte) /\ Len(reg.THR) <= Depth
  BY UartTyped
<1>3. Uart!TypeOK'
  BY <1>1, <1>2, UartType, UartTyped
<1>4. thr.pc[User] # "move" /\ ~ctx.intc.agreed
  BY DEF UartInv, UartMoves, UartIrqs
<1>5. UartBoots'
  BY <1>1, <1>2 DEF UartInv, UartBoots
<1>6. UartIrqs' /\ UartOrder'
  BY <1>1, <1>2, <1>4 DEF UartInv, UartIrqs, UartOrder
<1>7. UartMoves'
  <2>1. ctx.write_buffer.rsz > 0 => "THR_IT" \in reg'.IER
    BY DEF UartInv, UartMoves
  <2>2. QED
    BY <1>1, <1>4, <2>1 DEF UartInv, UartMoves
<1>8. QED
  BY <1>3, <1>5, <1>6, <1>7 DEF UartInv

LEMMA UartArm == ASSUME UartInv, Uart!_arm_IRQ PROVE UartInv'
<1>1. thr.irq = "called" /\ ctx' = ctx /\ log' = log
  BY DEF Uart!_arm_IRQ
<1>2. thr.SIR < INTERRUPTS_MAX /\ ~(thr.SIR >= INTERRUPTS_MAX)
  BY UartTyped, LinesInTable DEF UartThread
<1>3. Uart!IIR \in {"thr", "rhr", "end"}
  BY DEF Uart!IIR
<1>4. PICK place \in {"thr", "rhr", "end"} : thr' = [thr EXCEPT !.irq = place]
  BY <1>2, <1>3 DEF Uart!_arm_IRQ
<1>5. reg' = reg \/ reg' = [reg EXCEPT !.TISR = FALSE]
  BY DEF Uart!_arm_IRQ
<1>6. /\ reg' \in [IER : SUBSET {"THR_IT", "RHR_IT"}, THR : {reg.THR}, RHR : 0 .. Depth,
                   TISR : BOOLEAN]
      /\ reg'.IER = reg.IER
  BY <1>5, UartTyped
<1>7. QED
  BY <1>1, <1>4, <1>6, UartHandles

\* A byte moves from the ring to the FIFO, or the interrupt is no longer wanted.
LEMMA UartIrqThr == ASSUME UartInv, Uart!IrqThr PROVE UartInv'
<1>1. thr.irq = "thr" /\ log' = log
  BY DEF Uart!IrqThr
<1>2. CASE Len(reg.THR) < Depth /\ ctx.write_buffer.rsz > 0
  <2> DEFINE g == fifo_buffer_getb(ctx.write_buffer)
             b == NextByte(ctx.write_buffer)
             c == Contents(ctx.write_buffer)
             s == Append(reg.THR, b)
  <2>1. /\ ctx' = [ctx EXCEPT !.write_buffer = g] /\ reg' = [reg EXCEPT !.THR = s] /\ thr' = thr
    BY <1>2, UartRing DEF Uart!IrqThr
  <2>2. /\ WellFormed(g) /\ g \in Ring /\ b \in Byte /\ c # <<>> /\ b = Head(c)
        /\ Contents(g) = Tail(c) /\ c \in Seq(Byte) /\ reg.THR \in Seq(Byte)
    BY <1>2, GetTakesHead, ContentsIsSeq, UartTyped DEF WellFormed
  <2>3. s \in Seq(Byte) /\ Len(s) = Len(reg.THR) + 1
    BY <2>2, AppendProperties
  <2>4. Len(s) <= Depth
    <3>1. Len(reg.THR) \in Nat
      BY <2>2, LenProperties
    <3>2. QED
      BY <1>2, <2>3, <3>1, DriversAssumption
  <2>5. s \o Contents(g) = reg.THR \o c
    BY <2>2, MoveAhead
  <2>6. "THR_IT" \in reg.IER /\ thr.pc[User] # "move"
    BY <1>1, <1>2 DEF UartInv, UartMoves
  <2>7. Follow(log.sent, reg.THR \o c, log.put)
    BY DEF UartInv, UartOrder
  <2> HIDE DEF g, b, c, s
  <2>8. /\ ctx'.write_buffer = g /\ ctx'.read_buffer = ctx.read_buffer /\ ctx'.intc = ctx.intc
        /\ reg'.THR = s /\ reg'.IER = reg.IER
    BY <2>1, UartTyped
  <2>9. Uart!TypeOK'
    BY <1>1, <2>1, <2>2, <2>3, <2>4, <2>8, UartType, UartTyped
  <2>10. QED
    BY <1>1, <2>1, <2>5, <2>6, <2>7, <2>8, <2>9
       DEF UartInv, UartBoots, UartIrqs, UartMoves, UartOrder
<1>3. CASE ~(Len(reg.THR) < Depth /\ ctx.write_buffer.rsz > 0)
  <2>1. /\ reg' = IF Len(reg.THR) < Depth THEN [reg EXCEPT !.IER = reg.IER \ {"THR_IT"}] ELSE reg
        /\ thr' = [thr EXCEPT !.irq = "end"] /\ ctx' = ctx
    BY <1>3 DEF Uart!IrqThr, Uart!EndIrq
  <2>2. Len(reg.THR) < Depth => ctx.write_buffer.rsz = 0
    BY <1>3, UartTyped, FifoAssumption DEF Ring
  <2>3. /\ reg' \in [IER : SUBSET {"THR_IT", "RHR_IT"}, THR : {reg.THR}, RHR : 0 .. Depth,
                     TISR : BOOLEAN]
        /\ reg'.IER = reg.IER \/ (ctx.write_buffer.rsz = 0 /\ reg'.IER = reg.IER \ {"THR_IT"})
    BY <2>1, <2>2, UartTyped
  <2>4. QED
    BY <1>1, <2>1, <2>3, UartHandles
<1>4. QED
  BY <1>2, <1>3

LEMMA UartIrqRhr == ASSUME UartInv, Uart!IrqRhr PROVE UartInv'
<1>1. thr.irq = "rhr"
  BY DEF Uart!IrqRhr
<1>2. CASE reg.RHR = 0
  <2>1. thr' = [thr EXCEPT !.irq = "end"] /\ ctx' = ctx /\ log' = log /\ reg' = reg
    BY <1>2 DEF Uart!IrqRhr, Uart!EndIrq
  <2>2. reg' \in [IER : SUBSET {"THR_IT", "RHR_IT"}, THR : {reg.THR}, RHR : 0 .. Depth,
                  TISR : BOOLEAN]
    BY <2>1, UartTyped
  <2>3. QED
    BY <1>1, <2>1, <2>2, UartHandles
<1>3. CASE reg.RHR # 0
  <2>1. reg' = [reg EXCEPT !.RHR = reg.RHR - 1]
    BY <1>3 DEF Uart!IrqRhr
  <2>2. reg.RHR - 1 \in 0 .. Depth
    <3>1. reg.RHR \in 0 .. Depth
      BY UartTyped
    <3>2. QED
      BY <1>3, <3>1, DriversAssumption
  <2>3. /\ reg' \in [IER : SUBSET {"THR_IT", "RHR_IT"}, THR : {reg.THR}, RHR : 0 .. Depth,
                     TISR : BOOLEAN]
        /\ reg'.IER = reg.IER /\ reg'.THR = reg.THR
    BY <2>1, <2>2, UartTyped
  <2>4. CASE ctx.read_buffer.wsz > 0
    <3> DEFINE b == After(log.stored)
               g == fifo_buffer_putb(ctx.read_buffer, b)
    <3>1. /\ ctx' = [ctx EXCEPT !.read_buffer = g] /\ log' = [log EXCEPT !.stored = b]
          /\ thr' = thr
      BY <1>3, <2>4, UartRing DEF Uart!IrqRhr
    <3>2. b \in Byte /\ WellFormed(g) /\ g \in Ring /\ Follow(log.given, Contents(g), b)
      BY <2>4, PutFollows, UartTyped DEF UartInv, UartOrder, WellFormed
    <3> HIDE DEF g, b
    <3>3. /\ ctx'.read_buffer = g /\ ctx'.write_buffer = ctx.write_buffer /\ ctx'.intc = ctx.intc
          /\ log'.given = log.given /\ log'.stored = b
          /\ log'.sent = log.sent /\ log'.put = log.put
      BY <3>1, UartTyped
    <3>4. Uart!TypeOK'
      BY <2>3, <3>1, <3>2, <3>3, UartType, UartTyped
    <3>5. QED
      BY <2>3, <3>1, <3>2, <3>3, <3>4 DEF UartInv, UartBoots, UartIrqs, UartMoves, UartOrder
  <2>5. CASE ~(ctx.read_buffer.wsz > 0)
    <3>1. thr' = [thr EXCEPT !.irq = "end"] /\ ctx' = ctx /\ log' = log
      BY <1>3, <2>5 DEF Uart!IrqRhr, Uart!EndIrq
    <3>2. QED
      BY <1>1, <2>3, <3>1, UartHandles
  <2>6. QED
    BY <2>4, <2>5
<1>4. QED
  BY <1>2, <1>3

LEMMA UartIrqEnd == ASSUME UartInv, Uart!IrqEnd PROVE UartInv'
<1>1. /\ ctx' = [ctx EXCEPT !.intc = [ctx.intc EXCEPT !.agreed = TRUE]]
      /\ thr' = [thr EXCEPT !.irq = "out"] /\ reg' = reg /\ log' = log /\ thr.irq = "end"
  BY DEF Uart!IrqEnd, Uart!EndOfInterrupt
<1>2. /\ thr' \in UartThread /\ thr'.todo = thr.todo /\ thr'.pc = thr.pc /\ thr'.irq = "out"
      /\ thr'.call = thr.call
  BY <1>1, UartTyped DEF UartThread
<1>3. /\ ctx'.write_buffer = ctx.write_buffer /\ ctx'.read_buffer = ctx.read_buffer
      /\ ctx'.intc.functions = ctx.intc.functions /\ ctx'.intc.masked = ctx.intc.masked
      /\ ctx'.intc.agreed = TRUE
      /\ ctx' \in [read_buffer : Ring, write_buffer : Ring,
                   intc : [functions : [Lines -> {"uart", "timer", NoHandler}],
                           masked : SUBSET Lines, agreed : BOOLEAN]]
  BY <1>1, UartTyped
<1>4. Uart!TypeOK'
  BY <1>1, <1>2, <1>3, UartType, UartTyped
<1>5. UartBoots' /\ UartIrqs' /\ UartMoves' /\ UartOrder'
  BY <1>1, <1>2, <1>3 DEF UartInv, UartBoots, UartIrqs, UartMoves, UartOrder
<1>6. QED
  BY <1>4, <1>5 DEF UartInv

LEMMA UartTransmit == ASSUME UartInv, Uart!Transmit PROVE UartInv'
<1> DEFINE c == Contents(ctx.write_buffer)
           s == reg.THR
<1>1. /\ s # <<>> /\ reg' = [reg EXCEPT !.THR = Tail(s)]
      /\ log' = [log EXCEPT !.sent = Head(s)] /\ ctx' = ctx /\ thr' = thr
  BY DEF Uart!Transmit
<1>2. s \in Seq(Byte) /\ c \in Seq(Byte) /\ Len(s) <= Depth
  BY UartTyped, ContentsIsSeq
<1>3. /\ Head(s) \in Byte /\ Tail(s) \in Seq(Byte) /\ Len(Tail(s)) = Len(s) - 1
  BY <1>1, <1>2, HeadTailProperties
<1>4. Len(Tail(s)) <= Depth
  <2>1. Len(s) \in Nat
    BY <1>2, LenProperties
  <2>2. QED
    BY <1>2, <1>3, <2>1, DriversAssumption
<1>5. Follow(Head(s), Tail(s) \o c, log.put)
  <2>1. /\ s \o c \in Seq(Byte) /\ s \o c # <<>> /\ Head(s \o c) = Head(s)
        /\ Tail(s \o c) = Tail(s) \o c
    BY <1>1, <1>2, LeaveBoth, ConcatProperties
  <2>2. Follow(log.sent, s \o c, log.put) /\ log.sent \in Byte
    BY UartTyped DEF UartInv, UartOrder
  <2> HIDE DEF s, c
  <2>3. QED
    BY <2>1, <2>2, FollowTail
<1>6. /\ reg'.THR = Tail(s) /\ reg'.IER = reg.IER /\ log'.sent = Head(s) /\ log'.put = log.put
      /\ log'.given = log.given /\ log'.stored = log.stored
  BY <1>1, UartTyped
<1>7. Uart!TypeOK'
  BY <1>1, <1>3, <1>4, <1>6, UartType, UartTyped
<1>8. QED
  BY <1>1, <1>5, <1>6, <1>7 DEF UartInv, UartBoots, UartIrqs, UartMoves, UartOrder

LEMMA UartReceive == ASSUME UartInv, Uart!Receive PROVE UartInv'
<1>1. /\ reg' = [reg EXCEPT !.RHR = reg.RHR + 1] /\ reg.RHR < Depth
      /\ log' = [log EXCEPT !.received = log.received + 1] /\ log.received < MaxReceived
      /\ ctx' = ctx /\ thr' = thr
  BY DEF Uart!Receive
<1>2. reg.RHR + 1 \in 0 .. Depth /\ log.received + 1 \in 0 .. MaxReceived
  <2>1. /\ reg.RHR \in 0 .. Depth /\ log.received \in 0 .. MaxReceived
        /\ reg.RHR < Depth /\ log.received < MaxReceived
    BY <1>1, UartTyped
  <2>2. QED
    BY <2>1, CallBounds, CountStep, Zenon
<1>3. /\ reg'.THR = reg.THR /\ reg'.IER = reg.IER /\ log'.sent = log.sent /\ log'.put = log.put
      /\ log'.given = log.given /\ log'.stored = log.stored
  BY <1>1, UartTyped
<1>4. Uart!TypeOK'
  BY <1>1, <1>2, <1>3, UartType, UartTyped
<1>5. QED
  BY <1>1, <1>3, <1>4 DEF UartInv, UartBoots, UartIrqs, UartMoves, UartOrder

LEMMA UartExpire == ASSUME UartInv, Uart!Expire PROVE UartInv'
<1>1. reg' = [reg EXCEPT !.TISR = TRUE] /\ ctx' = ctx /\ thr' = thr /\ log' = log
  BY DEF Uart!Expire
<1>2. reg'.THR = reg.THR /\ reg'.IER = reg.IER
  BY <1>1, UartTyped
<1>3. Uart!TypeOK'
  BY <1>1, <1>2, UartType, UartTyped
<1>4. QED
  BY <1>1, <1>2, <1>3 DEF UartInv, UartBoots, UartIrqs, UartMoves, UartOrder

LEMMA UartStep == UartInv /\ Uart!Next => UartInv'
BY UartOpen, UartRegister, UartUnmask, UartSched, UartCalls, UartLock, UartMove, UartUnlock,
   UartInterrupt, UartArm, UartIrqThr, UartIrqRhr, UartIrqEnd, UartTransmit, UartReceive,
   UartExpire DEF Uart!Next

LEMMA UartProperties ==
  UartInv => Uart!TypeOK /\ Uart!InOrder /\ Uart!NeverStalls /\ Uart!Dispatched
<1> SUFFICES ASSUME UartInv PROVE Uart!InOrder /\ Uart!NeverStalls /\ Uart!Dispatched
  BY DEF UartInv
<1>1. Uart!InOrder
  BY UartRing DEF UartInv, UartOrder, Uart!InOrder, Uart!Continues, Follow
<1>2. ASSUME thr.todo = <<>> PROVE Len(thr.todo) = 0
  BY <1>2
<1>3. Uart!NeverStalls
  BY <1>2 DEF UartInv, UartBoots, UartIrqs, UartMoves, Uart!NeverStalls
<1>4. Uart!Dispatched
  <2>1. Len(thr.todo) \in Nat
    BY StepsLeft, UartTyped DEF UartThread
  <2>2. QED
    BY <2>1, LinesInTable DEF UartInv, UartBoots, UartIrqs, Uart!Dispatched
<1>5. QED
  BY <1>1, <1>3, <1>4
-----------------------------------------------------------------------------
(* The radio, whose rings hold one packet.                                   *)

RadioReg == [POWER : BOOLEAN,
             state : {"DISABLED", "RXRU", "RXIDLE", "RX", "RXDISABLE", "TXRU", "TXIDLE"},
             EV : SUBSET Radio!Events, INTEN : SUBSET Radio!Events, FREQUENCY : Channels,
             PACKETPTR : {0}, air : {"silent", "packet", "payload"}]

\* A ring of one packet: it is there or it is not.
One == {f \in [bp : [{0} -> Radio!Packet], locked : BOOLEAN, ri : {0}, wi : {0}, sz : {1},
               rsz : {0, 1}, wsz : {0, 1}] : f.wsz = 1 - f.rsz}

\* The device without power has no events.  While it writes, the reader has no packet; and
\* what it has announced, in a state where the handler will keep it, is the last packet.
RadioDevice(r, f, last) ==
  /\ ~r.POWER => r.EV = {} /\ r.state = "DISABLED"
  /\ r.state = "RX" /\ r.air # "payload" => f.rsz = 0
  /\ "PAYLOAD" \in r.EV /\ r.state \in {"RX", "RXIDLE"}
       => r.air = "payload" /\ f.rsz = 0 /\ f.bp[0] = last
  /\ r.state = "RXRU" => "PAYLOAD" \notin r.EV

RadioInv ==
  /\ Radio!TypeOK /\ Radio!PacketsWhole /\ Radio!IdleWakes
  /\ RadioDevice(reg, ctx.read_buffer, log.last)

LEMMA RadioOne ==
  /\ Radio!FifoOf(Radio!BUFFER_RECV_PACKETS, Radio!Packet) = One
  /\ Radio!FifoOf(Radio!BUFFER_SEND_PACKETS, Radio!Packet) = One
<1>1. ASSUME NEW x \in {0, 1} PROVE (0 + x) % 1 = 0
  OBVIOUS
<1>2. 0 .. 1 - 1 = {0} /\ 0 .. 1 = {0, 1}
  OBVIOUS
<1>3. Radio!FifoOf(1, Radio!Packet)
        = {f \in [bp : [{0} -> Radio!Packet], locked : BOOLEAN, ri : {0}, wi : {0}, sz : {1},
                  rsz : {0, 1}, wsz : {0, 1}] : f.wi = (f.ri + f.rsz) % 1 /\ f.wsz = 1 - f.rsz}
  BY <1>2 DEF Radio!FifoOf
<1>4. \A f \in [bp : [{0} -> Radio!Packet], locked : BOOLEAN, ri : {0}, wi : {0}, sz : {1},
                  rsz : {0, 1}, wsz : {0, 1}] : f.wi = (f.ri + f.rsz) % 1
  BY <1>1
<1>5. Radio!FifoOf(1, Radio!Packet) = One
  BY <1>3, <1>4 DEF One
<1>6. QED
  BY <1>5 DEF Radio!BUFFER_RECV_PACKETS, Radio!BUFFER_SEND_PACKETS

LEMMA RadioTyped ==
  ASSUME RadioInv
  PROVE  /\ ctx \in [read_buffer : One, write_buffer : One, error : BOOLEAN, channel : Channels,
                     target_state : {"OFF", "RX", "TX"}]
         /\ reg \in RadioReg
         /\ thr \in [pc : {"out", "write", "flush", "closed"}, asked : BOOLEAN]
         /\ log \in [next : Radio!Number, last : Radio!Packet, kept : Seq(Radio!Packet)]
<1>1. 0 .. Radio!BUFFER_RECV_PACKETS - 1 = {0}
  BY DEF Radio!BUFFER_RECV_PACKETS
<1>2. QED
  BY <1>1, RadioOne DEF RadioInv, Radio!TypeOK, RadioReg

LEMMA RadioType ==
  ASSUME ctx' \in [read_buffer : One, write_buffer : One, error : BOOLEAN, channel : Channels,
                   target_state : {"OFF", "RX", "TX"}],
         reg' \in RadioReg,
         thr' \in [pc : {"out", "write", "flush", "closed"}, asked : BOOLEAN],
         log' \in [next : Radio!Number, last : Radio!Packet, kept : Seq(Radio!Packet)]
  PROVE  Radio!TypeOK'
<1>1. 0 .. Radio!BUFFER_RECV_PACKETS - 1 = {0}
  BY DEF Radio!BUFFER_RECV_PACKETS
<1>2. QED
  BY <1>1, RadioOne DEF Radio!TypeOK, RadioReg

\* The packets of a ring of one.
LEMMA OnePackets ==
  ASSUME NEW f \in One
  PROVE  /\ f.rsz = 0 => Radio!Packets(f) = <<>>
         /\ f.rsz = 1 => Radio!Packets(f) = <<f.bp[0]>>
<1>1. CASE f.rsz = 0
  BY <1>1 DEF Radio!Packets
<1>2. CASE f.rsz = 1
  <2>1. f.bp[0] \in Radio!Packet /\ f.ri = 0 /\ f.sz = 1
    BY DEF One
  <2>2. Radio!Packets(f) = [i \in 1 .. 1 |-> f.bp[(0 + i - 1) % 1]]
    BY <1>2, <2>1 DEF Radio!Packets
  <2>3. (0 + 1 - 1) % 1 = 0
    OBVIOUS
  <2>4. /\ Radio!Packets(f) \in [1 .. 1 -> Radio!Packet]
        /\ Radio!Packets(f)[1] = f.bp[0]
    BY <2>1, <2>2, <2>3
  <2>5. /\ Radio!Packets(f) \in Seq(Radio!Packet)
        /\ Len(Radio!Packets(f)) = 1
    <3>1. Radio!Packets(f) \in Seq(Radio!Packet)
      BY <2>4, SeqDef
    <3>2. QED
      BY <2>4, <3>1, LenProperties
  <2>6. /\ <<f.bp[0]>> \in Seq(Radio!Packet) /\ Len(<<f.bp[0]>>) = 1 /\ <<f.bp[0]>>[1] = f.bp[0]
    BY <2>1
  <2>7. QED
    BY <1>2, <2>4, <2>5, <2>6, SeqEqual
<1>3. QED
  BY <1>1, <1>2 DEF One

\* One packet of the ring, or none, is what the history has kept.
Kept(f, kept) == kept = IF f.rsz = 0 THEN <<>> ELSE <<f.bp[0]>>

LEMMA RadioKept ==
  ASSUME NEW f \in One, NEW s
  PROVE  Radio!Packets(f) = s <=> Kept(f, s)
<1>1. f.rsz \in {0, 1}
  BY DEF One
<1>2. QED
  BY <1>1, OnePackets DEF Kept

\* An invariant of the next state, conjunct by conjunct.
LEMMA RadioNext ==
  ASSUME ctx' \in [read_buffer : One, write_buffer : One, error : BOOLEAN, channel : Channels,
                   target_state : {"OFF", "RX", "TX"}],
         reg' \in RadioReg,
         thr' \in [pc : {"out", "write", "flush", "closed"}, asked : BOOLEAN],
         log' \in [next : Radio!Number, last : Radio!Packet, kept : Seq(Radio!Packet)],
         Kept(ctx'.read_buffer, log'.kept), Radio!IdleWakes',
         RadioDevice(reg', ctx'.read_buffer, log'.last)
  PROVE  RadioInv'
<1>1. Radio!PacketsWhole'
  <2>1. ctx'.read_buffer \in One
    OBVIOUS
  <2>2. Radio!Packets(ctx'.read_buffer) = log'.kept
    BY <2>1, RadioKept
  <2>3. QED
    BY <2>2 DEF Radio!PacketsWhole
<1>2. QED
  BY <1>1, RadioType DEF RadioInv

LEMMA RadioNow ==
  ASSUME RadioInv
  PROVE  Kept(ctx.read_buffer, log.kept) /\ RadioDevice(reg, ctx.read_buffer, log.last)
<1>1. ctx.read_buffer \in One
  BY RadioTyped
<1>2. QED
  BY <1>1, RadioKept DEF RadioInv, Radio!PacketsWhole
LEMMA RadioNumbers ==
  /\ 0 \in Channels /\ 0 \in Radio!Number /\ Radio!Number \subseteq Radio!Packet
  /\ Radio!Blank \in Radio!Packet /\ Radio!Torn \in Radio!Packet
  /\ \A n \in Radio!Number : (n + 1) % PacketNumbers \in Radio!Number
<1>1. PacketNumbers \in Nat \ {0} /\ 0 \in Channels
  BY DriversAssumption
<1>2. \A n \in 0 .. PacketNumbers - 1 : (n + 1) % PacketNumbers \in 0 .. PacketNumbers - 1
  BY <1>1, DivMod
<1>3. QED
  BY <1>1, <1>2 DEF Radio!Number, Radio!Packet

\* A device that is switched off (reg.POWER), and one that is new.
LEMMA RadioOff ==
  /\ Radio!Off \in RadioReg /\ ~Radio!Off.POWER /\ Radio!Off.EV = {}
  /\ Radio!Off.state = "DISABLED"
BY RadioNumbers DEF Radio!Off, RadioReg

LEMMA RadioEmpty ==
  /\ Radio!packet_fifo_create(1, Radio!Blank) \in One
  /\ Radio!packet_fifo_create(1, Radio!Blank).rsz = 0
<1>1. 0 .. 1 - 1 = {0} /\ 1 - 0 = 1
  OBVIOUS
<1>2. QED
  BY <1>1, RadioNumbers DEF Radio!packet_fifo_create, One

LEMMA RadioInit == Radio!Init => RadioInv
<1> SUFFICES ASSUME Radio!Init PROVE RadioInv
  OBVIOUS
<1>1. /\ ctx.read_buffer \in One /\ ctx.read_buffer.rsz = 0 /\ reg = Radio!Off
      /\ ctx \in [read_buffer : One, write_buffer : One, error : BOOLEAN, channel : Channels,
                  target_state : {"OFF", "RX", "TX"}]
  BY RadioEmpty, RadioNumbers
     DEF Radio!Init, Radio!BUFFER_RECV_PACKETS, Radio!BUFFER_SEND_PACKETS
<1>2. log.kept = <<>> /\ <<>> \in Seq(Radio!Packet) /\ log.last \in Radio!Packet
  BY EmptySeq, RadioNumbers DEF Radio!Init
<1>3. Radio!TypeOK
  <2>1. 0 .. Radio!BUFFER_RECV_PACKETS - 1 = {0}
    BY DEF Radio!BUFFER_RECV_PACKETS
  <2>2. QED
    BY <1>1, <1>2, <2>1, RadioOff, RadioOne, RadioNumbers DEF Radio!Init, Radio!TypeOK, RadioReg
<1>4. Radio!PacketsWhole
  BY <1>1, <1>2, OnePackets DEF Radio!PacketsWhole
<1>5. Radio!IdleWakes /\ RadioDevice(reg, ctx.read_buffer, log.last)
  BY <1>1, RadioOff DEF Radio!IdleWakes, RadioDevice
<1>6. QED
  BY <1>3, <1>4, <1>5 DEF RadioInv

\* What the thread and the handler do to a ring of one packet.
LEMMA OneSteps ==
  ASSUME NEW f \in One
  PROVE  /\ LET g == Radio!packet_fifo_write_cancel(f)
            IN  g \in One /\ g.rsz = f.rsz /\ g.bp = f.bp /\ g.wi = 0 /\ ~g.locked
         /\ LET g == Radio!packet_fifo_write_lock(f)
            IN  g \in One /\ g.rsz = f.rsz /\ g.bp = f.bp
         /\ f.rsz = 0 => LET g == Radio!packet_fifo_write_release(f)
                         IN  g \in One /\ g.rsz = 1 /\ g.bp = f.bp
         /\ f.rsz = 1 => LET g == Radio!packet_fifo_read_release(f)
                         IN  g \in One /\ g.rsz = 0 /\ g.bp = f.bp
         /\ Radio!CanWrite(f) => f.rsz = 0
         /\ Radio!CanRead(f) => f.rsz = 1
<1>1. /\ f.bp \in [{0} -> Radio!Packet] /\ f.ri = 0 /\ f.wi = 0 /\ f.sz = 1 /\ f.rsz \in {0, 1}
      /\ f.wsz = 1 - f.rsz /\ f.locked \in BOOLEAN
  BY DEF One
<1>2. Radio!Successor(f, 0) = 0
  BY <1>1 DEF Radio!Successor
<1>3. LET g == Radio!packet_fifo_write_cancel(f)
      IN  g \in One /\ g.rsz = f.rsz /\ g.bp = f.bp /\ g.wi = 0 /\ ~g.locked
  BY DEF One, Radio!packet_fifo_write_cancel
<1>4. LET g == Radio!packet_fifo_write_lock(f)
      IN  g \in One /\ g.rsz = f.rsz /\ g.bp = f.bp
  BY DEF One, Radio!packet_fifo_write_lock
<1>5. ASSUME f.rsz = 0
      PROVE  LET g == Radio!packet_fifo_write_release(f)
             IN  g \in One /\ g.rsz = 1 /\ g.bp = f.bp
  <2>1. f.wsz - 1 = 0 /\ f.rsz + 1 = 1
    BY <1>1, <1>5
  <2>2. Radio!packet_fifo_write_release(f)
          = [bp |-> f.bp, locked |-> FALSE, ri |-> 0, wi |-> 0, sz |-> 1, rsz |-> 1, wsz |-> 0]
    <3>1. Radio!packet_fifo_write_release(f) = [f EXCEPT !.wi = 0, !.wsz = 0, !.rsz = 1, !.locked = FALSE]
      BY <1>1, <1>2, <2>1 DEF Radio!packet_fifo_write_release
    <3>2. QED
      BY <1>1, <3>1 DEF One
  <2>3. 1 - 1 = 0 /\ 1 - 0 = 1
    OBVIOUS
  <2>4. QED
    BY <1>1, <2>2, <2>3 DEF One
<1>6. ASSUME f.rsz = 1
      PROVE  LET g == Radio!packet_fifo_read_release(f)
             IN  g \in One /\ g.rsz = 0 /\ g.bp = f.bp
  <2>1. f.wsz + 1 = 1 /\ f.rsz - 1 = 0
    BY <1>1, <1>6
  <2>2. Radio!packet_fifo_read_release(f)
          = [bp |-> f.bp, locked |-> FALSE, ri |-> 0, wi |-> 0, sz |-> 1, rsz |-> 0, wsz |-> 1]
    <3>1. Radio!packet_fifo_read_release(f) = [f EXCEPT !.ri = 0, !.rsz = 0, !.wsz = 1, !.locked = FALSE]
      BY <1>1, <1>2, <2>1 DEF Radio!packet_fifo_read_release
    <3>2. QED
      BY <1>1, <3>1 DEF One
  <2>3. 1 - 1 = 0 /\ 1 - 0 = 1
    OBVIOUS
  <2>4. QED
    BY <1>1, <2>2, <2>3 DEF One
<1>7. Radio!CanWrite(f) => f.rsz = 0
  BY <1>1 DEF Radio!CanWrite
<1>8. Radio!CanRead(f) => f.rsz = 1
  BY <1>1 DEF Radio!CanRead
<1>9. QED
  BY <1>3, <1>4, <1>5, <1>6, <1>7, <1>8

\* What can be said of the registers r beside the ring f.
RadioWakes(r) ==
  /\ r.state = "RXIDLE" => r.EV \cap {"READY", "END"} # {}
  /\ r.POWER /\ r.state = "DISABLED" => "DISABLED" \in r.EV

RadioSound(r) ==
  r \in RadioReg /\ RadioWakes(r) /\ RadioDevice(r, ctx.read_buffer, log.last)

LEMMA RadioSoundNow == RadioInv => RadioSound(reg)
BY RadioTyped, RadioNow DEF RadioSound, RadioWakes, RadioInv, Radio!IdleWakes

\* The tasks and settings that threads and the handler write to the device keep it sound.
LEMMA RadioTasks ==
  ASSUME RadioInv, NEW r, RadioSound(r)
  PROVE  /\ \A e \in SUBSET Radio!Events : RadioSound(Radio!Enable(r, e))
         /\ RadioSound(Radio!__power_up(ctx, r))
         /\ \A q \in Radio!__cancel_rx(r) : RadioSound(q)
<1>1. r \in RadioReg /\ RadioWakes(r) /\ RadioDevice(r, ctx.read_buffer, log.last)
  BY DEF RadioSound
<1>2. ASSUME NEW e \in SUBSET Radio!Events PROVE RadioSound(Radio!Enable(r, e))
  BY <1>1 DEF RadioSound, RadioReg, RadioWakes, RadioDevice, Radio!Enable
<1>3. RadioSound(Radio!__power_up(ctx, r))
  <2>1. CASE r.POWER
    BY <2>1 DEF Radio!__power_up
  <2>2. CASE ~r.POWER
    <3> DEFINE q == [r EXCEPT !.POWER = TRUE, !.FREQUENCY = ctx.channel, !.EV = {"DISABLED"}]
    <3>1. Radio!__power_up(ctx, r) = q
      BY <2>2 DEF Radio!__power_up
    <3>2. q \in RadioReg /\ q.state = "DISABLED" /\ q.EV = {"DISABLED"}
      BY <1>1, <2>2, RadioTyped DEF RadioReg, RadioDevice, Radio!Events
    <3>3. q.POWER
      BY <1>1 DEF RadioReg
    <3> HIDE DEF q
    <3>4. QED
      BY <3>1, <3>2, <3>3 DEF RadioSound, RadioWakes, RadioDevice
  <2>3. QED
    BY <2>1, <2>2
<1>4. ASSUME NEW q \in Radio!__cancel_rx(r) PROVE RadioSound(q)
  <2>1. CASE r.state = "RX"
    <3>1. PICK e \in {{}, {"PAYLOAD", "END"}} :
            q = [r EXCEPT !.state = "RXDISABLE", !.EV = r.EV \cup e]
      BY <2>1 DEF Radio!__cancel_rx
    <3>2. /\ q \in RadioReg /\ q.state = "RXDISABLE" /\ q.POWER = r.POWER
      BY <1>1, <3>1 DEF RadioReg, Radio!Events
    <3>3. r.POWER
      BY <1>1, <2>1 DEF RadioReg, RadioDevice
    <3>4. QED
      BY <3>2, <3>3 DEF RadioSound, RadioWakes, RadioDevice
  <2>2. CASE r.state # "RX"
    BY <2>2 DEF Radio!__cancel_rx
  <2>3. QED
    BY <2>1, <2>2
<1>5. QED
  BY <1>2, <1>3, <1>4

\* A step of a thread or of the handler that leaves the ring of received packets as it is.
LEMMA RadioBeside ==
  ASSUME RadioInv, log' = log,
         ctx' \in [read_buffer : {ctx.read_buffer}, write_buffer : One, error : BOOLEAN,
                   channel : Channels, target_state : {"OFF", "RX", "TX"}],
         thr' \in [pc : {"out", "write", "flush", "closed"}, asked : BOOLEAN],
         RadioSound(reg')
  PROVE  RadioInv'
<1>1. ctx'.read_buffer = ctx.read_buffer /\ ctx.read_buffer \in One
  BY RadioTyped
<1>2. reg' \in RadioReg /\ RadioDevice(reg', ctx'.read_buffer, log'.last)
  BY <1>1 DEF RadioSound
<1>3. Radio!IdleWakes'
  BY DEF RadioSound, RadioWakes, Radio!IdleWakes
<1>4. QED
  BY <1>1, <1>2, <1>3, RadioNext, RadioNow, RadioTyped

\* The device is switched off: after an error, by the target OFF, or by _close.
LEMMA OffIsSound == RadioSound(Radio!Off)
BY RadioOff DEF RadioSound, RadioWakes, RadioDevice

\* The reader takes the packet there is, or asks the handler to go on.
LEMMA RadioRead == ASSUME RadioInv, Radio!_read PROVE RadioInv'
<1>1. CASE Radio!CanRead(ctx.read_buffer)
  <2> DEFINE f == ctx.read_buffer
             g == Radio!packet_fifo_read_release(f)
  <2>1. /\ ctx' = [ctx EXCEPT !.read_buffer = g] /\ log' = [log EXCEPT !.kept = Tail(log.kept)]
        /\ thr' = [thr EXCEPT !.asked = FALSE] /\ reg' = reg
    BY <1>1 DEF Radio!_read
  <2>2. f \in One /\ f.rsz = 1 /\ g \in One /\ g.rsz = 0 /\ g.bp = f.bp
    BY <1>1, OneSteps, RadioTyped
  <2>3. log.kept = <<f.bp[0]>>
    BY <2>2, RadioNow DEF Kept
  <2>4. Tail(log.kept) = <<>> /\ <<>> \in Seq(Radio!Packet)
    BY <2>3, EmptySeq
  <2>5. RadioDevice(reg, g, log.last)
    BY <2>2, RadioNow DEF RadioDevice
  <2> HIDE DEF f, g
  <2>6. ctx'.read_buffer = g /\ log'.kept = <<>> /\ log'.last = log.last
    BY <2>1, <2>4, RadioTyped
  <2>7. /\ ctx' \in [read_buffer : One, write_buffer : One, error : BOOLEAN, channel : Channels,
                     target_state : {"OFF", "RX", "TX"}]
        /\ thr' \in [pc : {"out", "write", "flush", "closed"}, asked : BOOLEAN]
        /\ log' \in [next : Radio!Number, last : Radio!Packet, kept : Seq(Radio!Packet)]
    BY <2>1, <2>2, <2>4, RadioTyped
  <2>8. Kept(ctx'.read_buffer, log'.kept)
    BY <2>2, <2>6 DEF Kept
  <2>9. Radio!IdleWakes'
    BY <2>1 DEF RadioInv, Radio!IdleWakes
  <2>10. QED
    BY <2>1, <2>5, <2>6, <2>7, <2>8, <2>9, RadioNext, RadioTyped
<1>2. CASE ~Radio!CanRead(ctx.read_buffer)
  <2>1. /\ reg' = Radio!Enable(reg, {"READY", "END", "DISABLED"}) /\ ctx' = ctx /\ log' = log
        /\ thr' = [thr EXCEPT !.asked = TRUE]
    BY <1>2 DEF Radio!_read
  <2>2. RadioSound(reg')
    BY <2>1, RadioTasks, RadioSoundNow DEF Radio!Events
  <2>3. QED
    BY <2>1, <2>2, RadioBeside, RadioTyped
<1>3. QED
  BY <1>1, <1>2

LEMMA RadioWrite == ASSUME RadioInv, Radio!_write PROVE RadioInv'
<1>1. PICK r \in Radio!__cancel_rx(Radio!__power_up(ctx, reg)) :
        reg' = Radio!Enable(r, {"READY", "END", "DISABLED"})
  BY DEF Radio!_write
<1>2. RadioSound(reg')
  <2>1. RadioSound(Radio!__power_up(ctx, reg))
    BY RadioTasks, RadioSoundNow
  <2>2. RadioSound(r)
    BY <2>1, RadioTasks
  <2>3. QED
    BY <1>1, <2>2, RadioTasks DEF Radio!Events
<1>3. CASE Radio!CanWrite(ctx.write_buffer)
  <2>1. /\ ctx' = [ctx EXCEPT !.write_buffer = Radio!packet_fifo_write_release(ctx.write_buffer)]
        /\ thr' = [thr EXCEPT !.pc = "out", !.asked = FALSE] /\ log' = log
    BY <1>3 DEF Radio!_write
  <2>2. Radio!packet_fifo_write_release(ctx.write_buffer) \in One
    BY <1>3, OneSteps, RadioTyped
  <2>3. QED
    BY <1>2, <2>1, <2>2, RadioBeside, RadioTyped
<1>4. CASE ~Radio!CanWrite(ctx.write_buffer)
  <2>1. ctx' = ctx /\ thr' = [thr EXCEPT !.pc = "write", !.asked = FALSE] /\ log' = log
    BY <1>4 DEF Radio!_write
  <2>2. QED
    BY <1>2, <2>1, RadioBeside, RadioTyped
<1>5. QED
  BY <1>3, <1>4

LEMMA RadioIoctl == ASSUME RadioInv, Radio!_ioctl PROVE RadioInv'
<1>1. thr' = [thr EXCEPT !.asked = FALSE] /\ log' = log
  BY DEF Radio!_ioctl
<1>2. thr' \in [pc : {"out", "write", "flush", "closed"}, asked : BOOLEAN]
  BY <1>1, RadioTyped
<1>3. ASSUME NEW target \in {"RX", "TX"}, Radio!SetTarget(target) PROVE RadioInv'
  <2>1. /\ ctx' = [ctx EXCEPT !.target_state = target]
        /\ reg' \in Radio!__cancel_rx(Radio!Enable(Radio!__power_up(ctx, reg), {"DISABLED"}))
    BY <1>3 DEF Radio!SetTarget
  <2>2. RadioSound(Radio!__power_up(ctx, reg))
    BY RadioTasks, RadioSoundNow
  <2>3. RadioSound(Radio!Enable(Radio!__power_up(ctx, reg), {"DISABLED"}))
    BY <2>2, RadioTasks DEF Radio!Events
  <2>4. RadioSound(reg')
    BY <2>1, <2>3, RadioTasks
  <2>5. QED
    BY <1>1, <1>2, <2>1, <2>4, RadioBeside, RadioTyped
<1>4. CASE Radio!SetOff
  <2>1. /\ ctx' = [ctx EXCEPT !.target_state = "OFF"]
        /\ reg' \in Radio!__cancel_rx(Radio!Enable(reg, {"DISABLED"}))
    BY <1>4 DEF Radio!SetOff
  <2>2. RadioSound(Radio!Enable(reg, {"DISABLED"}))
    BY RadioTasks, RadioSoundNow DEF Radio!Events
  <2>3. RadioSound(reg')
    BY <2>1, <2>2, RadioTasks
  <2>4. QED
    BY <1>1, <1>2, <2>1, <2>3, RadioBeside, RadioTyped
<1>5. CASE Radio!SetChannel
  <2>1. PICK ch \in Channels : ctx' = [ctx EXCEPT !.channel = ch]
    BY <1>5 DEF Radio!SetChannel
  <2>2. reg' = reg
    BY <1>5 DEF Radio!SetChannel
  <2>3. QED
    BY <1>1, <1>2, <2>1, <2>2, RadioBeside, RadioTyped, RadioSoundNow
<1>6. CASE Radio!SetSourceAddress
  <2>1. reg' \in Radio!__cancel_rx(reg) /\ ctx' = ctx
    BY <1>6 DEF Radio!SetSourceAddress
  <2>2. RadioSound(reg')
    BY <2>1, RadioTasks, RadioSoundNow
  <2>3. QED
    BY <1>1, <1>2, <2>1, <2>2, RadioBeside, RadioTyped
<1>7. QED
  BY <1>3, <1>4, <1>5, <1>6 DEF Radio!_ioctl

LEMMA RadioFlush == ASSUME RadioInv, Radio!_fflush PROVE RadioInv'
BY RadioBeside, RadioTyped, RadioSoundNow DEF Radio!_fflush

LEMMA RadioClose == ASSUME RadioInv, Radio!_close PROVE RadioInv'
<1>1. /\ thr' = [thr EXCEPT !.pc = "closed"] /\ reg' = Radio!Off /\ ctx' = ctx /\ log' = log
  BY DEF Radio!_close
<1>2. QED
  BY <1>1, OffIsSound, RadioBeside, RadioTyped

LEMMA RadioReopen == ASSUME RadioInv, Radio!Reopen PROVE RadioInv'
<1>1. /\ ctx'.read_buffer \in One /\ ctx'.read_buffer.rsz = 0 /\ reg' = Radio!Off
      /\ ctx' \in [read_buffer : One, write_buffer : One, error : BOOLEAN, channel : Channels,
                   target_state : {"OFF", "RX", "TX"}]
      /\ thr' \in [pc : {"out", "write", "flush", "closed"}, asked : BOOLEAN]
  BY RadioEmpty, RadioNumbers
     DEF Radio!Reopen, Radio!Opened, Radio!BUFFER_RECV_PACKETS, Radio!BUFFER_SEND_PACKETS
<1>2. log'.kept = <<>> /\ log' \in [next : Radio!Number, last : Radio!Packet, kept : Seq(Radio!Packet)]
  <2>1. log' = [log EXCEPT !.last = Radio!Blank, !.kept = <<>>] /\ <<>> \in Seq(Radio!Packet)
    BY EmptySeq DEF Radio!Reopen
  <2>2. QED
    BY <2>1, RadioTyped, RadioNumbers
<1>3. Kept(ctx'.read_buffer, log'.kept)
  BY <1>1, <1>2 DEF Kept
<1>4. Radio!IdleWakes' /\ RadioDevice(reg', ctx'.read_buffer, log'.last)
  BY <1>1, RadioOff DEF Radio!IdleWakes, RadioDevice
<1>5. QED
  BY <1>1, <1>2, <1>3, <1>4, RadioNext, RadioOff
\* A step of the handler that changes the flag of the ring at most.
LEMMA RadioRing ==
  ASSUME RadioInv, NEW h \in One, h.rsz = ctx.read_buffer.rsz, h.bp = ctx.read_buffer.bp,
         ctx' = [ctx EXCEPT !.read_buffer = h], thr' = thr, log' = log,
         reg' \in RadioReg, RadioWakes(reg'), RadioDevice(reg', h, log'.last)
  PROVE  RadioInv'
<1>1. /\ ctx'.read_buffer = h
      /\ ctx' \in [read_buffer : One, write_buffer : One, error : BOOLEAN, channel : Channels,
                   target_state : {"OFF", "RX", "TX"}]
  BY RadioTyped
<1>2. Kept(h, log'.kept)
  BY RadioNow DEF Kept
<1>3. Radio!IdleWakes'
  BY DEF RadioWakes, Radio!IdleWakes
<1>4. QED
  BY <1>1, <1>2, <1>3, RadioNext, RadioTyped

\* The handler in RXIDLE: the claim is taken back, and a reception begins only when the ring
\* has room.
LEMMA RadioIdle ==
  ASSUME RadioInv, "PAYLOAD" \notin reg.EV, reg.state = "RXIDLE", Radio!__irq_rxidle, thr' = thr
  PROVE  RadioInv'
<1> DEFINE f == ctx.read_buffer
           g == Radio!packet_fifo_write_cancel(f)
           c == [ctx EXCEPT !.read_buffer = g]
           receive == Radio!__should_rx(c, reg) /\ Radio!CanWrite(c.read_buffer)
           h == IF receive THEN Radio!packet_fifo_write_lock(g) ELSE g
<1>1. /\ f \in One /\ g \in One /\ g.rsz = f.rsz /\ g.bp = f.bp /\ g.wi = 0
      /\ h \in One /\ h.rsz = f.rsz /\ h.bp = f.bp
  BY OneSteps, RadioTyped
<1>2. receive => f.rsz = 0
  <2>1. c.read_buffer = g
    BY RadioTyped
  <2>2. Radio!CanWrite(g) => g.rsz = 0
    BY <1>1, OneSteps
  <2>3. QED
    BY <1>1, <2>1, <2>2
<1>3. ctx' = [ctx EXCEPT !.read_buffer = h] /\ log' = log
  BY RadioTyped DEF Radio!__irq_rxidle, Radio!Recovered
<1>4. reg' = IF receive
             THEN [reg EXCEPT !.EV = reg.EV \ {"READY", "END"}, !.PACKETPTR = 0,
                              !.INTEN = reg.INTEN \cup {"PAYLOAD", "END"}, !.state = "RX",
                              !.air = "silent"]
             ELSE IF Radio!__should_rxidle(c, reg)
                  THEN [reg EXCEPT !.INTEN = reg.INTEN \ {"READY", "END"}]
                  ELSE [reg EXCEPT !.EV = reg.EV \ {"READY", "END"}, !.state = "RXDISABLE"]
  <2>1. c.read_buffer.wi = 0
    BY <1>1, RadioTyped
  <2>2. reg' = IF receive
               THEN [reg EXCEPT !.EV = reg.EV \ {"READY", "END"}, !.PACKETPTR = c.read_buffer.wi,
                                !.INTEN = reg.INTEN \cup {"PAYLOAD", "END"}, !.state = "RX",
                                !.air = "silent"]
               ELSE IF Radio!__should_rxidle(c, reg)
                    THEN [reg EXCEPT !.INTEN = reg.INTEN \ {"READY", "END"}]
                    ELSE [reg EXCEPT !.EV = reg.EV \ {"READY", "END"}, !.state = "RXDISABLE"]
    BY DEF Radio!__irq_rxidle, Radio!Recovered, Radio!Idle
  <2> HIDE DEF c, receive
  <2>3. QED
    BY <2>1, <2>2
<1>5. ctx'.read_buffer = h
  BY <1>3, RadioTyped
<1>6. reg.POWER
  BY RadioNow, RadioTyped DEF RadioDevice, RadioReg
<1> HIDE DEF f, g, c, h, receive
<1>7. CASE receive
  <2>1. reg' \in RadioReg /\ reg'.state = "RX" /\ "PAYLOAD" \notin reg'.EV /\ reg'.POWER
    BY <1>4, <1>6, <1>7, RadioTyped DEF RadioReg, Radio!Events
  <2>2. RadioDevice(reg', h, log'.last) /\ RadioWakes(reg')
    BY <1>1, <1>2, <1>7, <2>1 DEF RadioDevice, RadioWakes
  <2>3. QED
    BY <1>1, <1>3, <2>1, <2>2, RadioRing DEF f
<1>8. CASE ~receive /\ Radio!__should_rxidle(c, reg)
  <2>1. /\ reg' \in RadioReg /\ reg'.state = "RXIDLE" /\ reg'.EV = reg.EV /\ reg'.POWER
        /\ reg'.air = reg.air
    BY <1>4, <1>6, <1>8, RadioTyped DEF RadioReg, Radio!Events
  <2>2. RadioDevice(reg', h, log'.last) /\ RadioWakes(reg')
    BY <1>1, <2>1, RadioSoundNow DEF RadioDevice, RadioWakes, RadioSound
  <2>3. QED
    BY <1>1, <1>3, <2>1, <2>2, RadioRing DEF f
<1>9. CASE ~receive /\ ~Radio!__should_rxidle(c, reg)
  <2>1. reg' \in RadioReg /\ reg'.state = "RXDISABLE" /\ "PAYLOAD" \notin reg'.EV /\ reg'.POWER
    BY <1>4, <1>6, <1>9, RadioTyped DEF RadioReg, Radio!Events
  <2>2. RadioDevice(reg', h, log'.last) /\ RadioWakes(reg')
    BY <2>1 DEF RadioDevice, RadioWakes
  <2>3. QED
    BY <1>1, <1>3, <2>1, <2>2, RadioRing DEF f
<1>10. QED
  BY <1>7, <1>8, <1>9

\* The handler after a payload: the packet that has been announced is kept, or dropped.
LEMMA RadioPayloadIrq ==
  ASSUME RadioInv, "PAYLOAD" \in reg.EV, Radio!__irq_payload, thr' = thr
  PROVE  RadioInv'
<1>1. reg' = [reg EXCEPT !.EV = reg.EV \ {"PAYLOAD"}]
  BY DEF Radio!__irq_payload, Radio!PayloadTaken
<1>2. /\ reg' \in RadioReg /\ reg'.state = reg.state /\ reg'.EV = reg.EV \ {"PAYLOAD"}
      /\ reg'.POWER = reg.POWER /\ reg'.air = reg.air /\ "PAYLOAD" \notin reg'.EV
  BY <1>1, RadioTyped DEF RadioReg
<1>3. RadioWakes(reg')
  BY <1>2, RadioSoundNow DEF RadioWakes, RadioSound
<1>4. CASE reg.state \in {"RX", "RXIDLE"}
  <2> DEFINE f == ctx.read_buffer
             p == Radio!packet_fifo_write_release(f)
             q == Radio!packet_fifo_write_cancel(f)
  <2>1. /\ f \in One /\ f.rsz = 0 /\ f.bp[0] = log.last /\ reg.air = "payload"
        /\ log.kept = <<>>
    BY <1>4, RadioNow, RadioTyped DEF RadioDevice, Kept
  <2>2. /\ p \in One /\ p.rsz = 1 /\ p.bp = f.bp
        /\ q \in One /\ q.rsz = 0 /\ q.bp = f.bp
    BY <2>1, OneSteps
  <2>3. PICK CRCSTATUS \in BOOLEAN :
          /\ ctx' = [ctx EXCEPT !.read_buffer = IF CRCSTATUS THEN p ELSE q]
          /\ log' = [log EXCEPT !.last = Radio!Blank,
                                !.kept = IF CRCSTATUS THEN Append(log.kept, log.last)
                                         ELSE log.kept]
    BY <1>4 DEF Radio!__irq_payload, Radio!__irq_payload_rx
  <2>4. ~reg'.POWER => reg'.EV = {} /\ reg'.state = "DISABLED"
    BY <1>2, RadioNow DEF RadioDevice
  <2>5. Append(log.kept, log.last) = <<log.last>> /\ log.last \in Radio!Packet
    BY <2>1, RadioTyped
  <2>6. <<log.last>> \in Seq(Radio!Packet) /\ <<>> \in Seq(Radio!Packet)
    BY <2>5, EmptySeq
  <2> HIDE DEF f, p, q
  <2>7. CASE CRCSTATUS
    <3>1. ctx'.read_buffer = p /\ log'.kept = <<log.last>>
      BY <2>3, <2>5, <2>7, RadioTyped
    <3>2. /\ ctx' \in [read_buffer : One, write_buffer : One, error : BOOLEAN,
                       channel : Channels, target_state : {"OFF", "RX", "TX"}]
          /\ log' \in [next : Radio!Number, last : Radio!Packet, kept : Seq(Radio!Packet)]
      BY <2>2, <2>3, <2>5, <2>6, <2>7, RadioTyped, RadioNumbers
    <3>3. Kept(p, log'.kept)
      BY <2>1, <2>2, <3>1 DEF Kept
    <3>4. RadioDevice(reg', p, log'.last)
      BY <1>2, <1>4, <2>1, <2>2, <2>4 DEF RadioDevice
    <3>5. Radio!IdleWakes'
      BY <1>3 DEF RadioWakes, Radio!IdleWakes
    <3>6. QED
      BY <1>2, <3>1, <3>2, <3>3, <3>4, <3>5, RadioNext, RadioTyped
  <2>8. CASE ~CRCSTATUS
    <3>1. ctx'.read_buffer = q /\ log'.kept = <<>>
      BY <2>1, <2>3, <2>8, RadioTyped
    <3>2. /\ ctx' \in [read_buffer : One, write_buffer : One, error : BOOLEAN,
                       channel : Channels, target_state : {"OFF", "RX", "TX"}]
          /\ log' \in [next : Radio!Number, last : Radio!Packet, kept : Seq(Radio!Packet)]
      BY <2>1, <2>2, <2>3, <2>6, <2>8, RadioTyped, RadioNumbers
    <3>3. Kept(q, log'.kept)
      BY <2>2, <3>1 DEF Kept
    <3>4. RadioDevice(reg', q, log'.last)
      BY <1>2, <1>4, <2>1, <2>2, <2>4 DEF RadioDevice
    <3>5. Radio!IdleWakes'
      BY <1>3 DEF RadioWakes, Radio!IdleWakes
    <3>6. QED
      BY <1>2, <3>1, <3>2, <3>3, <3>4, <3>5, RadioNext, RadioTyped
  <2>9. QED
    BY <2>7, <2>8
<1>5. CASE reg.state \notin {"RX", "RXIDLE"}
  <2>1. ctx' = [ctx EXCEPT !.error = TRUE] /\ log' = log
    BY <1>5 DEF Radio!__irq_payload
  <2>2. RadioDevice(reg', ctx.read_buffer, log.last)
    BY <1>2, <1>5, RadioNow DEF RadioDevice
  <2>3. QED
    BY <1>2, <1>3, <2>1, <2>2, RadioBeside, RadioTyped DEF RadioSound
<1>6. QED
  BY <1>4, <1>5

\* The handler when the device is disabled: it starts again, is switched off, or waits.
LEMMA RadioDisabledIrq ==
  ASSUME RadioInv, reg.EV = {"DISABLED"}, Radio!__irq_disabled, thr' = thr
  PROVE  RadioInv'
<1> DEFINE r == IF Radio!__wrong_channel(ctx, reg)
                THEN [reg EXCEPT !.FREQUENCY = ctx.channel] ELSE reg
<1>1. /\ \/ \E state \in {"TXRU", "RXRU"} :
              reg' = [r EXCEPT !.INTEN = r.INTEN \cup {"READY"}, !.EV = r.EV \ {"DISABLED"},
                               !.state = state]
         \/ reg' = Radio!Off
         \/ reg' = [r EXCEPT !.INTEN = r.INTEN \ {"DISABLED"}]
      /\ ctx' = ctx /\ log' = log
  BY DEF Radio!__irq_disabled
<1>2. /\ r \in RadioReg /\ r.EV = {"DISABLED"} /\ r.state = reg.state /\ r.POWER = reg.POWER
      /\ r.air = reg.air
  BY RadioTyped DEF RadioReg
<1> HIDE DEF r
<1>3. reg.POWER
  BY RadioNow, RadioTyped DEF RadioDevice, RadioReg
<1>4. ASSUME NEW state \in {"TXRU", "RXRU"},
             reg' = [r EXCEPT !.INTEN = r.INTEN \cup {"READY"}, !.EV = r.EV \ {"DISABLED"},
                              !.state = state]
      PROVE  RadioSound(reg')
  <2>1. reg' \in RadioReg /\ reg'.state = state /\ reg'.EV = {} /\ reg'.POWER
    BY <1>2, <1>3, <1>4 DEF RadioReg, Radio!Events
  <2>2. QED
    BY <2>1 DEF RadioSound, RadioWakes, RadioDevice
<1>5. ASSUME reg' = Radio!Off PROVE RadioSound(reg')
  BY <1>5, OffIsSound
<1>6. ASSUME reg' = [r EXCEPT !.INTEN = r.INTEN \ {"DISABLED"}] PROVE RadioSound(reg')
  <2>1. /\ reg' \in RadioReg /\ reg'.state = reg.state /\ reg'.EV = reg.EV
        /\ reg'.POWER = reg.POWER /\ reg'.air = reg.air
    BY <1>2, <1>6 DEF RadioReg
  <2>2. RadioWakes(reg) /\ RadioDevice(reg, ctx.read_buffer, log.last)
    BY RadioSoundNow DEF RadioSound
  <2>3. RadioWakes(reg') /\ RadioDevice(reg', ctx.read_buffer, log.last)
    BY <2>1, <2>2 DEF RadioWakes, RadioDevice
  <2>4. QED
    BY <2>1, <2>3 DEF RadioSound
<1>7. RadioSound(reg')
  BY <1>1, <1>4, <1>5, <1>6
<1>8. QED
  BY <1>1, <1>7, RadioBeside, RadioTyped

LEMMA RadioIrq == ASSUME RadioInv, Radio!_irq PROVE RadioInv'
<1>1. thr' = thr
  BY DEF Radio!_irq
<1>2. CASE "PAYLOAD" \in reg.EV /\ Radio!__irq_payload
  BY <1>1, <1>2, RadioPayloadIrq
<1>3. CASE reg.EV = {"DISABLED"} /\ Radio!__irq_disabled
  BY <1>1, <1>3, RadioDisabledIrq
<1>4. CASE "PAYLOAD" \notin reg.EV /\ Radio!__irq_xxidle
  <2>1. CASE reg.state = "RXIDLE" /\ Radio!__irq_rxidle
    BY <1>1, <1>4, <2>1, RadioIdle
  <2>2. CASE Radio!__irq_txidle
    BY <1>1, <2>2, RadioBeside, RadioTyped, RadioSoundNow DEF Radio!__irq_txidle
  <2>3. CASE Radio!IrqFails
    BY <1>1, <2>3, OffIsSound, RadioBeside, RadioTyped DEF Radio!IrqFails
  <2>4. QED
    BY <1>4, <2>1, <2>2, <2>3 DEF Radio!__irq_xxidle
<1>5. QED
  BY <1>2, <1>3, <1>4 DEF Radio!_irq

\* The device settles in another state, with the event of it.
LEMMA RadioSettles ==
  ASSUME RadioInv, NEW from, NEW to \in {"RXIDLE", "TXIDLE", "DISABLED"}, NEW event \in Radio!Events,
         Radio!Settles(from, to, event), event # "PAYLOAD",
         to = "RXIDLE" => /\ event \in {"READY", "END"}
                          /\ from \in {"RXRU", "RX"},
         to = "DISABLED" => event = "DISABLED", from # "DISABLED"
  PROVE  RadioInv'
<1>1. /\ reg.state = from /\ reg' = [reg EXCEPT !.state = to, !.EV = reg.EV \cup {event}]
      /\ ctx' = ctx /\ thr' = thr /\ log' = log
  BY DEF Radio!Settles
<1>2. /\ reg' \in RadioReg /\ reg'.state = to /\ reg'.EV = reg.EV \cup {event}
      /\ reg'.POWER = reg.POWER /\ reg'.air = reg.air
  BY <1>1, RadioTyped DEF RadioReg
<1>3. RadioWakes(reg')
  BY <1>2 DEF RadioWakes
<1>4. RadioDevice(reg', ctx.read_buffer, log.last)
  BY <1>1, <1>2, RadioNow, RadioTyped DEF RadioDevice, RadioReg
<1>5. QED
  BY <1>1, <1>2, <1>3, <1>4, RadioBeside, RadioTyped DEF RadioSound

\* While the device writes a packet the reader has none.
LEMMA RadioHears ==
  ASSUME RadioInv, reg.state = "RX", reg.air \in {"silent", "packet"},
         NEW b \in Radio!Packet, ctx' = Radio!Heard(b)
  PROVE  /\ ctx' \in [read_buffer : One, write_buffer : One, error : BOOLEAN,
                      channel : Channels, target_state : {"OFF", "RX", "TX"}]
         /\ ctx'.read_buffer.rsz = 0 /\ ctx'.read_buffer.bp[0] = b
         /\ reg.POWER /\ "PAYLOAD" \notin reg.EV /\ log.kept = <<>>
<1> DEFINE f == ctx.read_buffer
           g == [f EXCEPT !.bp = [f.bp EXCEPT ![0] = b]]
<1>1. /\ f \in One /\ f.rsz = 0 /\ "PAYLOAD" \notin reg.EV /\ reg.POWER /\ reg.PACKETPTR = 0
      /\ log.kept = <<>>
  BY RadioNow, RadioTyped DEF RadioDevice, RadioReg, Kept
<1>2. ctx' = [ctx EXCEPT !.read_buffer = g]
  BY <1>1 DEF Radio!Heard
<1>3. g \in One /\ g.rsz = 0 /\ g.bp[0] = b
  BY <1>1 DEF One
<1> HIDE DEF f, g
<1>4. QED
  BY <1>1, <1>2, <1>3, RadioTyped

LEMMA RadioAddress == ASSUME RadioInv, Radio!Address PROVE RadioInv'
<1>1. /\ reg.state = "RX" /\ reg.air = "silent" /\ ctx' = Radio!Heard(Radio!Torn)
      /\ reg' = [reg EXCEPT !.air = "packet"] /\ thr' = thr /\ log' = log
  BY DEF Radio!Address
<1>2. /\ ctx' \in [read_buffer : One, write_buffer : One, error : BOOLEAN, channel : Channels,
                   target_state : {"OFF", "RX", "TX"}]
      /\ ctx'.read_buffer.rsz = 0 /\ reg.POWER /\ "PAYLOAD" \notin reg.EV /\ log.kept = <<>>
  BY <1>1, RadioHears, RadioNumbers
<1>3. /\ reg' \in RadioReg /\ reg'.state = "RX" /\ reg'.EV = reg.EV /\ reg'.POWER
      /\ reg'.air = "packet"
  BY <1>1, <1>2, RadioTyped DEF RadioReg
<1>4. Kept(ctx'.read_buffer, log'.kept) /\ RadioDevice(reg', ctx'.read_buffer, log'.last)
  BY <1>1, <1>2, <1>3 DEF Kept, RadioDevice
<1>5. Radio!IdleWakes'
  BY <1>3 DEF Radio!IdleWakes
<1>6. QED
  BY <1>1, <1>2, <1>3, <1>4, <1>5, RadioNext, RadioTyped

LEMMA RadioPayload == ASSUME RadioInv, Radio!Payload PROVE RadioInv'
<1>1. /\ reg.state = "RX" /\ reg.air = "packet" /\ ctx' = Radio!Heard(log.next)
      /\ reg' = [reg EXCEPT !.air = "payload", !.EV = reg.EV \cup {"PAYLOAD"}] /\ thr' = thr
      /\ log' = [log EXCEPT !.last = log.next, !.next = (log.next + 1) % PacketNumbers]
  BY DEF Radio!Payload
<1>2. log.next \in Radio!Packet /\ (log.next + 1) % PacketNumbers \in Radio!Number
  BY RadioNumbers, RadioTyped
<1>3. /\ ctx' \in [read_buffer : One, write_buffer : One, error : BOOLEAN, channel : Channels,
                   target_state : {"OFF", "RX", "TX"}]
      /\ ctx'.read_buffer.rsz = 0 /\ ctx'.read_buffer.bp[0] = log.next /\ reg.POWER
      /\ log.kept = <<>>
  BY <1>1, <1>2, RadioHears
<1>4. /\ reg' \in RadioReg /\ reg'.state = "RX" /\ reg'.POWER /\ reg'.air = "payload"
  BY <1>1, <1>3, RadioTyped DEF RadioReg, Radio!Events
<1>5. /\ log' \in [next : Radio!Number, last : Radio!Packet, kept : Seq(Radio!Packet)]
      /\ log'.last = log.next /\ log'.kept = log.kept
  BY <1>1, <1>2, RadioTyped
<1>6. Kept(ctx'.read_buffer, log'.kept) /\ RadioDevice(reg', ctx'.read_buffer, log'.last)
  BY <1>3, <1>4, <1>5 DEF Kept, RadioDevice
<1>7. Radio!IdleWakes'
  BY <1>4 DEF Radio!IdleWakes
<1>8. QED
  BY <1>1, <1>3, <1>4, <1>5, <1>6, <1>7, RadioNext, RadioTyped

LEMMA RadioStep == RadioInv /\ Radio!Next => RadioInv'
<1>1. ASSUME RadioInv, Radio!Ready \/ Radio!Stopped \/ Radio!End PROVE RadioInv'
  BY <1>1, RadioSettles DEF Radio!Ready, Radio!Stopped, Radio!End, Radio!Events
<1>2. QED
  BY <1>1, RadioIrq, RadioRead, RadioWrite, RadioIoctl, RadioFlush, RadioClose, RadioReopen,
     RadioAddress, RadioPayload DEF Radio!Next
-----------------------------------------------------------------------------
(* All of them.                                                              *)

DriversInv ==
  /\ board = "rng" => RngInv
  /\ board = "radio" => RadioInv
  /\ board = "uart" => UartInv
  /\ board = "hosted" => HostedInv
  /\ board = "mutex" => MutexInv

LEMMA DriversInit == Init => DriversInv
BY RngInit, RadioInit, UartInit, HostedInit, MutexInit DEF Init, DriversInv

\* What depends on the variables only stays as they do.
LEMMA DriversStutter == ASSUME DriversInv, UNCHANGED vars PROVE DriversInv'
<1>1. UNCHANGED <<ctx, reg, thr, log>> /\ board' = board
  BY DEF vars
<1>2. RngInv => RngInv'
  BY <1>1 DEF RngInv, RNG!TypeOK, RNG!NeverStalls
<1>3. RadioInv => RadioInv'
  BY <1>1, RadioBeside, RadioTyped, RadioSoundNow
<1>4. UartInv => UartInv'
  <2> SUFFICES ASSUME UartInv PROVE UartInv'
    OBVIOUS
  <2>1. Uart!TypeOK'
    BY <1>1, UartType, UartTyped
  <2>2. UartBoots' /\ UartIrqs'
    BY <1>1 DEF UartInv, UartBoots, UartIrqs
  <2>3. UartMoves' /\ UartOrder'
    BY <1>1 DEF UartInv, UartMoves, UartOrder
  <2>4. QED
    BY <2>1, <2>2, <2>3 DEF UartInv
<1>5. HostedInv => HostedInv'
  BY <1>1 DEF HostedInv, Hosted!TypeOK, Hosted!NeverStalls
<1>6. MutexInv => MutexInv'
  BY <1>1, Holds!MutexStep DEF MutexInv, Holds!vars
<1>7. QED
  BY <1>1, <1>2, <1>3, <1>4, <1>5, <1>6 DEF DriversInv

LEMMA DriversStep == DriversInv /\ [Next]_vars => DriversInv'
<1> SUFFICES ASSUME DriversInv, [Next]_vars PROVE DriversInv'
  OBVIOUS
<1>1. CASE UNCHANGED vars
  BY <1>1, DriversStutter
<1>2. CASE Next
  BY <1>2, RngStep, RadioStep, UartStep, HostedStep, MutexStep DEF Next, Is, DriversInv
<1>3. QED
  BY <1>1, <1>2

LEMMA DriversAlways == Spec => []DriversInv
BY DriversInit, DriversStep, PTL DEF Spec

\* The state of each driver is of its type: fifo_buffer_putb and fifo_buffer_getb keep the
\* counts and the indices of every ring in agreement, whoever calls them and when, and the
\* mutex is locked exactly while somebody holds it.
THEOREM DriversTyped == Spec => []TypeOK
<1>1. DriversInv => TypeOK
  BY RngProperties, UartProperties, HostedProperties, MutexProperties
     DEF DriversInv, TypeOK, RadioInv
<1>2. QED
  BY <1>1, DriversAlways, PTL

\* What a driver hands on is what it was given, in order, whole and once: the handlers
\* (hwrng.c _IRQ, uart.c _IRQ, irq.h __irq_payload_rx) and the threads (_read, _write) may
\* interleave in any way the locks allow.
THEOREM DriversInOrder == Spec => []InOrder
<1>1. DriversInv => InOrder
  BY RngProperties, UartProperties, HostedProperties DEF DriversInv, InOrder, RadioInv
<1>2. QED
  BY <1>1, DriversAlways, PTL

\* Nobody waits for an interrupt that is disabled, or for a service that has been halted.
THEOREM DriversNeverStall == Spec => []NeverStalls
<1>1. DriversInv => NeverStalls
  BY RngProperties, UartProperties, HostedProperties DEF DriversInv, NeverStalls, RadioInv
<1>2. QED
  BY <1>1, DriversAlways, PTL

\* An interrupt of the OMAP finds the handler of its line, from the first instruction of
\* console_setup on.
THEOREM DriversDispatch == Spec => []Dispatched
<1>1. DriversInv => Dispatched
  BY UartProperties DEF DriversInv, Dispatched
<1>2. QED
  BY <1>1, DriversAlways, PTL

\* One thread holds the mutex, as MutexProofs shows for any threads.
THEOREM DriversOneHolder == Spec => []OneHolder
<1>1. DriversInv => OneHolder
  BY MutexProperties DEF DriversInv, OneHolder
<1>2. QED
  BY <1>1, DriversAlways, PTL
=============================================================================
