---------------------------- MODULE MemoryProofs ----------------------------
(***************************************************************************)
(* Theorems about the memory of the kernel, for any amount of memory, any  *)
(* pools, any devices and any sequence of calls.                           *)
(***************************************************************************)
EXTENDS KernelMemory, SequenceTheorems, FiniteSetTheorems, WellFoundedInduction, TLAPS

-----------------------------------------------------------------------------
(* Numbers.                                                                  *)

\* A non-empty set of naturals has a least element, and Lowest is it.
LEMMA LowestOf ==
  ASSUME NEW S \in SUBSET Nat, S # {}
  PROVE  Lowest(S) \in S /\ \A y \in S : Lowest(S) <= y
<1>1. PICK x \in S : \A y \in S : <<y, x>> \notin OpToRel(<, Nat)
  BY NatLessThanWellFounded, WFMin
<1>2. \A y \in S : ~(y < x)
  BY <1>1 DEF OpToRel
<1>3. \A y \in S : x <= y
  BY <1>2
<1>4. QED
  BY <1>3 DEF Lowest

\* Induction from 0 to n, over a set.
LEMMA Climb ==
  ASSUME NEW n \in Nat, NEW P, 0 \in P, \A k \in 0 .. n - 1 : k \in P => k + 1 \in P
  PROVE  \A k \in 0 .. n : k \in P
<1> DEFINE S == {k \in 0 .. n : k \notin P}
           x == Lowest(S)
<1>1. ASSUME S # {} PROVE FALSE
  <2>1. x \in S /\ \A y \in S : x <= y
    BY <1>1, LowestOf
  <2> HIDE DEF x
  <2>2. x \in 0 .. n /\ x \notin P /\ x # 0
    BY <2>1
  <2>3. x - 1 \in 0 .. n - 1 /\ x - 1 \in 0 .. n /\ (x - 1) + 1 = x /\ ~(x <= x - 1)
    BY <2>2
  <2>4. x - 1 \in P
    BY <2>1, <2>3
  <2>5. QED
    BY <2>2, <2>3, <2>4
<1>2. QED
  BY <1>1

\* What division leaves.
LEMMA DivMod ==
  ASSUME NEW x \in Nat, NEW d \in Nat \ {0}
  PROVE  /\ x \div d \in Nat /\ x % d \in 0 .. d - 1
         /\ x = d * (x \div d) + (x % d)
  OBVIOUS

LEMMA DivUnique ==
  ASSUME NEW d \in Nat \ {0}, NEW q \in Nat, NEW r \in 0 .. d - 1
  PROVE  (d * q + r) \div d = q /\ (d * q + r) % d = r
  OBVIOUS

-----------------------------------------------------------------------------
(* Lists.                                                                    *)

LEMMA RangeOf ==
  ASSUME NEW S, NEW q \in Seq(S)
  PROVE  /\ Len(q) \in Nat /\ DOMAIN q = 1 .. Len(q) /\ Range(q) \subseteq S
         /\ \A x : x \in Range(q) <=> \E i \in 1 .. Len(q) : q[i] = x
         /\ IsInjective(q) <=> \A i, j \in 1 .. Len(q) : q[i] = q[j] => i = j
<1>1. Len(q) \in Nat /\ DOMAIN q = 1 .. Len(q) /\ \A i \in 1 .. Len(q) : q[i] \in S
  BY ElementOfSeq, LenProperties
<1>2. QED
  BY <1>1 DEF Range, IsInjective

\* A function that is changed in one place, to something that may stand there.
LEMMA OnePlace ==
  ASSUME NEW D, NEW T, NEW f \in [D -> T], NEW d \in D, NEW x \in T
  PROVE  [f EXCEPT ![d] = x] \in [D -> T]
OBVIOUS

LEMMA EmptyRange == Range(<<>>) = {}
BY DEF Range

LEMMA Single ==
  ASSUME NEW S, NEW s \in S
  PROVE  <<s>> \in Seq(S) /\ Range(<<s>>) = {s} /\ IsInjective(<<s>>)
<1> DEFINE q == <<s>>
<1>1. q \in Seq(S) /\ DOMAIN q = {1} /\ q[1] = s
  OBVIOUS
<1> HIDE DEF q
<1>2. Range(q) = {s}
  BY <1>1 DEF Range
<1>3. IsInjective(q)
  BY <1>1 DEF IsInjective
<1>4. QED
  BY <1>1, <1>2, <1>3 DEF q

LEMMA PushFront ==
  ASSUME NEW S, NEW q \in Seq(S), NEW s \in S
  PROVE  /\ <<s>> \o q \in Seq(S) /\ Range(<<s>> \o q) = {s} \cup Range(q)
         /\ IsInjective(q) /\ s \notin Range(q) => IsInjective(<<s>> \o q)
<1> DEFINE p == <<s>> \o q
           n == Len(q)
<1>1. <<s>> \in Seq(S) /\ Len(<<s>>) = 1 /\ <<s>>[1] = s
  OBVIOUS
<1>2. n \in Nat /\ \A i \in 1 .. n : q[i] \in S
  BY RangeOf
<1>3. /\ p \in Seq(S) /\ Len(p) = n + 1
      /\ \A i \in 1 .. n + 1 : p[i] = IF i <= 1 THEN <<s>>[i] ELSE q[i - 1]
  BY <1>1, <1>2, ConcatProperties
<1> HIDE DEF p, n
<1>4. 1 \in 1 .. n + 1 /\ \A i \in 1 .. n : i + 1 \in 1 .. n + 1
  BY <1>2
<1>5. p[1] = s /\ \A i \in 1 .. n : p[i + 1] = q[i]
  BY <1>1, <1>2, <1>3, <1>4
<1>6. \A i \in 1 .. n + 1 : i = 1 \/ (i - 1 \in 1 .. n /\ p[i] = q[i - 1])
  BY <1>2, <1>3
<1>7. \A x : x \in Range(p) <=> \E i \in 1 .. n + 1 : p[i] = x
  BY <1>3, RangeOf
<1>8. \A x : x \in Range(q) <=> \E i \in 1 .. n : q[i] = x
  BY RangeOf DEF n
<1>9. Range(p) = {s} \cup Range(q)
  <2>1. ASSUME NEW x \in Range(p) PROVE x \in {s} \cup Range(q)
    BY <1>5, <1>6, <1>7, <1>8, <2>1
  <2>2. ASSUME NEW x \in Range(q) PROVE x \in Range(p)
    BY <1>4, <1>5, <1>7, <1>8, <2>2
  <2>3. s \in Range(p)
    BY <1>4, <1>5, <1>7
  <2>4. QED
    BY <2>1, <2>2, <2>3
<1>10. ASSUME IsInjective(q), s \notin Range(q) PROVE IsInjective(p)
  <2>1. \A i, j \in 1 .. n : q[i] = q[j] => i = j
    BY <1>10, RangeOf DEF n
  <2>2. \A i \in 1 .. n : q[i] # s
    BY <1>8, <1>10
  <2>3. ASSUME NEW i \in 1 .. n + 1, NEW j \in 1 .. n + 1, p[i] = p[j] PROVE i = j
    <3>1. CASE i = 1 \/ j = 1
      BY <1>5, <1>6, <2>2, <2>3, <3>1
    <3>2. CASE i # 1 /\ j # 1
      <4>1. i - 1 \in 1 .. n /\ j - 1 \in 1 .. n /\ q[i - 1] = q[j - 1]
        BY <1>6, <2>3, <3>2
      <4>2. i - 1 = j - 1
        BY <2>1, <4>1
      <4>3. QED
        BY <4>2, <1>2
    <3>3. QED
      BY <3>1, <3>2
  <2>4. QED
    BY <1>3, <2>3, RangeOf
<1>11. QED
  BY <1>3, <1>9, <1>10 DEF p

LEMMA TailOf ==
  ASSUME NEW S, NEW q \in Seq(S), q # <<>>, IsInjective(q)
  PROVE  /\ Tail(q) \in Seq(S) /\ Range(Tail(q)) = Range(q) \ {Head(q)} /\ IsInjective(Tail(q))
         /\ Head(q) \in Range(q) /\ Head(q) \in S
<1> DEFINE p == Tail(q)
           n == Len(q)
<1>1. /\ p \in Seq(S) /\ n \in Nat \ {0} /\ Len(p) = n - 1 /\ Head(q) = q[1]
      /\ \A i \in 1 .. n - 1 : p[i] = q[i + 1]
  BY HeadTailProperties, EmptySeq
<1>2. \A i, j \in 1 .. n : q[i] = q[j] => i = j
  BY RangeOf
<1>3. /\ \A x : x \in Range(q) <=> \E i \in 1 .. n : q[i] = x
      /\ \A x : x \in Range(p) <=> \E i \in 1 .. n - 1 : p[i] = x
      /\ Range(q) \subseteq S
  <2>1. Range(q) \subseteq S /\ \A x : x \in Range(q) <=> \E i \in 1 .. n : q[i] = x
    BY RangeOf
  <2> HIDE DEF p, n
  <2>2. \A x : x \in Range(p) <=> \E i \in 1 .. Len(p) : p[i] = x
    BY <1>1, RangeOf
  <2>3. QED
    BY <1>1, <2>1, <2>2
<1> HIDE DEF p, n
<1>4. /\ 1 \in 1 .. n /\ \A i \in 1 .. n - 1 : i + 1 \in 1 .. n /\ i + 1 # 1
      /\ \A i \in 1 .. n : i # 1 => i - 1 \in 1 .. n - 1 /\ (i - 1) + 1 = i
  BY <1>1
<1>5. Range(p) = Range(q) \ {Head(q)}
  <2>1. ASSUME NEW x \in Range(p) PROVE x \in Range(q) \ {Head(q)}
    BY <1>1, <1>2, <1>3, <1>4, <2>1
  <2>2. ASSUME NEW x \in Range(q), x # Head(q) PROVE x \in Range(p)
    <3>1. PICK i \in 1 .. n : q[i] = x
      BY <1>3, <2>2
    <3>2. i # 1
      BY <1>1, <2>2, <3>1
    <3>3. i - 1 \in 1 .. n - 1 /\ p[i - 1] = x
      BY <1>1, <1>4, <3>1, <3>2
    <3>4. QED
      BY <1>3, <3>3
  <2>3. QED
    BY <2>1, <2>2
<1>6. IsInjective(p)
  <2>1. ASSUME NEW i \in 1 .. n - 1, NEW j \in 1 .. n - 1, p[i] = p[j] PROVE i = j
    <3>1. i + 1 = j + 1
      BY <1>1, <1>2, <1>4, <2>1
    <3>2. QED
      BY <1>1, <3>1
  <2>2. QED
    BY <1>1, <2>1, RangeOf
<1>7. Head(q) \in Range(q)
  BY <1>1, <1>3, <1>4
<1>8. QED
  BY <1>1, <1>3, <1>5, <1>6, <1>7 DEF p

LEMMA RemoveAtOf ==
  ASSUME NEW S, NEW q \in Seq(S), NEW i \in 1 .. Len(q), IsInjective(q)
  PROVE  /\ RemoveAt(q, i) \in Seq(S) /\ Range(RemoveAt(q, i)) = Range(q) \ {q[i]}
         /\ IsInjective(RemoveAt(q, i))
<1> DEFINE n == Len(q)
           a == SubSeq(q, 1, i - 1)
           b == SubSeq(q, i + 1, n)
           p == a \o b
           from(k) == IF k <= i - 1 THEN k ELSE k + 1
<1>1. n \in Nat /\ \A k \in 1 .. n : q[k] \in S
  BY RangeOf
<1>2. /\ a \in Seq(S) /\ Len(a) = i - 1 /\ \A k \in 1 .. i - 1 : a[k] = q[k]
  <2>1. 1 \in 1 .. n + 1 /\ i - 1 \in 0 .. n /\ \A k \in 1 .. i - 1 : 1 + k - 1 = k
    BY <1>1
  <2>2. a \in Seq(S)
    BY <1>1
  <2>3. Len(a) = i - 1
    BY <1>1
  <2>4. \A k \in 1 .. i - 1 : a[k] = q[k]
    BY <1>1
  <2>5. QED
    BY <2>2, <2>3, <2>4
<1>3. /\ b \in Seq(S) /\ Len(b) = n - i /\ \A k \in 1 .. n - i : b[k] = q[k + i]
  <2>1. b \in Seq(S)
    BY <1>1
  <2>2. Len(b) = n - i
    BY <1>1
  <2>3. \A k \in 1 .. n - i : b[k] = q[k + i]
    BY <1>1
  <2>4. QED
    BY <2>1, <2>2, <2>3
<1> HIDE DEF a, b, n
<1>4. /\ p \in Seq(S) /\ Len(p) = Len(a) + Len(b)
      /\ \A k \in 1 .. Len(a) + Len(b) : p[k] = IF k <= Len(a) THEN a[k] ELSE b[k - Len(a)]
  BY <1>2, <1>3, ConcatProperties
<1> HIDE DEF p
<1>5. p \in Seq(S) /\ Len(p) = n - 1
  BY <1>1, <1>2, <1>3, <1>4 DEF n
<1>6. ASSUME NEW k \in 1 .. n - 1 PROVE p[k] = q[from(k)] /\ from(k) \in 1 .. n /\ from(k) # i
  <2>1. k \in 1 .. Len(a) + Len(b)
    BY <1>1, <1>2, <1>3, <1>6 DEF n
  <2>2. CASE k <= i - 1
    BY <1>1, <1>2, <1>4, <2>1, <2>2 DEF n
  <2>3. CASE ~(k <= i - 1)
    <3>1. k - (i - 1) \in 1 .. n - i /\ (k - (i - 1)) + i = k + 1
      BY <1>1, <1>6, <2>3 DEF n
    <3>2. p[k] = b[k - (i - 1)]
      BY <1>2, <1>4, <2>1, <2>3
    <3>3. p[k] = q[k + 1]
      BY <1>3, <3>1, <3>2
    <3>4. k + 1 \in 1 .. n /\ k + 1 # i
      BY <1>1, <1>6, <2>3 DEF n
    <3>5. QED
      BY <2>3, <3>3, <3>4
  <2>4. QED
    BY <2>2, <2>3
<1>7. /\ \A k, m \in 1 .. n - 1 : from(k) = from(m) => k = m
      /\ \A j \in 1 .. n : j # i => \E k \in 1 .. n - 1 : from(k) = j
  <2>1. \A k, m \in 1 .. n - 1 : from(k) = from(m) => k = m
    BY <1>1 DEF n
  <2>2. ASSUME NEW j \in 1 .. n, j # i PROVE \E k \in 1 .. n - 1 : from(k) = j
    <3>1. CASE j < i
      <4>1. j \in 1 .. n - 1 /\ from(j) = j
        BY <1>1, <3>1 DEF n
      <4>2. QED
        BY <4>1
    <3>2. CASE j > i
      <4>1. j - 1 \in 1 .. n - 1 /\ from(j - 1) = j
        BY <1>1, <3>2 DEF n
      <4>2. QED
        BY <4>1
    <3>3. QED
      BY <1>1, <2>2, <3>1, <3>2 DEF n
  <2>3. QED
    BY <2>1, <2>2
<1> HIDE DEF from
<1>8. /\ \A x : x \in Range(q) <=> \E k \in 1 .. n : q[k] = x
      /\ \A x : x \in Range(p) <=> \E k \in 1 .. n - 1 : p[k] = x
      /\ \A k, m \in 1 .. n : q[k] = q[m] => k = m
  BY <1>5, RangeOf DEF n
<1>9. Range(p) = Range(q) \ {q[i]}
  <2>1. ASSUME NEW x \in Range(p) PROVE x \in Range(q) \ {q[i]}
    <3>1. PICK k \in 1 .. n - 1 : p[k] = x
      BY <1>8, <2>1
    <3>2. x = q[from(k)] /\ from(k) \in 1 .. n /\ from(k) # i
      BY <1>6, <3>1
    <3>3. x # q[i]
      BY <1>8, <3>2 DEF n
    <3>4. QED
      BY <1>8, <3>2, <3>3
  <2>2. ASSUME NEW x \in Range(q), x # q[i] PROVE x \in Range(p)
    <3>1. PICK j \in 1 .. n : q[j] = x
      BY <1>8, <2>2
    <3>2. PICK k \in 1 .. n - 1 : from(k) = j
      BY <1>7, <2>2, <3>1
    <3>3. p[k] = x
      BY <1>6, <3>1, <3>2
    <3>4. QED
      BY <1>8, <3>3
  <2>3. QED
    BY <2>1, <2>2
<1>10. IsInjective(p)
  <2>1. \A k, m \in 1 .. n - 1 : p[k] = p[m] => k = m
    BY <1>6, <1>7, <1>8
  <2>2. QED
    BY <1>5, <2>1, RangeOf
<1>11. QED
  BY <1>5, <1>9, <1>10 DEF p, a, b, n, RemoveAt

-----------------------------------------------------------------------------
(* The caches.                                                               *)

Lists       == {"free", "partial", "full"}
In(h, c, l) == Range(h.caches[c][l])

Address == [page : Ram, offset : Nat]
OneCache == [free : Seq(Slab), partial : Seq(Slab), full : Seq(Slab)]
OneSlab  == [page : Ram \cup {NULL}, bitmap : SUBSET Nat, allocated_chunks : Nat]

Shape(h) ==
  /\ DOMAIN h = {"pages", "caches", "slab"}
  /\ h.pages \subseteq Ram
  /\ h.caches \in [DOMAIN h.caches -> OneCache] /\ DOMAIN h.caches \subseteq Pools
  /\ h.slab \in [DOMAIN h.slab -> OneSlab] /\ DOMAIN h.slab \subseteq Slab

\* A slab is in one list of one cache, once.
Listed(h) ==
  /\ \A c \in DOMAIN h.caches, l \in Lists :
       IsInjective(h.caches[c][l]) /\ In(h, c, l) \subseteq DOMAIN h.slab
  /\ \A s \in DOMAIN h.slab : \E c \in DOMAIN h.caches, l \in Lists : s \in In(h, c, l)
  /\ \A c, d \in DOMAIN h.caches, l, m \in Lists :
       \A s \in In(h, c, l) : s \in In(h, d, m) => c = d /\ l = m

\* The list says how many of its chunks are marked.  The slabs of X have just got a page, and
\* nothing of it is marked yet.
Marks(h, X) ==
  \A c \in DOMAIN h.caches :
    /\ \A s \in In(h, c, "free") : h.slab[s].bitmap = {} /\ s \notin X
    /\ \A s \in In(h, c, "partial") :
         /\ h.slab[s].bitmap \subseteq Chunks(c) /\ h.slab[s].bitmap # Chunks(c)
         /\ s \notin X => h.slab[s].bitmap # {}
    /\ \A s \in In(h, c, "full") : h.slab[s].bitmap = Chunks(c) /\ s \notin X

Counted(h) ==
  \A s \in DOMAIN h.slab :
    IsFiniteSet(h.slab[s].bitmap) /\ h.slab[s].allocated_chunks = Cardinality(h.slab[s].bitmap)

DescriptorsOf(h) == {s.page : s \in DOMAIN h.slab}
SlabPagesOf(h)   == {h.slab[s].page : s \in DOMAIN h.slab} \ {NULL}
Managed(h)       == h.pages \cup DescriptorsOf(h) \cup SlabPagesOf(h)

\* Each page is free, of descriptors, or of one slab.
PagesOnce(h, X) ==
  /\ \A s \in DOMAIN h.slab : h.slab[s].page = NULL <=> (h.slab[s].bitmap = {} /\ s \notin X)
  /\ \A s, t \in DOMAIN h.slab : s # t /\ h.slab[s].page # NULL => h.slab[s].page # h.slab[t].page
  /\ \A s \in DOMAIN h.slab : s.page \notin h.pages /\ h.slab[s].page \notin h.pages
  /\ \A s, t \in DOMAIN h.slab : h.slab[s].page # t.page

HeapInv(h, X) == Shape(h) /\ Listed(h) /\ Marks(h, X) /\ Counted(h) /\ PagesOnce(h, X)

\* The chunks that are out, each with its cache.
ChunksOf(h, c, s) ==
  {<<c, [page |-> h.slab[s].page, offset |-> b * chunk_size[c]]>> : b \in h.slab[s].bitmap}
SlabsOf(h, c) == UNION {In(h, c, l) : l \in Lists}
Marked(h)     == UNION {UNION {ChunksOf(h, c, s) : s \in SlabsOf(h, c)} : c \in DOMAIN h.caches}

-----------------------------------------------------------------------------
(* The tables, and who has what.                                             *)

TablesOf(m)   == {[mem |-> m.l1[e], size |-> L2_SIZE] : e \in {f \in DOMAIN m.l1 : m.l1[f] # NULL}}
MadeTables(m) ==
  {[mem |-> m.l1[e], size |-> L2_SIZE] : e \in {f \in DOMAIN m.l1 \ RamEntries : m.l1[f] # NULL}}
PoolOf(size)  == CHOOSE c \in PoolFor(size) : TRUE

MmuShape(m) ==
  /\ DOMAIN m = {"l1", "l2", "tlb"}
  /\ DOMAIN m.l1 = 0 .. L1_ENTRIES - 1
  /\ \A e \in 0 .. L1_ENTRIES - 1 : m.l1[e] # NULL => m.l1[e] \in DOMAIN m.l2
  /\ \A a \in DOMAIN m.l2 : DOMAIN m.l2[a] = 0 .. L2_ENTRIES - 1

\* The tables of memory are where booting put them, those of devices are chunks of kmalloc.
TablesInv(begin, m) ==
  /\ \A e \in RamEntries : m.l1[e] = BootTable(TablesAt(begin), e - Lowest(RamEntries))
  /\ \A e, f \in 0 .. L1_ENTRIES - 1 : e # f /\ m.l1[e] # NULL => m.l1[e] # m.l1[f]

\* What is mapped: memory, and the devices D.
MapInv(m, D) ==
  /\ \A v \in Virtual :
       /\ v \in Ram => Entry(m, v) = SmallPage(v, "RAM")
       /\ \A r \in D : v \in Region(r) => Entry(m, v) = SmallPage(v, "DEVICE")
       /\ v \notin Ram /\ (\A r \in D : v \notin Region(r)) => ~Usable(Entry(m, v))
  /\ m.tlb = Translations(m)
  /\ \A r \in D : m.l1[r.page \div L2_ENTRIES] # NULL

MmuInv(begin, m, D) == D \subseteq Regions /\ MmuShape(m) /\ TablesInv(begin, m) /\ MapInv(m, D)

PagesInv(begin, h, S) ==
  /\ Managed(h) \cup S = FirstPage(begin) + 1 .. RamEnd - 1
  /\ Managed(h) \cap S = {}

\* The chunks that are out are the objects and tables of this set.
Out(h, out) ==
  /\ Marked(h) = {<<PoolOf(o.size), o.mem>> : o \in out}
  /\ \A o \in out : o \in [mem : Address, size : Nat] /\ PoolFor(o.size) # {}
  /\ \A o, q \in out : o.mem = q.mem => o = q

Owners(h, m, O) == Out(h, O \cup MadeTables(m)) /\ O \cap MadeTables(m) = {}

Sound(begin, h, m, O, S, D) ==
  /\ begin \in HeapBegins
  /\ HeapInv(h, {}) /\ PagesInv(begin, h, S) /\ Owners(h, m, O) /\ MmuInv(begin, m, D)

-----------------------------------------------------------------------------
(* Booting.                                                                  *)

StackBlock  == {heap_begin}
RootBlock   == BootBase(heap_begin, RootAt(heap_begin)) .. TablesAt(heap_begin) - 1
TablesBlock == TablesAt(heap_begin) .. BitmapsAt(heap_begin) - 1
BitsBlock   == BitmapsAt(heap_begin) .. FirstPage(heap_begin) - 1

BootInv ==
  /\ heap_begin \in HeapBegins
  /\ phase \in {"stack", "tables", "page allocator", "devices", "up", "halted"}
  /\ boot \in Nat
  /\ phase = "stack" => boot = 0 /\ blocks = {}
  /\ phase = "tables" => boot = 1 /\ blocks = {StackBlock}
  /\ phase = "page allocator" =>
       /\ BootBase(heap_begin, boot) = BitmapsAt(heap_begin)
       /\ blocks = {StackBlock, RootBlock, TablesBlock}
  /\ phase \in {"devices", "up", "halted"} => blocks = {StackBlock, RootBlock, TablesBlock, BitsBlock}
  /\ phase \in {"stack", "tables"} => mmu = NoMmu
  /\ phase = "page allocator" => MmuInv(heap_begin, mmu, {}) /\ MadeTables(mmu) = {}
  /\ phase \in {"stack", "tables", "page allocator"} => heap = NoHeap
  /\ phase \notin {"up", "halted"} =>
       objs = {} /\ stacks = {} /\ mapped = {} /\ uarts = {} /\ fifos = {}

\* Each open instance of a UART has its own context and FIFOs, none of them a stack.
UartInv(O, S, F, U) ==
  /\ S \cap F = {}
  /\ \A u \in U : u.device \in UartRegions /\ u.context \in O /\ u.fifos \subseteq F
  /\ \A u, w \in U : u # w => u.context # w.context /\ u.fifos \cap w.fifos = {}

MemoryInv ==
  /\ BootInv
  /\ phase \in {"devices", "up", "halted"} =>
       Sound(heap_begin, heap, mmu, objs, stacks \cup fifos, mapped)
  /\ UartInv(objs, stacks, fifos, uarts)

LEMMA NoUarts == UartInv({}, {}, {}, {})
BY DEF UartInv
-----------------------------------------------------------------------------
(* Chunks.                                                                   *)

\* The chunks of a slab fill its page.
LEMMA ChunkFacts ==
  ASSUME NEW c \in Pools
  PROVE  /\ chunk_size[c] \in Nat \ {0} /\ CHUNKS_PER_SLAB(c) \in Nat \ {0}
         /\ CHUNKS_PER_SLAB(c) <= PAGE_SIZE
         /\ Chunks(c) = 0 .. CHUNKS_PER_SLAB(c) - 1
         /\ IsFiniteSet(Chunks(c)) /\ Cardinality(Chunks(c)) = CHUNKS_PER_SLAB(c)
         /\ 0 \in Chunks(c) /\ Chunks(c) \subseteq Nat
<1> DEFINE d == chunk_size[c]
           q == CHUNKS_PER_SLAB(c)
<1>1. d \in Nat \ {0} /\ PAGE_SIZE \in Nat \ {0} /\ PAGE_SIZE % d = 0
  BY MemCacheAssumption DEF Pools
<1>2. q = PAGE_SIZE \div d
  BY DEF CHUNKS_PER_SLAB
<1> HIDE DEF d, q
<1>3. q \in Nat /\ PAGE_SIZE = d * q + 0
  BY <1>1, <1>2, DivMod
<1>4. q # 0
  BY <1>1, <1>3
<1>5. q <= d * q
  BY <1>1, <1>3
<1>6. Chunks(c) = 0 .. q - 1
  BY <1>2 DEF Chunks, d
<1>7. IsFiniteSet(0 .. q - 1) /\ Cardinality(0 .. q - 1) = q
  <2> DEFINE z == q - 1
  <2>1. z \in Int /\ 0 \in Int /\ ~(0 > z) /\ z - 0 + 1 = q
    BY <1>3, <1>4
  <2> HIDE DEF z
  <2>2. /\ IsFiniteSet(0 .. z)
        /\ Cardinality(0 .. z) = IF 0 > z THEN 0 ELSE z - 0 + 1
    BY <2>1, FS_Interval, Zenon
  <2>3. QED
    BY <2>1, <2>2, Zenon DEF z
<1>8. QED
  BY <1>1, <1>3, <1>4, <1>5, <1>6, <1>7 DEF d, q

\* The address of a chunk tells its number, and chunks do not overlap.
LEMMA ChunkApart ==
  ASSUME NEW d \in Nat \ {0}, NEW b \in Nat
  PROVE  /\ (b * d) \div d = b /\ (b * d) % d = 0 /\ b * d \in Nat
         /\ \A a \in Nat, i, j \in 0 .. d - 1 : a * d + i = b * d + j => a = b
<1>1. (d * b + 0) \div d = b /\ (d * b + 0) % d = 0
  BY DivUnique
<1>2. ASSUME NEW a \in Nat, NEW i \in 0 .. d - 1, NEW j \in 0 .. d - 1, a * d + i = b * d + j
      PROVE  a = b
  <2>1. (d * a + i) \div d = a /\ (d * b + j) \div d = b
    BY DivUnique
  <2>2. d * a + i = d * b + j
    BY <1>2
  <2>3. QED
    BY <2>1, <2>2
<1>3. b * d = d * b + 0 /\ b * d \in Nat
  OBVIOUS
<1>4. QED
  BY <1>1, <1>2, <1>3

-----------------------------------------------------------------------------
(* What a heap is made of.                                                   *)

LEMMA ShapeFacts ==
  ASSUME NEW h, Shape(h)
  PROVE  /\ \A c \in DOMAIN h.caches :
              /\ c \in Pools /\ h.caches[c] \in OneCache
              /\ h.caches[c].free \in Seq(Slab) /\ h.caches[c].partial \in Seq(Slab)
              /\ h.caches[c].full \in Seq(Slab)
              /\ \A l \in Lists : h.caches[c][l] \in Seq(Slab) /\ In(h, c, l) \subseteq Slab
         /\ \A s \in DOMAIN h.slab :
              /\ s \in Slab /\ h.slab[s] \in OneSlab /\ s.page \in Nat
              /\ h.slab[s].page \in Ram \cup {NULL} /\ h.slab[s].bitmap \subseteq Nat
              /\ h.slab[s].allocated_chunks \in Nat
         /\ h.pages \subseteq Nat
<1>1. ASSUME NEW c \in DOMAIN h.caches
      PROVE  /\ c \in Pools /\ h.caches[c] \in OneCache
             /\ h.caches[c].free \in Seq(Slab) /\ h.caches[c].partial \in Seq(Slab)
             /\ h.caches[c].full \in Seq(Slab)
             /\ \A l \in Lists : h.caches[c][l] \in Seq(Slab) /\ In(h, c, l) \subseteq Slab
  <2>1. c \in Pools /\ h.caches[c] \in OneCache
    BY <1>1 DEF Shape
  <2>2. h.caches[c].free \in Seq(Slab) /\ h.caches[c].partial \in Seq(Slab) /\ h.caches[c].full \in Seq(Slab)
    BY <2>1 DEF OneCache
  <2>3. \A l \in Lists : h.caches[c][l] \in Seq(Slab)
    BY <2>2 DEF Lists
  <2>4. \A l \in Lists : In(h, c, l) \subseteq Slab
    BY <2>3, RangeOf DEF In
  <2>5. QED
    BY <2>1, <2>2, <2>3, <2>4
<1>2. ASSUME NEW s \in DOMAIN h.slab
      PROVE  /\ s \in Slab /\ h.slab[s] \in OneSlab /\ s.page \in Nat
             /\ h.slab[s].page \in Ram \cup {NULL} /\ h.slab[s].bitmap \subseteq Nat
             /\ h.slab[s].allocated_chunks \in Nat
  <2>1. s \in Slab /\ h.slab[s] \in OneSlab
    BY <1>2 DEF Shape
  <2>2. QED
    BY <2>1 DEF Slab, OneSlab
<1>3. h.pages \subseteq Nat
  BY KernelMemoryAssumption DEF Shape, Ram, RamEnd
<1>4. QED
  BY <1>1, <1>2, <1>3

\* A page is not NULL.
LEMMA PageNotNull == NULL \notin Nat /\ NULL \notin Ram /\ Ram \subseteq Nat
BY MemCacheAssumption, KernelMemoryAssumption DEF Ram, RamEnd

LEMMA MarkedAt ==
  ASSUME NEW h, NEW x
  PROVE  x \in Marked(h) <=>
           \E c \in DOMAIN h.caches : \E s \in SlabsOf(h, c) : x \in ChunksOf(h, c, s)
BY DEF Marked

LEMMA SlabsAt ==
  ASSUME NEW h, NEW c, NEW s
  PROVE  s \in SlabsOf(h, c) <=> \E l \in Lists : s \in In(h, c, l)
BY DEF SlabsOf

LEMMA ChunkAt ==
  ASSUME NEW h, NEW c, NEW s, NEW x
  PROVE  x \in ChunksOf(h, c, s) <=>
           \E b \in h.slab[s].bitmap : x = <<c, [page |-> h.slab[s].page, offset |-> b * chunk_size[c]]>>
BY DEF ChunksOf

\* A slab of a list is a slab.
LEMMA ListedSlab ==
  ASSUME NEW h, Listed(h), NEW c \in DOMAIN h.caches, NEW s \in SlabsOf(h, c)
  PROVE  s \in DOMAIN h.slab
<1>1. PICK l \in Lists : s \in In(h, c, l)
  BY SlabsAt
<1>2. QED
  BY <1>1 DEF Listed

-----------------------------------------------------------------------------
(* A slab changes, and goes to a list.                                       *)

\* In g slab s is in list m of its cache c, and everything else where it was in h.
Moved(h, g, c, s, m) ==
  /\ DOMAIN g.caches = DOMAIN h.caches
  /\ \A d \in DOMAIN h.caches, k \in Lists :
       /\ IsInjective(g.caches[d][k])
       /\ In(g, d, k) = (In(h, d, k) \ {s}) \cup (IF d = c /\ k = m THEN {s} ELSE {})

LEMMA MovedListed ==
  ASSUME NEW h, NEW g, Listed(h), DOMAIN g.slab = DOMAIN h.slab,
         NEW c \in DOMAIN h.caches, NEW m \in Lists, NEW s \in SlabsOf(h, c), Moved(h, g, c, s, m)
  PROVE  Listed(g) /\ \A d \in DOMAIN h.caches : SlabsOf(g, d) = SlabsOf(h, d)
<1>1. PICK l \in Lists : s \in In(h, c, l)
  BY SlabsAt
<1>2. s \in DOMAIN h.slab
  BY ListedSlab
<1>3. /\ \A d \in DOMAIN h.caches, k \in Lists : In(h, d, k) \subseteq DOMAIN h.slab
      /\ \A t \in DOMAIN h.slab : \E d \in DOMAIN h.caches, k \in Lists : t \in In(h, d, k)
      /\ \A d, e \in DOMAIN h.caches, k, n \in Lists :
           \A t \in In(h, d, k) : t \in In(h, e, n) => d = e /\ k = n
  BY DEF Listed
<1>4. \A d \in DOMAIN h.caches, k \in Lists : \A t :
        t \in In(g, d, k) <=> (t \in In(h, d, k) /\ t # s) \/ (t = s /\ d = c /\ k = m)
  BY DEF Moved
<1>5. DOMAIN g.caches = DOMAIN h.caches
  BY DEF Moved
<1>6. Listed(g)
  <2>1. \A d \in DOMAIN g.caches, k \in Lists : IsInjective(g.caches[d][k]) /\ In(g, d, k) \subseteq DOMAIN g.slab
    BY <1>2, <1>3, <1>4, <1>5 DEF Moved
  <2>2. \A t \in DOMAIN g.slab : \E d \in DOMAIN g.caches, k \in Lists : t \in In(g, d, k)
    BY <1>3, <1>4, <1>5
  <2>3. \A d, e \in DOMAIN g.caches, k, n \in Lists :
           \A t \in In(g, d, k) : t \in In(g, e, n) => d = e /\ k = n
    BY <1>3, <1>4, <1>5
  <2>4. QED
    BY <2>1, <2>2, <2>3 DEF Listed
<1>7. ASSUME NEW d \in DOMAIN h.caches PROVE SlabsOf(g, d) = SlabsOf(h, d)
  <2>1. ASSUME NEW t \in SlabsOf(g, d) PROVE t \in SlabsOf(h, d)
    <3>1. PICK k \in Lists : t \in In(g, d, k)
      BY <2>1, SlabsAt
    <3>2. t \in In(h, d, k) \/ (t = s /\ d = c)
      BY <1>4, <3>1
    <3>3. QED
      BY <3>2, SlabsAt
  <2>2. ASSUME NEW t \in SlabsOf(h, d) PROVE t \in SlabsOf(g, d)
    <3>1. PICK k \in Lists : t \in In(h, d, k)
      BY <2>2, SlabsAt
    <3>2. t # s => t \in In(g, d, k)
      BY <1>4, <3>1
    <3>3. t = s => d = c /\ t \in In(g, d, m)
      BY <1>1, <1>3, <1>4, <3>1
    <3>4. QED
      BY <3>2, <3>3, SlabsAt
  <2>3. QED
    BY <2>1, <2>2
<1>8. QED
  BY <1>6, <1>7

\* What a slab of cache c in list m may be.
Fits(c, m, s, r, X) ==
  /\ r \in OneSlab
  /\ m = "free" => r.bitmap = {} /\ s \notin X
  /\ m = "partial" => /\ r.bitmap \subseteq Chunks(c) /\ r.bitmap # Chunks(c)
                      /\ s \notin X => r.bitmap # {}
  /\ m = "full" => r.bitmap = Chunks(c) /\ s \notin X
  /\ IsFiniteSet(r.bitmap) /\ r.allocated_chunks = Cardinality(r.bitmap)
  /\ r.page = NULL <=> (r.bitmap = {} /\ s \notin X)

\* Slab s has become r; its page, if that changed, was free or is.
Becomes(h, g, s, r) ==
  /\ DOMAIN g.slab = DOMAIN h.slab
  /\ g.slab[s] = r /\ \A t \in DOMAIN h.slab : t # s => g.slab[t] = h.slab[t]
  /\ \/ r.page = h.slab[s].page /\ g.pages = h.pages
     \/ h.slab[s].page = NULL /\ r.page \in h.pages /\ g.pages = h.pages \ {r.page}
     \/ h.slab[s].page # NULL /\ r.page = NULL /\ g.pages = h.pages \cup {h.slab[s].page}

LEMMA SlabStep ==
  ASSUME NEW h, NEW g, NEW X, NEW Y, HeapInv(h, X), Shape(g),
         NEW c \in DOMAIN h.caches, NEW m \in Lists, NEW s \in SlabsOf(h, c), NEW r,
         Moved(h, g, c, s, m), Becomes(h, g, s, r), Fits(c, m, s, r, Y), X \ {s} = Y \ {s}
  PROVE  HeapInv(g, Y) /\ Managed(g) = Managed(h)
<1> USE DEF HeapInv
<1>1. Listed(g) /\ DOMAIN g.slab = DOMAIN h.slab /\ DOMAIN g.caches = DOMAIN h.caches /\ s \in DOMAIN h.slab
  BY MovedListed, ListedSlab DEF Becomes, Moved
<1>2. g.slab[s] = r /\ \A t \in DOMAIN h.slab : t # s => g.slab[t] = h.slab[t]
  BY DEF Becomes
<1>3. \A t : t # s => (t \in X <=> t \in Y)
  OBVIOUS
<1>4. \A d \in DOMAIN h.caches, k \in Lists : \A t :
        t \in In(g, d, k) <=> (t \in In(h, d, k) /\ t # s) \/ (t = s /\ d = c /\ k = m)
  BY DEF Moved
<1>5. \A d \in DOMAIN h.caches, k \in Lists : In(h, d, k) \subseteq DOMAIN h.slab
  BY DEF Listed
<1>6. Marks(g, Y)
  <2>1. "free" \in Lists /\ "partial" \in Lists /\ "full" \in Lists
    BY DEF Lists
  <2>2. SUFFICES ASSUME NEW d \in DOMAIN h.caches
                 PROVE  /\ \A t \in In(g, d, "free") : g.slab[t].bitmap = {} /\ t \notin Y
                        /\ \A t \in In(g, d, "partial") :
                             /\ g.slab[t].bitmap \subseteq Chunks(d) /\ g.slab[t].bitmap # Chunks(d)
                             /\ t \notin Y => g.slab[t].bitmap # {}
                        /\ \A t \in In(g, d, "full") : g.slab[t].bitmap = Chunks(d) /\ t \notin Y
    BY <1>1 DEF Marks
  <2>3. ASSUME NEW k \in Lists, NEW t \in In(g, d, k), t # s
        PROVE  t \in In(h, d, k) /\ g.slab[t] = h.slab[t] /\ (t \in X <=> t \in Y)
    BY <1>2, <1>3, <1>4, <1>5, <2>3
  <2>4. ASSUME NEW k \in Lists, NEW t \in In(g, d, k), t = s PROVE d = c /\ k = m /\ g.slab[t] = r
    BY <1>2, <1>4, <2>4
  <2>5. ASSUME NEW t \in In(g, d, "free") PROVE g.slab[t].bitmap = {} /\ t \notin Y
    BY <2>1, <2>3, <2>4, <2>5 DEF Marks, Fits
  <2>6. ASSUME NEW t \in In(g, d, "partial")
        PROVE  /\ g.slab[t].bitmap \subseteq Chunks(d) /\ g.slab[t].bitmap # Chunks(d)
               /\ t \notin Y => g.slab[t].bitmap # {}
    BY <2>1, <2>3, <2>4, <2>6 DEF Marks, Fits
  <2>7. ASSUME NEW t \in In(g, d, "full") PROVE g.slab[t].bitmap = Chunks(d) /\ t \notin Y
    BY <2>1, <2>3, <2>4, <2>7 DEF Marks, Fits
  <2>8. QED
    BY <2>5, <2>6, <2>7
<1>7. Counted(g)
  BY <1>1, <1>2 DEF Counted, Fits
<1>8. NULL \notin Nat /\ h.pages \subseteq Nat /\ \A t \in DOMAIN h.slab : t.page \in Nat
  BY ShapeFacts, PageNotNull
<1>9. PagesOnce(g, Y)
  <2>1. \A t \in DOMAIN g.slab : g.slab[t].page = NULL <=> (g.slab[t].bitmap = {} /\ t \notin Y)
    BY <1>1, <1>2, <1>3 DEF PagesOnce, Fits
  <2>2. CASE r.page = h.slab[s].page /\ g.pages = h.pages
    <3>1. \A t \in DOMAIN h.slab : g.slab[t].page = h.slab[t].page
      BY <1>2, <2>2
    <3>2. QED
      BY <1>1, <2>1, <2>2, <3>1 DEF PagesOnce
  <2>3. CASE h.slab[s].page = NULL /\ r.page \in h.pages /\ g.pages = h.pages \ {r.page}
    BY <1>1, <1>2, <1>8, <2>1, <2>3 DEF PagesOnce
  <2>4. CASE h.slab[s].page # NULL /\ r.page = NULL /\ g.pages = h.pages \cup {h.slab[s].page}
    <3> DEFINE q == h.slab[s].page
    <3>1. \A t \in DOMAIN h.slab : t # s => g.slab[t].page = h.slab[t].page
      BY <1>2
    <3>2. g.slab[s].page = NULL /\ q # NULL /\ DOMAIN g.slab = DOMAIN h.slab
      BY <1>1, <1>2, <2>4
    <3>3. \A t, v \in DOMAIN g.slab : t # v /\ g.slab[t].page # NULL => g.slab[t].page # g.slab[v].page
      BY <3>1, <3>2 DEF PagesOnce
    <3>4. \A t, v \in DOMAIN g.slab : g.slab[t].page # v.page
      BY <1>8, <3>1, <3>2 DEF PagesOnce
    <3>5. \A t \in DOMAIN h.slab : t # s => h.slab[t].page # q
      BY <1>1, <2>4 DEF PagesOnce
    <3>6. \A t \in DOMAIN h.slab : t.page # q
      BY <1>1 DEF PagesOnce
    <3>7. \A t \in DOMAIN h.slab : t.page \notin h.pages /\ h.slab[t].page \notin h.pages
      BY DEF PagesOnce
    <3> HIDE DEF q
    <3>8. g.pages = h.pages \cup {q} /\ NULL \notin h.pages
      BY <1>8, <2>4 DEF q
    <3>9. \A t \in DOMAIN g.slab : t.page \notin g.pages /\ g.slab[t].page \notin g.pages
      BY <3>1, <3>2, <3>5, <3>6, <3>7, <3>8
    <3>10. QED
      BY <2>1, <3>3, <3>4, <3>9 DEF PagesOnce
  <2>5. QED
    BY <2>2, <2>3, <2>4 DEF Becomes
<1>10. Managed(g) = Managed(h)
  <2>1. DescriptorsOf(g) = DescriptorsOf(h)
    BY <1>1 DEF DescriptorsOf
  <2>2. ASSUME NEW p PROVE p \in SlabPagesOf(g) <=>
          p # NULL /\ (p = r.page \/ \E t \in DOMAIN h.slab : t # s /\ p = h.slab[t].page)
    BY <1>1, <1>2 DEF SlabPagesOf
  <2>3. ASSUME NEW p PROVE p \in SlabPagesOf(h) <=>
          p # NULL /\ (p = h.slab[s].page \/ \E t \in DOMAIN h.slab : t # s /\ p = h.slab[t].page)
    BY <1>1 DEF SlabPagesOf
  <2>4. \A p : p \in g.pages \cup SlabPagesOf(g) <=> p \in h.pages \cup SlabPagesOf(h)
    BY <1>8, <2>2, <2>3 DEF Becomes
  <2>5. g.pages \cup SlabPagesOf(g) = h.pages \cup SlabPagesOf(h)
    BY <2>4
  <2>6. QED
    BY <2>1, <2>5 DEF Managed
<1>11. QED
  BY <1>1, <1>6, <1>7, <1>9, <1>10

\* The chunks of other slabs stay as they are, and are elsewhere.
LEMMA MarkedStep ==
  ASSUME NEW h, NEW g, NEW X, HeapInv(h, X),
         NEW c \in DOMAIN h.caches, NEW m \in Lists, NEW s \in SlabsOf(h, c), NEW r,
         Moved(h, g, c, s, m), Becomes(h, g, s, r)
  PROVE  /\ \A x : x \in Marked(g) <=> (x \in Marked(h) /\ x \notin ChunksOf(h, c, s)) \/ x \in ChunksOf(g, c, s)
         /\ ChunksOf(h, c, s) \subseteq Marked(h)
         /\ h.slab[s].page # NULL =>
              \A x : x \in Marked(h) /\ x[2].page = h.slab[s].page => x \in ChunksOf(h, c, s)
<1> USE DEF HeapInv
<1>1. /\ DOMAIN g.caches = DOMAIN h.caches /\ s \in DOMAIN h.slab
      /\ \A d \in DOMAIN h.caches : SlabsOf(g, d) = SlabsOf(h, d)
  BY MovedListed, ListedSlab DEF Becomes, Moved
<1>2. \A t \in DOMAIN h.slab : t # s => g.slab[t] = h.slab[t]
  BY DEF Becomes
<1>3. \A d \in DOMAIN h.caches : s \in SlabsOf(h, d) => d = c
  BY SlabsAt DEF Listed
<1>4. \A d \in DOMAIN h.caches : SlabsOf(h, d) \subseteq DOMAIN h.slab
  BY ListedSlab
<1>5. ASSUME NEW d \in DOMAIN h.caches, NEW t \in SlabsOf(h, d), t # s,
             NEW x \in ChunksOf(h, d, t)
      PROVE  x[2].page = h.slab[t].page /\ h.slab[t].page # h.slab[s].page
  <2>1. PICK b \in h.slab[t].bitmap : x = <<d, [page |-> h.slab[t].page, offset |-> b * chunk_size[d]]>>
    BY <1>5, ChunkAt
  <2>2. t \in DOMAIN h.slab /\ h.slab[t].page # NULL
    BY <1>4, <1>5, <2>1 DEF PagesOnce
  <2>3. h.slab[t].page # h.slab[s].page
    BY <1>1, <1>5, <2>2 DEF PagesOnce
  <2>4. QED
    BY <2>1, <2>3
<1>6. \A x \in ChunksOf(h, c, s) : x[2].page = h.slab[s].page
  BY ChunkAt
<1>7. \A d \in DOMAIN h.caches : \A t \in SlabsOf(h, d) : t # s => ChunksOf(g, d, t) = ChunksOf(h, d, t)
  BY <1>2, <1>4 DEF ChunksOf
<1>8. ASSUME NEW x PROVE x \in Marked(g) <=> (x \in Marked(h) /\ x \notin ChunksOf(h, c, s)) \/ x \in ChunksOf(g, c, s)
  <2>1. ASSUME x \in Marked(g), x \notin ChunksOf(g, c, s)
        PROVE  x \in Marked(h) /\ x \notin ChunksOf(h, c, s)
    <3>1. PICK d \in DOMAIN h.caches : \E t \in SlabsOf(h, d) : x \in ChunksOf(g, d, t)
      BY <1>1, <2>1, MarkedAt
    <3>2. PICK t \in SlabsOf(h, d) : x \in ChunksOf(g, d, t)
      BY <3>1
    <3>3. t # s
      BY <1>3, <2>1, <3>2
    <3>4. x \in ChunksOf(h, d, t)
      BY <1>7, <3>2, <3>3
    <3>5. x \in Marked(h)
      BY <3>4, MarkedAt
    <3>6. x \notin ChunksOf(h, c, s)
      BY <1>5, <1>6, <3>3, <3>4
    <3>7. QED
      BY <3>5, <3>6
  <2>2. ASSUME x \in Marked(h), x \notin ChunksOf(h, c, s) PROVE x \in Marked(g)
    <3>1. PICK d \in DOMAIN h.caches : \E t \in SlabsOf(h, d) : x \in ChunksOf(h, d, t)
      BY <2>2, MarkedAt
    <3>2. PICK t \in SlabsOf(h, d) : x \in ChunksOf(h, d, t)
      BY <3>1
    <3>3. t # s
      BY <1>3, <2>2, <3>2
    <3>4. x \in ChunksOf(g, d, t) /\ t \in SlabsOf(g, d) /\ d \in DOMAIN g.caches
      BY <1>1, <1>7, <3>2, <3>3
    <3>5. QED
      BY <3>4, MarkedAt
  <2>3. ASSUME x \in ChunksOf(g, c, s) PROVE x \in Marked(g)
    BY <1>1, <2>3, MarkedAt
  <2>4. QED
    BY <2>1, <2>2, <2>3
<1>9. ChunksOf(h, c, s) \subseteq Marked(h)
  BY MarkedAt
<1>10. ASSUME h.slab[s].page # NULL, NEW x \in Marked(h), x[2].page = h.slab[s].page
       PROVE  x \in ChunksOf(h, c, s)
  <2>1. PICK d \in DOMAIN h.caches : \E t \in SlabsOf(h, d) : x \in ChunksOf(h, d, t)
    BY <1>10, MarkedAt
  <2>2. PICK t \in SlabsOf(h, d) : x \in ChunksOf(h, d, t)
    BY <2>1
  <2>3. t = s
    BY <1>5, <1>10, <2>2
  <2>4. QED
    BY <1>3, <2>2, <2>3
<1>11. QED
  BY <1>8, <1>9, <1>10

-----------------------------------------------------------------------------
(* The operations of a cache, as such steps.                                 *)

LEMMA ChangedStep ==
  ASSUME NEW h, NEW X, HeapInv(h, X), NEW c \in DOMAIN h.caches, NEW s \in SlabsOf(h, c),
         NEW m \in Lists, NEW g, DOMAIN g = {"pages", "caches", "slab"}, g.pages \subseteq Ram,
         g.caches \in [DOMAIN h.caches -> OneCache], g.slab \in [DOMAIN h.slab -> OneSlab],
         \A d \in DOMAIN h.caches : d # c => g.caches[d] = h.caches[d],
         \A k \in Lists : /\ IsInjective(g.caches[c][k])
                          /\ In(g, c, k) = (In(h, c, k) \ {s}) \cup (IF k = m THEN {s} ELSE {})
  PROVE  Shape(g) /\ Moved(h, g, c, s, m) /\ DOMAIN g.slab = DOMAIN h.slab
<1>1. DOMAIN g.slab = DOMAIN h.slab /\ DOMAIN g.caches = DOMAIN h.caches
  OBVIOUS
<1>2. Shape(g)
  BY <1>1 DEF HeapInv, Shape
<1>3. ASSUME NEW d \in DOMAIN h.caches, NEW k \in Lists
      PROVE  /\ IsInjective(g.caches[d][k])
             /\ In(g, d, k) = (In(h, d, k) \ {s}) \cup (IF d = c /\ k = m THEN {s} ELSE {})
  <2>1. CASE d = c
    BY <2>1
  <2>2. CASE d # c
    <3>1. s \notin In(h, d, k)
      BY <2>2, SlabsAt DEF HeapInv, Listed
    <3>2. In(g, d, k) = In(h, d, k) /\ IsInjective(g.caches[d][k])
      BY <2>2 DEF In, HeapInv, Listed
    <3>3. QED
      BY <2>2, <3>1, <3>2
  <2>3. QED
    BY <2>1, <2>2
<1>4. QED
  BY <1>1, <1>2, <1>3 DEF Moved

\* What taking a page, and moving a slab between lists, leave of a heap.
LEMMA TakePageFields ==
  ASSUME NEW h, DOMAIN h = {"pages", "caches", "slab"}
  PROVE  LET g == TakePage(h)
         IN  /\ DOMAIN g = {"pages", "caches", "slab"} /\ g.pages = h.pages \ {Lowest(h.pages)}
             /\ g.caches = h.caches /\ g.slab = h.slab
BY DEF TakePage

LEMMA GivePageFields ==
  ASSUME NEW h, DOMAIN h = {"pages", "caches", "slab"}, NEW p
  PROVE  LET g == GivePage(h, p)
         IN  /\ DOMAIN g = {"pages", "caches", "slab"} /\ g.pages = h.pages \cup {p}
             /\ g.caches = h.caches /\ g.slab = h.slab
BY DEF GivePage

GotPage(h, g, s) ==
  /\ DOMAIN g = {"pages", "caches", "slab"} /\ g.pages = h.pages \ {Lowest(h.pages)}
  /\ g.caches = h.caches /\ g.slab \in [DOMAIN h.slab -> OneSlab]
  /\ \A t \in DOMAIN h.slab : t # s => g.slab[t] = h.slab[t]
  /\ g.slab[s].page = Lowest(h.pages) /\ g.slab[s].bitmap = h.slab[s].bitmap
  /\ g.slab[s].allocated_chunks = h.slab[s].allocated_chunks

LEMMA GetPageFields ==
  ASSUME NEW h, DOMAIN h = {"pages", "caches", "slab"},
         h.slab \in [DOMAIN h.slab -> OneSlab], NEW s \in DOMAIN h.slab,
         h.slab[s].page = NULL, h.pages # {}, Lowest(h.pages) \in Ram
  PROVE  GotPage(h, GetPage(h, s), s)
<1> DEFINE e == TakePage(h)
           p == Lowest(h.pages)
<1>1. /\ DOMAIN e = {"pages", "caches", "slab"} /\ e.pages = h.pages \ {p}
      /\ e.caches = h.caches /\ e.slab = h.slab
  BY TakePageFields
<1>2. GetPage(h, s) = [e EXCEPT !.slab[s].page = p]
  BY DEF GetPage
<1> DEFINE g == GetPage(h, s)
           O == [page : Ram \cup {NULL}, bitmap : SUBSET Nat, allocated_chunks : Nat]
<1>3. p \in Ram /\ h.slab \in [DOMAIN h.slab -> O] /\ g = [e EXCEPT !.slab[s].page = p]
  BY <1>2 DEF OneSlab
<1> HIDE DEF e, p, g
<1>4. DOMAIN g = {"pages", "caches", "slab"} /\ g.pages = h.pages \ {p} /\ g.caches = h.caches
  BY <1>1, <1>3
<1>5. g.slab = [h.slab EXCEPT ![s].page = p]
  BY <1>1, <1>3
<1>6. g.slab \in [DOMAIN h.slab -> O]
  <2> DEFINE x == [h.slab[s] EXCEPT !.page = p]
  <2>1. h.slab[s] \in O
    BY <1>3
  <2>2. x \in O
    BY <1>3, <2>1
  <2>3. g.slab = [h.slab EXCEPT ![s] = x]
    BY <1>5
  <2>4. h.slab \in [DOMAIN h.slab -> O]
    BY <1>3, Zenon
  <2> HIDE DEF x, O
  <2>5. [h.slab EXCEPT ![s] = x] \in [DOMAIN h.slab -> O]
    BY <2>2, <2>4, OnePlace, Zenon
  <2>6. QED
    BY <2>3, <2>5, Zenon
<1>7. /\ \A t \in DOMAIN h.slab : t # s => g.slab[t] = h.slab[t]
      /\ g.slab[s].page = p /\ g.slab[s].bitmap = h.slab[s].bitmap
      /\ g.slab[s].allocated_chunks = h.slab[s].allocated_chunks
  BY <1>3, <1>5
<1>8. QED
  BY <1>4, <1>6, <1>7 DEF GotPage, OneSlab, p, g

FreeToPartial(h, g, c, s) ==
  /\ DOMAIN g = {"pages", "caches", "slab"} /\ g.pages = h.pages /\ g.slab = h.slab
  /\ g.caches \in [DOMAIN h.caches -> OneCache]
  /\ \A d \in DOMAIN h.caches : d # c => g.caches[d] = h.caches[d]
  /\ g.caches[c].free = Tail(h.caches[c].free) /\ g.caches[c].partial = <<s>>
  /\ g.caches[c].full = h.caches[c].full

LEMMA MoveToPartialFields ==
  ASSUME NEW h, DOMAIN h = {"pages", "caches", "slab"},
         h.caches \in [DOMAIN h.caches -> OneCache], NEW c \in DOMAIN h.caches, NEW s \in Slab,
         h.slab[s].page # NULL, Tail(h.caches[c].free) \in Seq(Slab)
  PROVE  FreeToPartial(h, MoveToPartial(h, c, s), c, s)
<1> DEFINE z == Tail(h.caches[c].free)
           y == <<s>>
<1>1. z \in Seq(Slab) /\ y \in Seq(Slab)
  OBVIOUS
<1>2. MoveToPartial(h, c, s) = [h EXCEPT !.caches[c].free = z, !.caches[c].partial = y]
  BY DEF MoveToPartial
<1> DEFINE g == MoveToPartial(h, c, s)
           C == [free : Seq(Slab), partial : Seq(Slab), full : Seq(Slab)]
<1>3. g = [h EXCEPT !.caches[c].free = z, !.caches[c].partial = y] /\ h.caches \in [DOMAIN h.caches -> C]
  BY <1>2 DEF OneCache
<1> HIDE DEF z, y, g
<1>4. /\ DOMAIN g = {"pages", "caches", "slab"} /\ g.pages = h.pages /\ g.slab = h.slab
      /\ g.caches \in [DOMAIN h.caches -> C]
      /\ \A d \in DOMAIN h.caches : d # c => g.caches[d] = h.caches[d]
      /\ g.caches[c].free = z /\ g.caches[c].partial = y /\ g.caches[c].full = h.caches[c].full
  BY <1>1, <1>3
<1>5. QED
  BY <1>4 DEF FreeToPartial, OneCache, z, y, g

\* The lists of one cache.
LEMMA CacheFacts ==
  ASSUME NEW h, NEW X, HeapInv(h, X), NEW c \in DOMAIN h.caches
  PROVE  LET q == h.caches[c]
         IN  /\ q = [free |-> q.free, partial |-> q.partial, full |-> q.full]
             /\ q["free"] = q.free /\ q["partial"] = q.partial /\ q["full"] = q.full
             /\ In(h, c, "free") = Range(q.free) /\ In(h, c, "partial") = Range(q.partial)
             /\ In(h, c, "full") = Range(q.full)
             /\ q.free \in Seq(Slab) /\ q.partial \in Seq(Slab) /\ q.full \in Seq(Slab)
             /\ IsInjective(q.free) /\ IsInjective(q.partial) /\ IsInjective(q.full)
             /\ \A s \in Range(q.free) : s \notin Range(q.partial) /\ s \notin Range(q.full)
             /\ \A s \in Range(q.partial) : s \notin Range(q.full)
             /\ Range(q.free) \subseteq SlabsOf(h, c) /\ Range(q.partial) \subseteq SlabsOf(h, c)
             /\ Range(q.full) \subseteq SlabsOf(h, c)
<1> DEFINE q == h.caches[c]
<1>1. q \in OneCache /\ q.free \in Seq(Slab) /\ q.partial \in Seq(Slab) /\ q.full \in Seq(Slab)
  BY ShapeFacts DEF HeapInv
<1>2. q = [free |-> q.free, partial |-> q.partial, full |-> q.full]
  BY <1>1 DEF OneCache
<1>3. q["free"] = q.free /\ q["partial"] = q.partial /\ q["full"] = q.full
  OBVIOUS
<1>4. /\ In(h, c, "free") = Range(q.free) /\ In(h, c, "partial") = Range(q.partial)
      /\ In(h, c, "full") = Range(q.full)
  BY <1>3 DEF In
<1>5. "free" \in Lists /\ "partial" \in Lists /\ "full" \in Lists
  BY DEF Lists
<1>6. IsInjective(q.free) /\ IsInjective(q.partial) /\ IsInjective(q.full)
  BY <1>3, <1>5 DEF HeapInv, Listed
<1>7. /\ \A s \in In(h, c, "free") : s \notin In(h, c, "partial") /\ s \notin In(h, c, "full")
      /\ \A s \in In(h, c, "partial") : s \notin In(h, c, "full")
  BY <1>5 DEF HeapInv, Listed
<1>8. \A k \in Lists : In(h, c, k) \subseteq SlabsOf(h, c)
  BY DEF SlabsOf
<1>9. QED
  BY <1>1, <1>2, <1>3, <1>4, <1>5, <1>6, <1>7, <1>8

\* The head of the free list gets a page and becomes the only partly allocated slab, unless
\* there is no page.
LEMMA PluckFreeSpec ==
  ASSUME NEW h, HeapInv(h, {}), NEW c \in DOMAIN h.caches,
         h.caches[c].partial = <<>>, h.caches[c].free # <<>>
  PROVE  LET g == PluckFree(h, c)
             s == Head(h.caches[c].free)
         IN  \/ h.pages = {} /\ g = h
             \/ /\ HeapInv(g, {s}) /\ Managed(g) = Managed(h) /\ Marked(g) = Marked(h)
                /\ DOMAIN g.caches = DOMAIN h.caches /\ g.caches[c].partial = <<s>>
<1> DEFINE q == h.caches[c]
           s == Head(q.free)
           p == Lowest(h.pages)
           g == PluckFree(h, c)
<1>1. /\ q = [free |-> q.free, partial |-> q.partial, full |-> q.full]
      /\ In(h, c, "free") = Range(q.free) /\ In(h, c, "partial") = Range(q.partial)
      /\ In(h, c, "full") = Range(q.full)
      /\ q.free \in Seq(Slab) /\ q.partial \in Seq(Slab) /\ q.full \in Seq(Slab)
      /\ IsInjective(q.free) /\ IsInjective(q.full)
      /\ \A t \in Range(q.free) : t \notin Range(q.partial) /\ t \notin Range(q.full)
      /\ Range(q.free) \subseteq SlabsOf(h, c)
  BY CacheFacts
<1>2. /\ Tail(q.free) \in Seq(Slab) /\ Range(Tail(q.free)) = Range(q.free) \ {s}
      /\ IsInjective(Tail(q.free)) /\ s \in Range(q.free) /\ s \in Slab
  BY <1>1, TailOf
<1>3. <<s>> \in Seq(Slab) /\ Range(<<s>>) = {s} /\ IsInjective(<<s>>)
  BY <1>2, Single
<1>4. Range(q.partial) = {}
  BY EmptyRange
<1>5. s \in SlabsOf(h, c) /\ s \in DOMAIN h.slab
  BY <1>1, <1>2, ListedSlab DEF HeapInv
<1>6. /\ h.slab[s].bitmap = {} /\ h.slab[s].page = NULL /\ h.slab[s].allocated_chunks = 0
      /\ h.slab[s].allocated_chunks \in Nat /\ h.slab[s] \in OneSlab
  <2>1. h.slab[s].bitmap = {}
    BY <1>1, <1>2 DEF HeapInv, Marks
  <2>2. h.slab[s].page = NULL
    BY <1>5, <2>1 DEF HeapInv, PagesOnce
  <2>3. h.slab[s].allocated_chunks = 0
    BY <1>5, <2>1, FS_EmptySet DEF HeapInv, Counted
  <2>4. QED
    BY <1>5, <2>1, <2>2, <2>3, ShapeFacts DEF HeapInv
<1>7. CASE h.pages = {}
  BY <1>6, <1>7 DEF PluckFree, GetPage, MoveToPartial
<1>8. CASE h.pages # {}
  <2>1. h.pages \subseteq Ram /\ h.pages \subseteq Nat /\ p \in h.pages /\ p \in Ram /\ p # NULL
    <3>1. h.pages \subseteq Ram /\ h.pages \subseteq Nat
      BY ShapeFacts DEF HeapInv, Shape
    <3>2. p \in h.pages
      BY <1>8, <3>1, LowestOf
    <3>3. QED
      BY <3>1, <3>2, PageNotNull
  <2>2. /\ DOMAIN h = {"pages", "caches", "slab"}
        /\ h.caches \in [DOMAIN h.caches -> OneCache] /\ h.slab \in [DOMAIN h.slab -> OneSlab]
    BY DEF HeapInv, Shape
  <2> DEFINE f == GetPage(h, s)
             r == f.slab[s]
  <2>3. /\ DOMAIN f = {"pages", "caches", "slab"} /\ f.pages = h.pages \ {p} /\ f.caches = h.caches
        /\ f.slab \in [DOMAIN h.slab -> OneSlab]
        /\ \A t \in DOMAIN h.slab : t # s => f.slab[t] = h.slab[t]
        /\ r.page = p /\ r.bitmap = {} /\ r.allocated_chunks = 0 /\ r \in OneSlab
    <3> HIDE DEF s
    <3>1. h.slab[s].page = NULL /\ s \in DOMAIN h.slab /\ Lowest(h.pages) \in Ram
      BY <1>5, <1>6, <2>1
    <3>2. GotPage(h, f, s)
      BY <1>8, <2>2, <3>1, GetPageFields
    <3>3. r.page = p /\ r.bitmap = {} /\ r.allocated_chunks = 0
      BY <1>6, <3>2 DEF GotPage
    <3> HIDE DEF f
    <3>4. f.slab \in [DOMAIN h.slab -> OneSlab]
      BY <3>2 DEF GotPage
    <3>5. r \in OneSlab
      BY <3>1, <3>4
    <3>6. QED
      BY <3>2, <3>3, <3>4, <3>5 DEF GotPage
  <2>4. g = MoveToPartial(f, c, s)
    BY DEF PluckFree
  <2> HIDE DEF g, f, r
  <2>5. /\ DOMAIN g = {"pages", "caches", "slab"} /\ g.pages = f.pages /\ g.slab = f.slab
        /\ g.caches \in [DOMAIN h.caches -> OneCache]
        /\ \A d \in DOMAIN h.caches : d # c => g.caches[d] = h.caches[d]
        /\ g.caches[c].free = Tail(q.free) /\ g.caches[c].partial = <<s>> /\ g.caches[c].full = q.full
    <3>1. /\ DOMAIN f = {"pages", "caches", "slab"} /\ f.caches \in [DOMAIN f.caches -> OneCache]
          /\ c \in DOMAIN f.caches /\ s \in Slab /\ f.slab[s].page # NULL
          /\ Tail(f.caches[c].free) \in Seq(Slab)
      BY <1>2, <2>1, <2>2, <2>3 DEF r
    <3>2. FreeToPartial(f, g, c, s)
      <4> HIDE DEF s, p, q
      <4>1. FreeToPartial(f, MoveToPartial(f, c, s), c, s)
        BY <3>1, MoveToPartialFields
      <4>2. QED
        BY <2>4, <4>1
    <3>3. f.caches = h.caches
      BY <2>3
    <3>4. QED
      BY <3>2, <3>3 DEF FreeToPartial
  <2> HIDE DEF p, s, q
  <2>6. "partial" \in Lists /\ \A k \in Lists :
          /\ IsInjective(g.caches[c][k])
          /\ In(g, c, k) = (In(h, c, k) \ {s}) \cup (IF k = "partial" THEN {s} ELSE {})
    <3>1. /\ g.caches[c].free = Tail(q.free) /\ g.caches[c].partial = <<s>>
          /\ g.caches[c].full = q.full
      BY <2>5
    <3>2. IsInjective(g.caches[c].free) /\ IsInjective(g.caches[c].partial) /\ IsInjective(g.caches[c].full)
      BY <1>1, <1>2, <1>3, <3>1, Zenon
    <3>3. /\ In(g, c, "free") = In(h, c, "free") \ {s}
          /\ In(g, c, "partial") = {s} /\ In(h, c, "partial") = {}
          /\ In(g, c, "full") = In(h, c, "full") /\ s \notin In(h, c, "full")
      <4>1. /\ In(g, c, "free") = Range(q.free) \ {s} /\ In(g, c, "partial") = {s}
            /\ In(g, c, "full") = Range(q.full)
        BY <1>2, <1>3, <3>1, Zenon DEF In
      <4>2. s \notin Range(q.full)
        BY <1>1, <1>2, Zenon
      <4>3. QED
        BY <1>1, <1>4, <4>1, <4>2, Zenon
    <3>4. QED
      BY <3>2, <3>3 DEF Lists
  <2>7. Shape(g) /\ Moved(h, g, c, s, "partial") /\ DOMAIN g.slab = DOMAIN h.slab
    BY <1>5, <2>1, <2>3, <2>5, <2>6, ChangedStep
  <2>8. Becomes(h, g, s, r)
    BY <1>6, <2>1, <2>3, <2>5, <2>7 DEF Becomes, r
  <2>9. Fits(c, "partial", s, r, {s})
    <3>1. {} \subseteq Chunks(c) /\ {} # Chunks(c)
      BY ChunkFacts, ShapeFacts DEF HeapInv
    <3>2. QED
      BY <2>1, <2>3, <3>1, FS_EmptySet DEF Fits
  <2>10. HeapInv(g, {s}) /\ Managed(g) = Managed(h)
    BY <1>5, <2>6, <2>7, <2>8, <2>9, SlabStep
  <2>11. Marked(g) = Marked(h)
    <3>1. ChunksOf(g, c, s) = {} /\ ChunksOf(h, c, s) = {}
      BY <1>6, <2>3, <2>5 DEF ChunksOf, r
    <3>2. \A x : x \in Marked(g) <=> x \in Marked(h)
      BY <1>5, <2>6, <2>7, <2>8, <3>1, MarkedStep
    <3>3. QED
      BY <3>2
  <2>12. QED
    BY <2>5, <2>7, <2>10, <2>11 DEF g, s, q, Moved
<1>9. QED
  BY <1>7, <1>8

-----------------------------------------------------------------------------
(* A chunk is taken.                                                         *)

\* The search in a list.
LEMMA SlabWithRoomOf ==
  ASSUME NEW h, NEW X, HeapInv(h, X), NEW c \in DOMAIN h.caches, h.caches[c].partial # <<>>
  PROVE  SlabWithRoom(h, c) \in 1 .. Len(h.caches[c].partial)
<1> DEFINE q == h.caches[c].partial
           I == {i \in 1 .. Len(q) : h.slab[q[i]].bitmap # Chunks(c)}
<1>1. q \in Seq(Slab) /\ In(h, c, "partial") = Range(q)
  BY CacheFacts
<1>2. Len(q) \in Nat \ {0} /\ \A i \in 1 .. Len(q) : q[i] \in Range(q)
  BY <1>1, RangeOf, EmptySeq
<1>3. \A i \in 1 .. Len(q) : h.slab[q[i]].bitmap # Chunks(c)
  <2>1. \A s \in In(h, c, "partial") : h.slab[s].bitmap # Chunks(c)
    BY Zenon DEF HeapInv, Marks
  <2>2. QED
    BY <1>1, <1>2, <2>1, Zenon
<1>4. I \in SUBSET Nat /\ I \subseteq 1 .. Len(q) /\ I # {}
  <2>1. 1 \in 1 .. Len(q)
    BY <1>2
  <2>2. 1 \in I
    BY <1>3, <2>1, Zenon
  <2>3. I \subseteq 1 .. Len(q)
    BY Zenon
  <2>4. 1 .. Len(q) \subseteq Nat
    BY <1>2
  <2>5. QED
    BY <2>2, <2>3, <2>4, Zenon
<1>5. SlabWithRoom(h, c) = Lowest(I)
  BY <1>4, Zenon DEF SlabWithRoom, SelectInSeq, Min, Lowest
<1> HIDE DEF I
<1>6. Lowest(I) \in I
  BY <1>4, LowestOf, Zenon
<1>7. QED
  BY <1>4, <1>5, <1>6, Zenon

LEMMA SlabOfFacts ==
  ASSUME NEW h, NEW a, NEW q \in Seq(Slab)
  PROVE  /\ SlabOf(h, q, a) = 0 <=> \A s \in Range(q) : h.slab[s].page # a.page
         /\ SlabOf(h, q, a) # 0 => /\ SlabOf(h, q, a) \in 1 .. Len(q)
                                   /\ q[SlabOf(h, q, a)] \in Range(q)
                                   /\ h.slab[q[SlabOf(h, q, a)]].page = a.page
<1> DEFINE I == {i \in 1 .. Len(q) : h.slab[q[i]].page = a.page}
<1>1. Len(q) \in Nat /\ \A x : x \in Range(q) <=> \E i \in 1 .. Len(q) : q[i] = x
  BY RangeOf
<1>2. I \in SUBSET Nat
  BY <1>1
<1>3. SlabOf(h, q, a) = IF I # {} THEN Lowest(I) ELSE 0
  BY Zenon DEF SlabOf, SelectInSeq, Min, Lowest
<1>4. I # {} => Lowest(I) \in I
  BY <1>2, LowestOf
<1>5. CASE I = {}
  BY <1>1, <1>3, <1>5
<1>6. CASE I # {}
  <2>1. SlabOf(h, q, a) \in I
    BY <1>3, <1>4, <1>6
  <2>2. SlabOf(h, q, a) \in 1 .. Len(q) /\ SlabOf(h, q, a) # 0 /\ h.slab[q[SlabOf(h, q, a)]].page = a.page
    BY <1>1, <2>1
  <2>3. q[SlabOf(h, q, a)] \in Range(q)
    BY <1>1, <2>2
  <2>4. QED
    BY <2>2, <2>3
<1>7. QED
  BY <1>5, <1>6

\* One chunk more of a set of chunks.
LEMMA OneMore ==
  ASSUME NEW c \in Pools, NEW B \in SUBSET Chunks(c), IsFiniteSet(B), B # Chunks(c)
  PROVE  LET b == Lowest(Chunks(c) \ B)
         IN  /\ b \in Chunks(c) /\ b \notin B /\ b \in Nat
             /\ B \cup {b} \subseteq Chunks(c) /\ IsFiniteSet(B \cup {b})
             /\ Cardinality(B) \in Nat
             /\ Cardinality(B \cup {b}) = Cardinality(B) + 1
             /\ Cardinality(B) + 1 = CHUNKS_PER_SLAB(c) <=> B \cup {b} = Chunks(c)
<1> DEFINE b == Lowest(Chunks(c) \ B)
<1>1. /\ IsFiniteSet(Chunks(c)) /\ Cardinality(Chunks(c)) = CHUNKS_PER_SLAB(c)
      /\ Chunks(c) \subseteq Nat
  BY ChunkFacts
<1>2. b \in Chunks(c) \ B
  <2>1. Chunks(c) \ B # {} /\ Chunks(c) \ B \in SUBSET Nat
    BY <1>1
  <2>2. QED
    BY <2>1, LowestOf
<1> HIDE DEF b
<1>3. /\ B \cup {b} \subseteq Chunks(c) /\ IsFiniteSet(B \cup {b}) /\ Cardinality(B) \in Nat
      /\ Cardinality(B \cup {b}) = Cardinality(B) + 1
  BY <1>2, FS_AddElement, FS_CardinalityType
<1>4. Cardinality(B \cup {b}) = Cardinality(Chunks(c)) => B \cup {b} = Chunks(c)
  BY <1>1, <1>3, FS_Subset
<1>5. QED
  BY <1>1, <1>2, <1>3, <1>4 DEF b

ChunkMarked(h, g, c, i, s, b) ==
  LET full == h.slab[s].allocated_chunks + 1 = CHUNKS_PER_SLAB(c)
  IN  /\ DOMAIN g = {"pages", "caches", "slab"} /\ g.pages = h.pages
      /\ g.slab \in [DOMAIN h.slab -> OneSlab]
      /\ \A t \in DOMAIN h.slab : t # s => g.slab[t] = h.slab[t]
      /\ g.slab[s].page = h.slab[s].page /\ g.slab[s].bitmap = h.slab[s].bitmap \cup {b}
      /\ g.slab[s].allocated_chunks = h.slab[s].allocated_chunks + 1
      /\ g.caches \in [DOMAIN h.caches -> OneCache]
      /\ \A d \in DOMAIN h.caches : d # c => g.caches[d] = h.caches[d]
      /\ ~full => g.caches = h.caches
      /\ full => /\ g.caches[c].free = h.caches[c].free
                 /\ g.caches[c].partial = RemoveAt(h.caches[c].partial, i)
                 /\ g.caches[c].full = <<s>> \o h.caches[c].full

LEMMA MarkChunkFields ==
  ASSUME NEW h, DOMAIN h = {"pages", "caches", "slab"},
         h.caches \in [DOMAIN h.caches -> OneCache], h.slab \in [DOMAIN h.slab -> OneSlab],
         NEW c \in DOMAIN h.caches, NEW i, NEW s \in DOMAIN h.slab, NEW b \in Nat,
         RemoveAt(h.caches[c].partial, i) \in Seq(Slab), s \in Slab
  PROVE  ChunkMarked(h, MarkChunk(h, c, i, s, b), c, i, s, b)
<1> DEFINE e == [h EXCEPT !.slab[s].bitmap = @ \cup {b}, !.slab[s].allocated_chunks = @ + 1]
           g == MarkChunk(h, c, i, s, b)
           B == h.slab[s].bitmap \cup {b}
           n == h.slab[s].allocated_chunks + 1
           z == RemoveAt(h.caches[c].partial, i)
           y == <<s>> \o h.caches[c].full
           C == [free : Seq(Slab), partial : Seq(Slab), full : Seq(Slab)]
<1>1. /\ h.slab[s] \in OneSlab /\ h.slab[s].bitmap \in SUBSET Nat
      /\ h.slab[s].allocated_chunks \in Nat
  BY DEF OneSlab
<1>2. B \in SUBSET Nat /\ n \in Nat
  BY <1>1
<1>3. e = [h EXCEPT !.slab[s].bitmap = B, !.slab[s].allocated_chunks = n]
  OBVIOUS
<1> HIDE DEF B, n, e, z, y, g
<1>4. /\ DOMAIN e = {"pages", "caches", "slab"} /\ e.pages = h.pages /\ e.caches = h.caches
      /\ e.slab \in [DOMAIN h.slab -> OneSlab]
      /\ \A t \in DOMAIN h.slab : t # s => e.slab[t] = h.slab[t]
      /\ e.slab[s].page = h.slab[s].page /\ e.slab[s].bitmap = B /\ e.slab[s].allocated_chunks = n
  BY <1>1, <1>2, <1>3 DEF OneSlab
<1>5. g = MoveIfFull(e, c, i, s)
  BY DEF g, MarkChunk, e
<1>6. CASE n # CHUNKS_PER_SLAB(c)
  <2>1. g = e
    BY <1>4, <1>5, <1>6 DEF MoveIfFull
  <2>2. QED
    BY <1>4, <1>6, <2>1 DEF ChunkMarked, B, n, g
<1>7. CASE n = CHUNKS_PER_SLAB(c)
  <2>1. g = [e EXCEPT !.caches[c].partial = z, !.caches[c].full = y] /\ e.caches \in [DOMAIN h.caches -> C]
    BY <1>4, <1>5, <1>7 DEF MoveIfFull, OneCache, z, y
  <2>2. z \in Seq(Slab) /\ y \in Seq(Slab)
    <3>1. h.caches[c].full \in Seq(Slab)
      BY DEF OneCache
    <3>2. QED
      BY <3>1, PushFront DEF z, y
  <2>3. /\ DOMAIN g = {"pages", "caches", "slab"} /\ g.pages = e.pages /\ g.slab = e.slab
        /\ g.caches \in [DOMAIN h.caches -> C]
        /\ \A d \in DOMAIN h.caches : d # c => g.caches[d] = e.caches[d]
        /\ g.caches[c].free = e.caches[c].free /\ g.caches[c].partial = z /\ g.caches[c].full = y
    <3>1. DOMAIN e = {"pages", "caches", "slab"} /\ DOMAIN e.caches = DOMAIN h.caches
      BY <1>4
    <3>2. DOMAIN g = {"pages", "caches", "slab"} /\ g.pages = e.pages /\ g.slab = e.slab
      BY <2>1, <3>1
    <3>3. /\ DOMAIN g.caches = DOMAIN h.caches
          /\ \A d \in DOMAIN h.caches : d # c => g.caches[d] = e.caches[d]
      BY <2>1, <3>1
    <3>4. e.caches[c] \in C
      BY <2>1
    <3>5. /\ g.caches[c].free = e.caches[c].free /\ g.caches[c].partial = z /\ g.caches[c].full = y
          /\ g.caches[c] \in C
      BY <2>1, <2>2, <3>1, <3>4
    <3>6. \A d \in DOMAIN h.caches : g.caches[d] \in C
      BY <2>1, <3>3, <3>5
    <3>7. g.caches \in [DOMAIN h.caches -> C]
      <4>1. g.caches = [d \in DOMAIN h.caches |-> g.caches[d]]
        BY <2>1, <3>1
      <4> HIDE DEF C
      <4>2. QED
        BY <3>6, <4>1
    <3>8. QED
      BY <3>2, <3>3, <3>5, <3>7
  <2>4. QED
    BY <1>4, <1>7, <2>3 DEF OneCache, ChunkMarked, z, y, g, B, n
<1>8. QED
  BY <1>6, <1>7

\* The chunk was nobody's, and is marked.
TakesChunk(h, w, c) ==
  /\ HeapInv(w.heap, {}) /\ Managed(w.heap) = Managed(h)
  /\ DOMAIN w.heap.caches = DOMAIN h.caches
  /\ w.mem \in Address /\ w.mem # NULL
  /\ \A x \in Marked(h) : x[2] # w.mem
  /\ Marked(w.heap) = Marked(h) \cup {<<c, w.mem>>}

LEMMA WithChunkSpec ==
  ASSUME NEW h, NEW X, HeapInv(h, X), NEW c \in DOMAIN h.caches, h.caches[c].partial # <<>>,
         X = {} \/ \E s \in Slab : X = {s} /\ h.caches[c].partial = <<s>>
  PROVE  TakesChunk(h, WithChunk(h, c), c)
<1> DEFINE q == h.caches[c]
           i == SlabWithRoom(h, c)
           s == q.partial[i]
           B == h.slab[s].bitmap
           b == FreeChunk(h, c, s)
           g == MarkChunk(h, c, i, s, b)
           r == g.slab[s]
           mem == ChunkAddress(h, c, s, b)
           m == IF h.slab[s].allocated_chunks + 1 = CHUNKS_PER_SLAB(c) THEN "full" ELSE "partial"
<1>1. WithChunk(h, c) = [heap |-> g, mem |-> mem]
  BY DEF WithChunk
<1>2. /\ In(h, c, "free") = Range(q.free) /\ In(h, c, "partial") = Range(q.partial)
      /\ In(h, c, "full") = Range(q.full)
      /\ q.free \in Seq(Slab) /\ q.partial \in Seq(Slab) /\ q.full \in Seq(Slab)
      /\ IsInjective(q.free) /\ IsInjective(q.partial) /\ IsInjective(q.full)
      /\ \A t \in Range(q.free) : t \notin Range(q.partial) /\ t \notin Range(q.full)
      /\ \A t \in Range(q.partial) : t \notin Range(q.full)
      /\ Range(q.partial) \subseteq SlabsOf(h, c)
  BY CacheFacts
<1>3. i \in 1 .. Len(q.partial)
  BY SlabWithRoomOf
<1>4. s \in Range(q.partial) /\ s \in Slab
  <2> HIDE DEF q, i
  <2>1. /\ Range(q.partial) \subseteq Slab
        /\ \A x : x \in Range(q.partial) <=> \E j \in 1 .. Len(q.partial) : q.partial[j] = x
    BY <1>2, RangeOf
  <2>2. QED
    BY <1>3, <2>1, Zenon
<1>5. /\ RemoveAt(q.partial, i) \in Seq(Slab) /\ Range(RemoveAt(q.partial, i)) = Range(q.partial) \ {s}
      /\ IsInjective(RemoveAt(q.partial, i))
  BY <1>2, <1>3, RemoveAtOf
<1>6. /\ <<s>> \o q.full \in Seq(Slab) /\ Range(<<s>> \o q.full) = {s} \cup Range(q.full)
      /\ IsInjective(<<s>> \o q.full)
  BY <1>2, <1>4, PushFront
<1>7. s \in SlabsOf(h, c) /\ s \in DOMAIN h.slab /\ c \in Pools
  BY <1>2, <1>4, ListedSlab, ShapeFacts DEF HeapInv
<1>8. X \ {s} = {}
  <2>1. ASSUME NEW t \in Slab, X = {t}, q.partial = <<t>> PROVE t = s
    BY <1>4, <2>1, Single
  <2>2. QED
    BY <2>1
<1>9. /\ DOMAIN h = {"pages", "caches", "slab"} /\ h.pages \subseteq Ram
      /\ h.caches \in [DOMAIN h.caches -> OneCache] /\ h.slab \in [DOMAIN h.slab -> OneSlab]
  BY DEF HeapInv, Shape
<1>10. /\ B \subseteq Chunks(c) /\ B # Chunks(c) /\ IsFiniteSet(B)
       /\ h.slab[s].allocated_chunks = Cardinality(B)
  BY <1>2, <1>4, <1>7 DEF HeapInv, Marks, Counted
<1>11. h.slab[s].page # NULL /\ h.slab[s].page \in Ram
  <2>1. s \in X \/ B # {}
    <3>1. \A t \in In(h, c, "partial") : t \notin X => h.slab[t].bitmap # {}
      BY Zenon DEF HeapInv, Marks
    <3>2. QED
      BY <1>2, <1>4, <3>1, Zenon
  <2>2. h.slab[s].page # NULL
    BY <1>7, <2>1 DEF HeapInv, PagesOnce
  <2>3. QED
    BY <1>7, <2>2, ShapeFacts DEF HeapInv
<1>12. /\ b \in Chunks(c) /\ b \notin B /\ b \in Nat
       /\ B \cup {b} \subseteq Chunks(c) /\ IsFiniteSet(B \cup {b})
       /\ Cardinality(B \cup {b}) = Cardinality(B) + 1
       /\ Cardinality(B) + 1 = CHUNKS_PER_SLAB(c) <=> B \cup {b} = Chunks(c)
  <2>1. b = Lowest(Chunks(c) \ B)
    BY DEF FreeChunk
  <2> HIDE DEF b, B, s
  <2>2. QED
    BY <1>7, <1>10, <2>1, OneMore
<1> HIDE DEF s, i, b, B
<1>13. /\ DOMAIN g = {"pages", "caches", "slab"} /\ g.pages = h.pages
       /\ g.slab \in [DOMAIN h.slab -> OneSlab]
       /\ \A t \in DOMAIN h.slab : t # s => g.slab[t] = h.slab[t]
       /\ r.page = h.slab[s].page /\ r.bitmap = B \cup {b}
       /\ r.allocated_chunks = h.slab[s].allocated_chunks + 1
       /\ g.caches \in [DOMAIN h.caches -> OneCache]
       /\ \A d \in DOMAIN h.caches : d # c => g.caches[d] = h.caches[d]
       /\ m = "partial" => g.caches = h.caches
       /\ m = "full" => /\ g.caches[c].free = q.free
                        /\ g.caches[c].partial = RemoveAt(q.partial, i)
                        /\ g.caches[c].full = <<s>> \o q.full
  <2>1. /\ RemoveAt(h.caches[c].partial, i) \in Seq(Slab) /\ s \in Slab
        /\ s \in DOMAIN h.slab /\ b \in Nat
    BY <1>4, <1>5, <1>7, <1>12
  <2>2. ChunkMarked(h, g, c, i, s, b)
    BY <1>9, <2>1, MarkChunkFields
  <2> HIDE DEF g
  <2>3. QED
    BY <2>2 DEF ChunkMarked, B
<1>14. m \in Lists /\ (m = "partial" \/ m = "full") /\ (m = "full" <=> B \cup {b} = Chunks(c))
  BY <1>10, <1>12 DEF Lists
<1> HIDE DEF g, r, mem, m, q
<1>15. \A k \in Lists : /\ IsInjective(g.caches[c][k])
                        /\ In(g, c, k) = (In(h, c, k) \ {s}) \cup (IF k = m THEN {s} ELSE {})
  <2>1. CASE m = "partial"
    BY <1>2, <1>4, <1>13, <2>1 DEF Lists, In, q
  <2>2. CASE m = "full"
    <3>1. /\ g.caches[c].free = q.free /\ g.caches[c].partial = RemoveAt(q.partial, i)
          /\ g.caches[c].full = <<s>> \o q.full
      BY <1>13, <2>2
    <3>2. IsInjective(g.caches[c].free) /\ IsInjective(g.caches[c].partial) /\ IsInjective(g.caches[c].full)
      BY <1>2, <1>5, <1>6, <3>1, Zenon
    <3>3. /\ In(g, c, "free") = In(h, c, "free") /\ s \notin In(h, c, "free")
          /\ In(g, c, "partial") = In(h, c, "partial") \ {s}
          /\ In(g, c, "full") = In(h, c, "full") \cup {s} /\ s \notin In(h, c, "full")
      <4>1. /\ In(g, c, "free") = Range(q.free) /\ In(g, c, "partial") = Range(q.partial) \ {s}
            /\ In(g, c, "full") = {s} \cup Range(q.full)
        BY <1>5, <1>6, <3>1, Zenon DEF In
      <4>2. s \notin Range(q.free) /\ s \notin Range(q.full)
        BY <1>2, <1>4, Zenon
      <4>3. QED
        BY <1>2, <4>1, <4>2
    <3>4. QED
      BY <2>2, <3>2, <3>3 DEF Lists
  <2>3. QED
    BY <1>14, <2>1, <2>2
<1>16. Shape(g) /\ Moved(h, g, c, s, m) /\ DOMAIN g.slab = DOMAIN h.slab
  BY <1>7, <1>9, <1>13, <1>14, <1>15, ChangedStep
<1>17. Becomes(h, g, s, r)
  BY <1>13, <1>16 DEF Becomes, r
<1>18. Fits(c, m, s, r, {})
  <2>1. r \in OneSlab
    BY <1>7, <1>13 DEF r
  <2>2. B \cup {b} # {}
    OBVIOUS
  <2>3. QED
    BY <1>10, <1>11, <1>12, <1>13, <1>14, <2>1, <2>2 DEF Fits
<1>19. HeapInv(g, {}) /\ Managed(g) = Managed(h)
  <2>1. X \ {s} = {} \ {s}
    BY <1>8
  <2>2. QED
    BY <1>7, <1>14, <1>16, <1>17, <1>18, <2>1, SlabStep
<1>20. /\ mem = [page |-> h.slab[s].page, offset |-> b * chunk_size[c]]
       /\ mem \in Address /\ mem # NULL /\ b * chunk_size[c] \in Nat
  <2>1. chunk_size[c] \in Nat \ {0}
    BY <1>7, ChunkFacts
  <2>2. b * chunk_size[c] \in Nat
    BY <1>12, <2>1, ChunkApart
  <2>3. mem = [page |-> h.slab[s].page, offset |-> b * chunk_size[c]]
    BY DEF mem, ChunkAddress
  <2>4. mem \in Address
    BY <1>11, <2>2, <2>3 DEF Address
  <2>5. mem \in [page : Nat, offset : Nat]
    BY <2>4, PageNotNull DEF Address
  <2>6. QED
    BY <2>2, <2>3, <2>4, <2>5, MemCacheAssumption
<1>21. \A x : x \in ChunksOf(g, c, s) <=> x \in ChunksOf(h, c, s) \/ x = <<c, mem>>
  <2> DEFINE C(k) == <<c, [page |-> h.slab[s].page, offset |-> k * chunk_size[c]]>>
  <2>1. ChunksOf(g, c, s) = {C(k) : k \in B \cup {b}}
    <3>1. g.slab[s].bitmap = B \cup {b} /\ g.slab[s].page = h.slab[s].page
      BY <1>13, Zenon DEF r
    <3>2. QED
      BY <3>1, Zenon DEF ChunksOf
  <2>2. ChunksOf(h, c, s) = {C(k) : k \in B}
    BY Zenon DEF ChunksOf, B
  <2>3. C(b) = <<c, mem>>
    BY <1>20, Zenon
  <2> HIDE DEF C, B
  <2>4. QED
    BY <2>1, <2>2, <2>3
<1>22. /\ \A x : x \in Marked(g) <=> (x \in Marked(h) /\ x \notin ChunksOf(h, c, s)) \/ x \in ChunksOf(g, c, s)
       /\ ChunksOf(h, c, s) \subseteq Marked(h)
       /\ \A x : x \in Marked(h) /\ x[2].page = h.slab[s].page => x \in ChunksOf(h, c, s)
  BY <1>7, <1>11, <1>14, <1>16, <1>17, MarkedStep
<1>23. Marked(g) = Marked(h) \cup {<<c, mem>>}
  BY <1>21, <1>22
<1>24. ASSUME NEW x \in Marked(h), x[2] = mem PROVE FALSE
  <2>1. x \in ChunksOf(h, c, s)
    BY <1>20, <1>22, <1>24
  <2>2. PICK a \in B : x = <<c, [page |-> h.slab[s].page, offset |-> a * chunk_size[c]]>>
    BY <2>1, ChunkAt DEF B
  <2>3. a * chunk_size[c] = b * chunk_size[c]
    BY <1>20, <1>24, <2>2
  <2>4. a \in Nat /\ chunk_size[c] \in Nat \ {0}
    BY <1>7, <1>10, ChunkFacts
  <2>5. (a * chunk_size[c]) \div chunk_size[c] = a /\ (b * chunk_size[c]) \div chunk_size[c] = b
    BY <1>12, <2>4, ChunkApart
  <2>6. QED
    BY <1>12, <2>3, <2>5
<1>25. DOMAIN g.caches = DOMAIN h.caches
  BY <1>13
<1>26. QED
  BY <1>1, <1>19, <1>20, <1>23, <1>24, <1>25 DEF g, mem, TakesChunk

-----------------------------------------------------------------------------
(* More descriptors, and caches.                                             *)

LEMMA NewSlabsOf ==
  ASSUME NEW p \in Nat
  PROVE  LET n == NewSlabs(p)
         IN  /\ n \in Seq(Slab) /\ n # <<>> /\ IsInjective(n)
             /\ \A t \in Range(n) : t \in Slab /\ t.page = p
             /\ \E t \in Range(n) : TRUE
<1> DEFINE n == NewSlabs(p)
<1>1. SLABS_PER_PAGE \in Nat \ {0}
  BY MemCacheAssumption
<1>2. \A i \in 1 .. SLABS_PER_PAGE : [page |-> p, nr |-> i] \in Slab
  BY DEF Slab
<1>3. n = [i \in 1 .. SLABS_PER_PAGE |-> [page |-> p, nr |-> i]]
  BY DEF NewSlabs
<1> HIDE DEF n
<1>4. n \in [1 .. SLABS_PER_PAGE -> Slab]
  BY <1>2, <1>3
<1>5. n \in Seq(Slab)
  BY <1>1, <1>4, SeqDef
<1>6. Len(n) = SLABS_PER_PAGE
  BY <1>1, <1>4, <1>5, LenProperties
<1>7. \A i \in 1 .. SLABS_PER_PAGE : n[i].page = p /\ n[i].nr = i /\ n[i] \in Slab
  BY <1>2, <1>3
<1>8. \A x : x \in Range(n) <=> \E i \in 1 .. SLABS_PER_PAGE : n[i] = x
  BY <1>5, <1>6, RangeOf
<1>9. IsInjective(n)
  <2>1. \A i, j \in 1 .. SLABS_PER_PAGE : n[i] = n[j] => i = j
    BY <1>7
  <2>2. QED
    BY <1>5, <1>6, <2>1, RangeOf
<1>10. 1 \in 1 .. SLABS_PER_PAGE /\ n # <<>>
  BY <1>1, <1>5, <1>6, EmptySeq
<1>11. QED
  BY <1>5, <1>7, <1>8, <1>9, <1>10 DEF n

NoChunk == [page |-> NULL, bitmap |-> {}, allocated_chunks |-> 0]

MoreSlabs(h, g, c) ==
  LET p == Lowest(h.pages)
      n == NewSlabs(p)
  IN  /\ DOMAIN g = {"pages", "caches", "slab"} /\ g.pages = h.pages \ {p}
      /\ DOMAIN g.slab = Range(n) \cup DOMAIN h.slab
      /\ \A t \in Range(n) : g.slab[t] = NoChunk
      /\ \A t \in DOMAIN h.slab : t \notin Range(n) => g.slab[t] = h.slab[t]
      /\ g.slab \in [DOMAIN g.slab -> OneSlab]
      /\ g.caches \in [DOMAIN h.caches -> OneCache]
      /\ \A d \in DOMAIN h.caches : d # c => g.caches[d] = h.caches[d]
      /\ g.caches[c].free = n /\ g.caches[c].partial = h.caches[c].partial
      /\ g.caches[c].full = h.caches[c].full

LEMMA MoreSlabsFields ==
  ASSUME NEW h, Shape(h), NEW c \in DOMAIN h.caches, h.pages # {}, Lowest(h.pages) \in Nat
  PROVE  MoreSlabs(h, _more_slabs(h, c), c)
<1> DEFINE p == Lowest(h.pages)
           n == NewSlabs(p)
           e == TakePage(h)
           S == [t \in Range(n) \cup DOMAIN h.slab |-> IF t \in Range(n) THEN NoChunk ELSE h.slab[t]]
           g == _more_slabs(h, c)
<1>1. n \in Seq(Slab)
  BY NewSlabsOf
<1>2. /\ DOMAIN h = {"pages", "caches", "slab"}
      /\ h.caches \in [DOMAIN h.caches -> OneCache] /\ h.slab \in [DOMAIN h.slab -> OneSlab]
  BY DEF Shape
<1>3. /\ DOMAIN e = {"pages", "caches", "slab"} /\ e.pages = h.pages \ {p}
      /\ e.caches = h.caches /\ e.slab = h.slab
  BY <1>2, TakePageFields
<1>4. g = [e EXCEPT !.caches[c].free = n,
                    !.slab = [t \in Range(n) \cup DOMAIN @ |-> IF t \in Range(n) THEN NoChunk ELSE @[t]]]
  BY DEF _more_slabs, NoChunk
<1> HIDE DEF e, g
<1>5. g = [e EXCEPT !.caches[c].free = n, !.slab = S]
  BY <1>3, <1>4
<1>6. S \in [DOMAIN S -> OneSlab] /\ DOMAIN S = Range(n) \cup DOMAIN h.slab
  <2>1. NoChunk \in OneSlab
    BY DEF NoChunk, OneSlab
  <2>2. QED
    BY <1>2, <2>1
<1>7. /\ \A t \in Range(n) : S[t] = NoChunk
      /\ \A t \in DOMAIN h.slab : t \notin Range(n) => S[t] = h.slab[t]
  OBVIOUS
<1> HIDE DEF S, n, p
<1>8. /\ DOMAIN g = {"pages", "caches", "slab"} /\ g.pages = e.pages /\ g.slab = S
      /\ g.caches \in [DOMAIN h.caches -> OneCache]
      /\ \A d \in DOMAIN h.caches : d # c => g.caches[d] = h.caches[d]
      /\ g.caches[c].free = n /\ g.caches[c].partial = h.caches[c].partial
      /\ g.caches[c].full = h.caches[c].full
  <2> DEFINE C == [free : Seq(Slab), partial : Seq(Slab), full : Seq(Slab)]
  <2>1. h.caches \in [DOMAIN h.caches -> C]
    BY <1>2 DEF OneCache
  <2>2. DOMAIN g = {"pages", "caches", "slab"} /\ g.pages = e.pages /\ g.slab = S
    BY <1>3, <1>5
  <2>3. g.caches = [h.caches EXCEPT ![c].free = n]
    BY <1>3, <1>5
  <2>4. /\ g.caches \in [DOMAIN h.caches -> C]
        /\ \A d \in DOMAIN h.caches : d # c => g.caches[d] = h.caches[d]
        /\ g.caches[c].free = n /\ g.caches[c].partial = h.caches[c].partial
        /\ g.caches[c].full = h.caches[c].full
    <3> DEFINE x == [h.caches[c] EXCEPT !.free = n]
    <3>1. h.caches[c] \in C
      BY <2>1
    <3>2. x \in C /\ x.free = n /\ x.partial = h.caches[c].partial /\ x.full = h.caches[c].full
      BY <1>1, <3>1
    <3>3. g.caches = [h.caches EXCEPT ![c] = x]
      BY <2>3
    <3> HIDE DEF x, C
    <3>4. g.caches \in [DOMAIN h.caches -> C]
      BY <2>1, <3>2, <3>3, OnePlace
    <3>5. g.caches[c] = x /\ \A d \in DOMAIN h.caches : d # c => g.caches[d] = h.caches[d]
      BY <3>3
    <3>6. QED
      BY <3>2, <3>4, <3>5
  <2>5. QED
    BY <2>2, <2>4 DEF OneCache
<1>9. QED
  BY <1>3, <1>6, <1>7, <1>8 DEF MoreSlabs, g, n, p

LEMMA MoreSlabsSpec ==
  ASSUME NEW h, HeapInv(h, {}), NEW c \in DOMAIN h.caches,
         h.caches[c].free = <<>>, h.pages # {}
  PROVE  LET g == _more_slabs(h, c)
         IN  /\ HeapInv(g, {}) /\ Managed(g) = Managed(h) /\ Marked(g) = Marked(h)
             /\ DOMAIN g.caches = DOMAIN h.caches
             /\ g.caches[c].partial = h.caches[c].partial /\ g.caches[c].free # <<>>
<1> DEFINE g == _more_slabs(h, c)
           p == Lowest(h.pages)
           n == NewSlabs(p)
<1>1. h.pages \subseteq Nat /\ h.pages \subseteq Ram /\ p \in h.pages /\ p \in Nat /\ p # NULL
  <2>1. h.pages \subseteq Nat /\ h.pages \subseteq Ram
    BY ShapeFacts DEF HeapInv, Shape
  <2>2. QED
    BY <2>1, LowestOf, PageNotNull
<1>2. /\ n \in Seq(Slab) /\ n # <<>> /\ IsInjective(n)
      /\ \A t \in Range(n) : t \in Slab /\ t.page = p
      /\ \E t \in Range(n) : TRUE
  BY <1>1, NewSlabsOf
<1>3. MoreSlabs(h, g, c)
  BY <1>1, MoreSlabsFields DEF HeapInv
<1> HIDE DEF g, n, p
<1>4. /\ DOMAIN g = {"pages", "caches", "slab"} /\ g.pages = h.pages \ {p}
      /\ DOMAIN g.slab = Range(n) \cup DOMAIN h.slab
      /\ \A t \in Range(n) : g.slab[t] = NoChunk
      /\ \A t \in DOMAIN h.slab : t \notin Range(n) => g.slab[t] = h.slab[t]
      /\ g.slab \in [DOMAIN g.slab -> OneSlab]
      /\ g.caches \in [DOMAIN h.caches -> OneCache]
      /\ \A d \in DOMAIN h.caches : d # c => g.caches[d] = h.caches[d]
      /\ g.caches[c].free = n /\ g.caches[c].partial = h.caches[c].partial
      /\ g.caches[c].full = h.caches[c].full
  BY <1>3 DEF MoreSlabs, n, p
<1>5. /\ \A t \in DOMAIN h.slab : t.page \in Nat /\ t.page \notin h.pages /\ h.slab[t].page \notin h.pages
      /\ \A t \in DOMAIN h.slab : t \notin Range(n) /\ g.slab[t] = h.slab[t]
      /\ DOMAIN h.slab \subseteq Slab
  <2>1. DOMAIN h.slab \subseteq Slab /\ \A t \in DOMAIN h.slab : t.page \in Nat
    BY ShapeFacts DEF HeapInv, Shape
  <2>2. \A t \in DOMAIN h.slab : t.page \notin h.pages /\ h.slab[t].page \notin h.pages
    BY Zenon DEF HeapInv, PagesOnce
  <2>3. \A t \in DOMAIN h.slab : t \notin Range(n)
    BY <1>1, <1>2, <2>2, Zenon
  <2>4. \A t \in DOMAIN h.slab : g.slab[t] = h.slab[t]
    BY <1>4, <2>3, Zenon
  <2>5. QED
    BY <2>1, <2>2, <2>3, <2>4, Zenon
<1>6. DOMAIN g.caches = DOMAIN h.caches
  BY <1>4
<1>7. /\ NoChunk.page = NULL /\ NoChunk.bitmap = {} /\ NoChunk.allocated_chunks = 0
  BY DEF NoChunk
<1>8. ASSUME NEW d \in DOMAIN h.caches, NEW k \in Lists
      PROVE  /\ IsInjective(g.caches[d][k])
             /\ In(g, d, k) = In(h, d, k) \cup (IF d = c /\ k = "free" THEN Range(n) ELSE {})
  <2>1. IsInjective(h.caches[d][k])
    BY DEF HeapInv, Listed
  <2>2. CASE d = c
    <3>1. Range(h.caches[c].free) = {}
      BY EmptyRange
    <3>2. CASE k = "free"
      <4>1. g.caches[d][k] = n /\ In(g, d, k) = Range(n) /\ In(h, d, k) = {}
        BY <1>4, <2>2, <3>1, <3>2 DEF In
      <4>2. QED
        BY <1>2, <2>2, <3>2, <4>1
    <3>3. CASE k # "free"
      <4>1. g.caches[d][k] = h.caches[d][k]
        BY <1>4, <2>2, <3>3 DEF Lists
      <4>2. QED
        BY <2>1, <3>3, <4>1 DEF In
    <3>4. QED
      BY <3>2, <3>3
  <2>3. CASE d # c
    BY <1>4, <2>1, <2>3 DEF In
  <2>4. QED
    BY <2>2, <2>3
<1>9. \A d \in DOMAIN h.caches, k \in Lists : In(h, d, k) \subseteq DOMAIN h.slab
  BY DEF HeapInv, Listed
<1>10. Shape(g)
  BY <1>1, <1>2, <1>4, <1>5, <1>6 DEF HeapInv, Shape
<1>11. Listed(g)
  <2>1. \A d \in DOMAIN h.caches, k \in Lists : IsInjective(g.caches[d][k]) /\ In(g, d, k) \subseteq DOMAIN g.slab
    BY <1>4, <1>8, <1>9
  <2>2. ASSUME NEW t \in DOMAIN g.slab PROVE \E d \in DOMAIN h.caches, k \in Lists : t \in In(g, d, k)
    <3>1. CASE t \in Range(n)
      <4>1. t \in In(g, c, "free") /\ "free" \in Lists
        BY <1>8, <3>1 DEF Lists
      <4>2. QED
        BY <4>1
    <3>2. CASE t \in DOMAIN h.slab
      <4>1. PICK d \in DOMAIN h.caches, k \in Lists : t \in In(h, d, k)
        BY <3>2 DEF HeapInv, Listed
      <4>2. t \in In(g, d, k)
        BY <1>8, <4>1
      <4>3. QED
        BY <4>2
    <3>3. QED
      BY <1>4, <3>1, <3>2
  <2>3. ASSUME NEW d \in DOMAIN h.caches, NEW f \in DOMAIN h.caches, NEW k \in Lists, NEW m \in Lists,
               NEW t \in In(g, d, k), t \in In(g, f, m)
        PROVE  d = f /\ k = m
    <3>1. CASE t \in Range(n)
      <4>1. t \notin In(h, d, k) /\ t \notin In(h, f, m)
        BY <1>5, <1>9, <3>1
      <4>2. QED
        BY <1>8, <2>3, <4>1
    <3>2. CASE t \notin Range(n)
      <4>1. t \in In(h, d, k) /\ t \in In(h, f, m)
        BY <1>8, <2>3, <3>2
      <4>2. QED
        BY <4>1 DEF HeapInv, Listed
    <3>3. QED
      BY <3>1, <3>2
  <2>4. QED
    BY <1>6, <2>1, <2>2, <2>3 DEF Listed
<1>12. Marks(g, {})
  <2>1. ASSUME NEW d \in DOMAIN h.caches
        PROVE  /\ \A t \in In(g, d, "free") : g.slab[t].bitmap = {}
               /\ \A t \in In(g, d, "partial") : t \in In(h, d, "partial") /\ g.slab[t] = h.slab[t]
               /\ \A t \in In(g, d, "full") : t \in In(h, d, "full") /\ g.slab[t] = h.slab[t]
    <3>1. "free" \in Lists /\ "partial" \in Lists /\ "full" \in Lists
      BY DEF Lists
    <3>2. \A t \in In(g, d, "free") : g.slab[t].bitmap = {}
      BY <1>4, <1>5, <1>7, <1>8, <1>9, <3>1 DEF HeapInv, Marks
    <3>3. In(g, d, "partial") = In(h, d, "partial") /\ In(g, d, "full") = In(h, d, "full")
      <4>1. ASSUME NEW k \in Lists, k # "free" PROVE In(g, d, k) = In(h, d, k)
        <5>1. In(g, d, k) = In(h, d, k) \cup (IF d = c /\ k = "free" THEN Range(n) ELSE {})
          BY <1>8, Zenon
        <5>2. QED
          BY <4>1, <5>1
      <4>2. QED
        BY <3>1, <4>1
    <3>4. QED
      BY <1>5, <1>9, <3>1, <3>2, <3>3
  <2>2. QED
    BY <1>6, <2>1 DEF Marks, HeapInv
<1>13. Counted(g)
  BY <1>4, <1>5, <1>7, FS_EmptySet DEF Counted, HeapInv
<1>14. PagesOnce(g, {})
  <2>1. \A t \in DOMAIN g.slab : g.slab[t].page = NULL <=> g.slab[t].bitmap = {}
    BY <1>4, <1>5, <1>7 DEF PagesOnce, HeapInv
  <2>2. \A s, t \in DOMAIN g.slab : s # t /\ g.slab[s].page # NULL => g.slab[s].page # g.slab[t].page
    BY <1>4, <1>5, <1>7 DEF PagesOnce, HeapInv
  <2>3. \A t \in DOMAIN g.slab : t.page \notin g.pages /\ g.slab[t].page \notin g.pages
    BY <1>1, <1>2, <1>4, <1>5, <1>7, PageNotNull
  <2>4. ASSUME NEW s \in DOMAIN g.slab, NEW t \in DOMAIN g.slab PROVE g.slab[s].page # t.page
    <3>1. t.page \in Nat
      BY <1>1, <1>2, <1>4, <1>5
    <3>2. CASE s \in Range(n)
      BY <1>4, <1>7, <3>1, <3>2, PageNotNull
    <3>3. CASE s \in DOMAIN h.slab
      <4>1. g.slab[s].page = h.slab[s].page /\ h.slab[s].page \notin h.pages
        BY <1>5, <3>3, Zenon
      <4>2. CASE t \in Range(n)
        BY <1>1, <1>2, <4>1, <4>2
      <4>3. CASE t \in DOMAIN h.slab
        <5>1. h.slab[s].page # t.page
          BY <3>3, <4>3 DEF PagesOnce, HeapInv
        <5>2. QED
          BY <4>1, <5>1, Zenon
      <4>4. QED
        BY <1>4, <4>2, <4>3, Zenon
    <3>4. QED
      BY <1>4, <3>2, <3>3
  <2>5. QED
    BY <2>1, <2>2, <2>3, <2>4 DEF PagesOnce
<1>15. Managed(g) = Managed(h)
  <2>1. \A x : x \in DescriptorsOf(g) <=> x = p \/ x \in DescriptorsOf(h)
    BY <1>2, <1>4 DEF DescriptorsOf
  <2>2. \A x : x \in SlabPagesOf(g) <=> x \in SlabPagesOf(h)
    BY <1>4, <1>5, <1>7 DEF SlabPagesOf
  <2>3. QED
    BY <1>1, <1>4, <2>1, <2>2 DEF Managed
<1>16. Marked(g) = Marked(h)
  <2>1. ASSUME NEW d \in DOMAIN h.caches, NEW t \in SlabsOf(h, d)
        PROVE  t \in SlabsOf(g, d) /\ ChunksOf(g, d, t) = ChunksOf(h, d, t)
    <3>1. t \in SlabsOf(g, d)
      BY <1>8, SlabsAt
    <3>2. t \in DOMAIN h.slab
      BY ListedSlab DEF HeapInv
    <3>3. QED
      BY <1>5, <3>1, <3>2 DEF ChunksOf
  <2>2. ASSUME NEW d \in DOMAIN h.caches, NEW t \in SlabsOf(g, d)
        PROVE  t \in SlabsOf(h, d) \/ ChunksOf(g, d, t) = {}
    <3>1. t \in SlabsOf(h, d) \/ t \in Range(n)
      BY <1>8, SlabsAt
    <3>2. t \in Range(n) => ChunksOf(g, d, t) = {}
      BY <1>4, <1>7 DEF ChunksOf
    <3>3. QED
      BY <3>1, <3>2
  <2>3. \A x : x \in Marked(g) <=> x \in Marked(h)
    <3>1. ASSUME NEW x \in Marked(g) PROVE x \in Marked(h)
      <4>1. PICK d \in DOMAIN h.caches : \E t \in SlabsOf(g, d) : x \in ChunksOf(g, d, t)
        BY <1>6, <3>1, MarkedAt
      <4>2. PICK t \in SlabsOf(g, d) : x \in ChunksOf(g, d, t)
        BY <4>1
      <4>3. t \in SlabsOf(h, d) /\ x \in ChunksOf(h, d, t)
        BY <2>1, <2>2, <4>2
      <4>4. QED
        BY <4>3, MarkedAt
    <3>2. ASSUME NEW x \in Marked(h) PROVE x \in Marked(g)
      <4>1. PICK d \in DOMAIN h.caches : \E t \in SlabsOf(h, d) : x \in ChunksOf(h, d, t)
        BY <3>2, MarkedAt
      <4>2. PICK t \in SlabsOf(h, d) : x \in ChunksOf(h, d, t)
        BY <4>1
      <4>3. t \in SlabsOf(g, d) /\ x \in ChunksOf(g, d, t)
        BY <2>1, <4>2
      <4>4. QED
        BY <1>6, <4>3, MarkedAt
    <3>3. QED
      BY <3>1, <3>2
  <2>4. QED
    BY <2>3
<1>17. QED
  BY <1>2, <1>4, <1>6, <1>10, <1>11, <1>12, <1>13, <1>14, <1>15, <1>16 DEF HeapInv, g

EmptyCache == [free |-> <<>>, partial |-> <<>>, full |-> <<>>]

\* A cache that has just been made has no slab.
LEMMA NewCacheSpec ==
  ASSUME NEW h, HeapInv(h, {}), NEW c \in Pools \ DOMAIN h.caches,
         NEW g, g = [h EXCEPT !.caches = With(@, c, EmptyCache)]
  PROVE  /\ HeapInv(g, {}) /\ Managed(g) = Managed(h) /\ Marked(g) = Marked(h)
         /\ DOMAIN g.caches = DOMAIN h.caches \cup {c}
<1> DEFINE C == With(h.caches, c, EmptyCache)
<1>1. /\ DOMAIN h = {"pages", "caches", "slab"}
      /\ h.caches \in [DOMAIN h.caches -> OneCache] /\ DOMAIN h.caches \subseteq Pools
  BY DEF HeapInv, Shape
<1>2. EmptyCache \in OneCache /\ \A k \in Lists : EmptyCache[k] = <<>>
  BY DEF EmptyCache, OneCache, Lists
<1>3. /\ C \in [DOMAIN h.caches \cup {c} -> OneCache] /\ C[c] = EmptyCache
      /\ \A d \in DOMAIN h.caches : C[d] = h.caches[d]
  BY <1>1, <1>2 DEF With
<1> HIDE DEF C
<1>4. g.pages = h.pages /\ g.slab = h.slab /\ g.caches = C /\ DOMAIN g = {"pages", "caches", "slab"}
  BY <1>1 DEF C
<1>5. DOMAIN g.caches = DOMAIN h.caches \cup {c}
  BY <1>3, <1>4
<1>6. Range(<<>>) = {} /\ IsInjective(<<>>)
  BY DEF Range, IsInjective
<1>7. /\ \A d \in DOMAIN h.caches, k \in Lists : In(g, d, k) = In(h, d, k) /\ g.caches[d][k] = h.caches[d][k]
      /\ \A k \in Lists : In(g, c, k) = {} /\ g.caches[c][k] = <<>>
  BY <1>2, <1>3, <1>4, <1>6 DEF In
<1>8. Shape(g)
  BY <1>1, <1>3, <1>4, <1>5 DEF HeapInv, Shape
<1>9. Listed(g)
  <2>1. /\ \A d \in DOMAIN h.caches, k \in Lists :
             IsInjective(h.caches[d][k]) /\ In(h, d, k) \subseteq DOMAIN h.slab
        /\ \A s \in DOMAIN h.slab : \E d \in DOMAIN h.caches, k \in Lists : s \in In(h, d, k)
        /\ \A d, e \in DOMAIN h.caches, k, m \in Lists :
             \A s \in In(h, d, k) : s \in In(h, e, m) => d = e /\ k = m
    BY DEF HeapInv, Listed
  <2>2. \A d \in DOMAIN g.caches, k \in Lists : IsInjective(g.caches[d][k]) /\ In(g, d, k) \subseteq DOMAIN g.slab
    BY <1>4, <1>5, <1>6, <1>7, <2>1
  <2>3. \A s \in DOMAIN g.slab : \E d \in DOMAIN g.caches, k \in Lists : s \in In(g, d, k)
    BY <1>4, <1>5, <1>7, <2>1
  <2>4. \A d, e \in DOMAIN g.caches, k, m \in Lists :
          \A s \in In(g, d, k) : s \in In(g, e, m) => d = e /\ k = m
    BY <1>5, <1>7, <2>1
  <2>5. QED
    BY <2>2, <2>3, <2>4 DEF Listed
<1>10. Marks(g, {})
  <2>1. "free" \in Lists /\ "partial" \in Lists /\ "full" \in Lists
    BY DEF Lists
  <2>2. QED
    BY <1>4, <1>5, <1>7, <2>1 DEF HeapInv, Marks
<1>11. Counted(g) /\ PagesOnce(g, {}) /\ Managed(g) = Managed(h)
  BY <1>4 DEF HeapInv, Counted, PagesOnce, Managed, DescriptorsOf, SlabPagesOf
<1>12. Marked(g) = Marked(h)
  <2>1. SlabsOf(g, c) = {} /\ \A d \in DOMAIN h.caches : SlabsOf(g, d) = SlabsOf(h, d)
    BY <1>7 DEF SlabsOf
  <2>2. \A d, s : ChunksOf(g, d, s) = ChunksOf(h, d, s)
    BY <1>4 DEF ChunksOf
  <2>3. \A x : x \in Marked(g) <=> x \in Marked(h)
    <3>1. ASSUME NEW x \in Marked(g) PROVE x \in Marked(h)
      <4>1. PICK d \in DOMAIN g.caches : \E s \in SlabsOf(g, d) : x \in ChunksOf(g, d, s)
        BY <3>1, MarkedAt
      <4>2. d \in DOMAIN h.caches
        BY <1>5, <2>1, <4>1
      <4>3. QED
        BY <2>1, <2>2, <4>1, <4>2, MarkedAt
    <3>2. ASSUME NEW x \in Marked(h) PROVE x \in Marked(g)
      <4>1. PICK d \in DOMAIN h.caches : \E s \in SlabsOf(h, d) : x \in ChunksOf(h, d, s)
        BY <3>2, MarkedAt
      <4>2. \E s \in SlabsOf(g, d) : x \in ChunksOf(g, d, s)
        BY <2>1, <2>2, <4>1
      <4>3. QED
        BY <1>5, <4>2, MarkedAt
    <3>3. QED
      BY <3>1, <3>2
  <2>4. QED
    BY <2>3
<1>13. QED
  BY <1>5, <1>8, <1>9, <1>10, <1>11, <1>12 DEF HeapInv

\* The whole of mem_cache_alloc: NULL only when there is neither a chunk nor a page.
Allocates(h, w, c) ==
  /\ HeapInv(w.heap, {}) /\ Managed(w.heap) = Managed(h)
  /\ DOMAIN w.heap.caches = DOMAIN h.caches
  /\ \/ w.mem = NULL /\ Marked(w.heap) = Marked(h)
        /\ w.heap.pages = {} /\ w.heap.caches[c].partial = <<>>
     \/ /\ w.mem \in Address /\ w.mem # NULL /\ \A x \in Marked(h) : x[2] # w.mem
        /\ Marked(w.heap) = Marked(h) \cup {<<c, w.mem>>}

LEMMA AllocSpec ==
  ASSUME NEW h, HeapInv(h, {}), NEW c \in DOMAIN h.caches
  PROVE  Allocates(h, mem_cache_alloc(h, c), c)
<1> DEFINE f == WithSlabs(h, c)
           g == WithPartial(f, c)
           w == mem_cache_alloc(h, c)
<1>1. /\ HeapInv(f, {}) /\ Managed(f) = Managed(h) /\ Marked(f) = Marked(h)
      /\ DOMAIN f.caches = DOMAIN h.caches
      /\ f.caches[c].partial = <<>> /\ f.caches[c].free = <<>> => f.pages = {}
  <2>1. CASE h.caches[c].free = <<>> /\ h.caches[c].partial = <<>> /\ h.pages # {}
    BY <2>1, MoreSlabsSpec DEF WithSlabs
  <2>2. CASE h.caches[c].free = <<>> /\ h.caches[c].partial = <<>> /\ h.pages = {}
    BY <2>2 DEF WithSlabs, _more_slabs
  <2>3. CASE ~(h.caches[c].free = <<>> /\ h.caches[c].partial = <<>>)
    BY <2>3 DEF WithSlabs
  <2>4. QED
    BY <2>1, <2>2, <2>3
<1>2. w = WithChunk(g, c)
  BY DEF mem_cache_alloc
<1> HIDE DEF f
<1>3. \/ g = f /\ f.caches[c].partial # <<>>
      \/ g = f /\ f.caches[c].partial = <<>> /\ f.pages = {}
      \/ \E s \in Slab : /\ HeapInv(g, {s}) /\ Managed(g) = Managed(f) /\ Marked(g) = Marked(f)
                         /\ DOMAIN g.caches = DOMAIN f.caches /\ g.caches[c].partial = <<s>>
  <2>1. CASE f.caches[c].partial # <<>>
    BY <2>1 DEF WithPartial
  <2>2. CASE f.caches[c].partial = <<>> /\ f.caches[c].free = <<>>
    BY <1>1, <2>2 DEF WithPartial
  <2>3. CASE f.caches[c].partial = <<>> /\ f.caches[c].free # <<>>
    <3>1. g = PluckFree(f, c)
      BY <2>3 DEF WithPartial
    <3>2. Head(f.caches[c].free) \in Slab
      BY <1>1, <2>3, CacheFacts, TailOf
    <3> HIDE DEF g
    <3>3. QED
      BY <1>1, <2>3, <3>1, <3>2, PluckFreeSpec
  <2>4. QED
    BY <2>1, <2>2, <2>3
<1> HIDE DEF g, w
<1>4. CASE g = f /\ f.caches[c].partial # <<>>
  <2>1. TakesChunk(f, w, c)
    BY <1>1, <1>2, <1>4, WithChunkSpec
  <2>2. QED
    BY <1>1, <2>1 DEF Allocates, TakesChunk, w
<1>5. CASE g = f /\ f.caches[c].partial = <<>> /\ f.pages = {}
  <2>1. w = [heap |-> f, mem |-> NULL]
    BY <1>2, <1>5 DEF WithChunk
  <2>2. QED
    BY <1>1, <1>5, <2>1 DEF Allocates, w
<1>6. ASSUME NEW s \in Slab, HeapInv(g, {s}), Managed(g) = Managed(f), Marked(g) = Marked(f),
             DOMAIN g.caches = DOMAIN f.caches, g.caches[c].partial = <<s>>
      PROVE  Allocates(h, w, c)
  <2>1. g.caches[c].partial # <<>>
    <3>1. Len(<<s>>) = 1 /\ Len(<<>>) = 0
      OBVIOUS
    <3>2. QED
      BY <1>6, <3>1
  <2> DEFINE X == {s}
  <2>2. HeapInv(g, X) /\ \E t \in Slab : X = {t} /\ g.caches[c].partial = <<t>>
    BY <1>6
  <2> HIDE DEF X
  <2>3. TakesChunk(g, w, c)
    BY <1>1, <1>2, <1>6, <2>1, <2>2, WithChunkSpec
  <2>4. QED
    BY <1>1, <1>6, <2>3 DEF Allocates, TakesChunk
<1>7. QED
  BY <1>3, <1>4, <1>5, <1>6 DEF w

-----------------------------------------------------------------------------
(* A chunk is given back.                                                    *)

\* Where mem_cache_free finds a chunk.
FoundIn(h, c, a) == IF SlabOf(h, h.caches[c].partial, a) # 0 THEN "partial" ELSE "full"
FoundAt(h, c, a) == SlabOf(h, h.caches[c][FoundIn(h, c, a)], a)
Found(h, c, a)   == h.caches[c][FoundIn(h, c, a)][FoundAt(h, c, a)]

LEMMA FoundSlab ==
  ASSUME NEW h, HeapInv(h, {}), NEW c \in DOMAIN h.caches, NEW a \in Address, Allocated(h, c, a)
  PROVE  LET l == FoundIn(h, c, a)
             s == Found(h, c, a)
         IN  /\ l \in Lists /\ FoundAt(h, c, a) \in 1 .. Len(h.caches[c][l])
             /\ l = "partial" \/ l = "full"
             /\ s \in In(h, c, l) /\ h.slab[s].page = a.page /\ a.page # NULL
             /\ a.offset % chunk_size[c] = 0
             /\ a.offset \div chunk_size[c] \in h.slab[s].bitmap
<1> DEFINE q == h.caches[c]
           S(k) == SlabOf(h, q[k], a)
<1>1. /\ q["partial"] \in Seq(Slab) /\ q["full"] \in Seq(Slab)
      /\ q["partial"] = q.partial /\ q["full"] = q.full
      /\ In(h, c, "partial") = Range(q["partial"]) /\ In(h, c, "full") = Range(q["full"])
      /\ Range(q["partial"]) \subseteq SlabsOf(h, c) /\ Range(q["full"]) \subseteq SlabsOf(h, c)
      /\ \A s \in Range(q["partial"]) : s \notin Range(q["full"])
  BY CacheFacts
<1>2. a.page \in Ram /\ a.page # NULL
  BY PageNotNull DEF Address
<1>3. \A k \in {"partial", "full"} :
        S(k) # 0 => S(k) \in 1 .. Len(q[k]) /\ q[k][S(k)] \in Range(q[k]) /\ h.slab[q[k][S(k)]].page = a.page
  <2> HIDE DEF q
  <2>1. \A k \in {"partial", "full"} : q[k] \in Seq(Slab)
    BY <1>1
  <2>2. QED
    BY <2>1, SlabOfFacts, Zenon
<1>4. PICK k \in {"partial", "full"} : S(k) # 0 /\ a.offset \div chunk_size[c] \in h.slab[q[k][S(k)]].bitmap
  BY DEF Allocated
<1>5. a.offset % chunk_size[c] = 0
  BY DEF Allocated
<1>6. \A s, t \in DOMAIN h.slab : h.slab[s].page = a.page /\ h.slab[t].page = a.page => s = t
  BY <1>2 DEF HeapInv, PagesOnce
<1>7. \A s \in SlabsOf(h, c) : s \in DOMAIN h.slab
  BY ListedSlab DEF HeapInv
<1>8. FoundIn(h, c, a) = k
  <2>1. CASE k = "partial"
    BY <1>1, <1>4, <2>1 DEF FoundIn
  <2>2. CASE k = "full"
    <3>1. S("full") # 0
      BY <1>4, <2>2
    <3>2. ASSUME S("partial") # 0 PROVE FALSE
      <4>1. /\ q["partial"][S("partial")] \in Range(q["partial"])
            /\ h.slab[q["partial"][S("partial")]].page = a.page
        BY <1>3, <3>2
      <4>2. /\ q["full"][S("full")] \in Range(q["full"])
            /\ h.slab[q["full"][S("full")]].page = a.page
        BY <1>3, <3>1
      <4>3. q["full"][S("full")] = q["partial"][S("partial")]
        BY <1>1, <1>6, <1>7, <4>1, <4>2
      <4>4. QED
        BY <1>1, <4>1, <4>2, <4>3
    <3>3. QED
      BY <1>1, <2>2, <3>2 DEF FoundIn
  <2>3. QED
    BY <2>1, <2>2
<1>9. FoundAt(h, c, a) = S(k) /\ Found(h, c, a) = q[k][S(k)]
  BY <1>8 DEF FoundAt, Found
<1>10. In(h, c, k) = Range(q[k]) /\ k \in Lists
  BY <1>1 DEF Lists
<1>11. S(k) \in 1 .. Len(q[k]) /\ q[k][S(k)] \in Range(q[k]) /\ h.slab[q[k][S(k)]].page = a.page
  BY <1>3, <1>4
<1> HIDE DEF S, q
<1>12. QED
  BY <1>2, <1>4, <1>5, <1>8, <1>9, <1>10, <1>11 DEF q

\* The pool whose chunk it is takes an address, and no other.
LEMMA AllocatedIff ==
  ASSUME NEW h, HeapInv(h, {}), NEW c \in DOMAIN h.caches, NEW a \in Address
  PROVE  Allocated(h, c, a) <=> <<c, a>> \in Marked(h)
<1> DEFINE d == chunk_size[c]
<1>1. d \in Nat \ {0} /\ a = [page |-> a.page, offset |-> a.offset] /\ a.offset \in Nat /\ a.page # NULL
  BY ChunkFacts, ShapeFacts, PageNotNull DEF HeapInv, Address
<1>2. ASSUME Allocated(h, c, a) PROVE <<c, a>> \in Marked(h)
  <2> DEFINE s == Found(h, c, a)
             b == a.offset \div d
  <2>1. /\ FoundIn(h, c, a) \in Lists /\ s \in In(h, c, FoundIn(h, c, a)) /\ h.slab[s].page = a.page
        /\ a.offset % d = 0 /\ b \in h.slab[s].bitmap
    BY <1>2, FoundSlab
  <2>2. a.offset = d * b + 0 /\ b \in Nat
    BY <1>1, <2>1, DivMod
  <2> HIDE DEF s, b, d
  <2>3. a.offset = b * d
    BY <1>1, <2>2
  <2>4. <<c, a>> = <<c, [page |-> h.slab[s].page, offset |-> b * d]>>
    BY <1>1, <2>1, <2>3
  <2>5. <<c, a>> \in ChunksOf(h, c, s)
    BY <2>1, <2>4, ChunkAt DEF d
  <2>6. s \in SlabsOf(h, c)
    BY <2>1, SlabsAt
  <2>7. QED
    BY <2>5, <2>6, MarkedAt
<1>3. ASSUME <<c, a>> \in Marked(h) PROVE Allocated(h, c, a)
  <2>1. PICK e \in DOMAIN h.caches : \E s \in SlabsOf(h, e) : <<c, a>> \in ChunksOf(h, e, s)
    BY <1>3, MarkedAt
  <2>2. PICK s \in SlabsOf(h, e) : <<c, a>> \in ChunksOf(h, e, s)
    BY <2>1
  <2>3. PICK b \in h.slab[s].bitmap : <<c, a>> = <<e, [page |-> h.slab[s].page, offset |-> b * chunk_size[e]]>>
    BY <2>2, ChunkAt
  <2>4. e = c /\ a.page = h.slab[s].page /\ a.offset = b * d
    BY <2>3
  <2>5. s \in DOMAIN h.slab
    BY <2>2, ListedSlab DEF HeapInv
  <2>6. b \in Nat
    BY <2>3, <2>5, ShapeFacts DEF HeapInv
  <2>7. a.offset \div d = b /\ a.offset % d = 0
    BY <1>1, <2>4, <2>6, ChunkApart
  <2>8. PICK k \in Lists : s \in In(h, c, k)
    BY <2>2, <2>4, SlabsAt
  <2>9. k # "free"
    BY <2>3, <2>8 DEF HeapInv, Marks
  <2>10. k \in {"partial", "full"} /\ h.caches[c][k] \in Seq(Slab) /\ s \in Range(h.caches[c][k])
    BY <2>8, <2>9, ShapeFacts DEF Lists, In, HeapInv
  <2> DEFINE i == SlabOf(h, h.caches[c][k], a)
             t == h.caches[c][k][i]
  <2>11. i # 0 /\ t \in Range(h.caches[c][k]) /\ h.slab[t].page = a.page
    <3> DEFINE z == h.caches[c][k]
    <3>1. z \in Seq(Slab) /\ s \in Range(z) /\ h.slab[s].page = a.page
      BY <2>4, <2>10
    <3> HIDE DEF z
    <3>2. i = SlabOf(h, z, a) /\ t = z[i]
      BY Zenon DEF z
    <3> HIDE DEF i, t
    <3>3. i # 0
      <4>1. SlabOf(h, z, a) = 0 <=> \A x \in Range(z) : h.slab[x].page # a.page
        BY <3>1, SlabOfFacts
      <4>2. QED
        BY <3>1, <3>2, <4>1, Zenon
    <3>4. z[i] \in Range(z) /\ h.slab[z[i]].page = a.page
      BY <3>1, <3>2, <3>3, SlabOfFacts, Zenon
    <3>5. QED
      BY <3>2, <3>3, <3>4, Zenon DEF z
  <2>12. t \in DOMAIN h.slab
    <3>1. In(h, c, k) \subseteq DOMAIN h.slab /\ In(h, c, k) = Range(h.caches[c][k])
      BY <2>8 DEF HeapInv, Listed, In
    <3>2. QED
      BY <2>11, <3>1, Zenon
  <2>13. t = s
    BY <1>1, <2>4, <2>5, <2>11, <2>12 DEF HeapInv, PagesOnce
  <2>14. QED
    BY <2>3, <2>7, <2>10, <2>11, <2>13 DEF Allocated
<1>4. QED
  BY <1>2, <1>3

\* The chunk unmarked and its slab unlinked; and the slab linked again.
Unlinked(h, a, c) ==
  LET s == Found(h, c, a)
  IN  [h EXCEPT !.slab[s].bitmap = @ \ {a.offset \div chunk_size[c]},
                !.slab[s].allocated_chunks = @ - 1,
                !.caches[c][FoundIn(h, c, a)] = RemoveAt(@, FoundAt(h, c, a))]

Unmarks(h, g, c, l, i, s, b) ==
  /\ DOMAIN g = {"pages", "caches", "slab"} /\ g.pages = h.pages
  /\ g.slab \in [DOMAIN h.slab -> OneSlab]
  /\ \A t \in DOMAIN h.slab : t # s => g.slab[t] = h.slab[t]
  /\ g.slab[s].page = h.slab[s].page /\ g.slab[s].bitmap = h.slab[s].bitmap \ {b}
  /\ g.slab[s].allocated_chunks = h.slab[s].allocated_chunks - 1
  /\ g.caches \in [DOMAIN h.caches -> OneCache]
  /\ \A d \in DOMAIN h.caches : d # c => g.caches[d] = h.caches[d]
  /\ \A k \in Lists : g.caches[c][k] = IF k = l THEN RemoveAt(h.caches[c][l], i) ELSE h.caches[c][k]

LEMMA UnlinkedFields ==
  ASSUME NEW h, DOMAIN h = {"pages", "caches", "slab"},
         h.caches \in [DOMAIN h.caches -> OneCache], h.slab \in [DOMAIN h.slab -> OneSlab],
         NEW c \in DOMAIN h.caches, NEW a, Found(h, c, a) \in DOMAIN h.slab,
         h.slab[Found(h, c, a)].allocated_chunks - 1 \in Nat,
         FoundIn(h, c, a) \in Lists,
         RemoveAt(h.caches[c][FoundIn(h, c, a)], FoundAt(h, c, a)) \in Seq(Slab)
  PROVE  Unmarks(h, Unlinked(h, a, c), c, FoundIn(h, c, a), FoundAt(h, c, a), Found(h, c, a),
                 a.offset \div chunk_size[c])
<1> DEFINE s == Found(h, c, a)
           l == FoundIn(h, c, a)
           i == FoundAt(h, c, a)
           b == a.offset \div chunk_size[c]
           B == h.slab[s].bitmap \ {b}
           n == h.slab[s].allocated_chunks - 1
           z == RemoveAt(h.caches[c][l], i)
           g == Unlinked(h, a, c)
           C == [free : Seq(Slab), partial : Seq(Slab), full : Seq(Slab)]
<1>1. h.slab[s].bitmap \in SUBSET Nat
  BY DEF OneSlab
<1>2. B \in SUBSET Nat /\ n \in Nat /\ z \in Seq(Slab)
  BY <1>1
<1>3. g = [h EXCEPT !.slab[s].bitmap = B, !.slab[s].allocated_chunks = n, !.caches[c][l] = z]
  BY DEF Unlinked
<1>4. s \in DOMAIN h.slab /\ l \in Lists /\ h.caches \in [DOMAIN h.caches -> C]
  BY DEF OneCache
<1> HIDE DEF s, l, i, b, B, n, z, g
<1>5. /\ DOMAIN g = {"pages", "caches", "slab"} /\ g.pages = h.pages
      /\ g.slab \in [DOMAIN h.slab -> OneSlab]
      /\ \A t \in DOMAIN h.slab : t # s => g.slab[t] = h.slab[t]
      /\ g.slab[s].page = h.slab[s].page /\ g.slab[s].bitmap = B
      /\ g.slab[s].allocated_chunks = n
  <2> DEFINE e == [h EXCEPT !.slab[s].bitmap = B, !.slab[s].allocated_chunks = n]
  <2>1. g = [e EXCEPT !.caches[c][l] = z]
    BY <1>3
  <2>2. /\ DOMAIN e = {"pages", "caches", "slab"} /\ e.pages = h.pages
        /\ e.slab \in [DOMAIN h.slab -> OneSlab]
        /\ \A t \in DOMAIN h.slab : t # s => e.slab[t] = h.slab[t]
        /\ e.slab[s].page = h.slab[s].page /\ e.slab[s].bitmap = B
        /\ e.slab[s].allocated_chunks = n
    <3>1. DOMAIN e = {"pages", "caches", "slab"} /\ e.pages = h.pages
      OBVIOUS
    <3>2. e.slab = [h.slab EXCEPT ![s].bitmap = B, ![s].allocated_chunks = n]
      OBVIOUS
    <3> HIDE DEF e
    <3>3. /\ e.slab \in [DOMAIN h.slab -> OneSlab]
          /\ \A t \in DOMAIN h.slab : t # s => e.slab[t] = h.slab[t]
          /\ e.slab[s].page = h.slab[s].page /\ e.slab[s].bitmap = B
          /\ e.slab[s].allocated_chunks = n
      <4> DEFINE O == [page : Ram \cup {NULL}, bitmap : SUBSET Nat, allocated_chunks : Nat]
      <4>1. h.slab \in [DOMAIN h.slab -> O]
        BY DEF OneSlab
      <4>2. e.slab \in [DOMAIN h.slab -> O]
        <5> DEFINE x == [[h.slab[s] EXCEPT !.bitmap = B] EXCEPT !.allocated_chunks = n]
        <5>1. h.slab[s] \in O
          BY <1>4, <4>1
        <5>2. x \in O
          BY <1>2, <5>1
        <5>3. e.slab = [h.slab EXCEPT ![s] = x]
          BY <1>4, <3>2, <4>1
        <5> HIDE DEF x, O
        <5>4. QED
          BY <1>4, <4>1, <5>2, <5>3, OnePlace
      <4>3. /\ \A t \in DOMAIN h.slab : t # s => e.slab[t] = h.slab[t]
            /\ e.slab[s].page = h.slab[s].page /\ e.slab[s].bitmap = B
            /\ e.slab[s].allocated_chunks = n
        BY <1>4, <3>2, <4>1
      <4>4. QED
        BY <4>2, <4>3 DEF OneSlab
    <3>4. QED
      BY <3>1, <3>3
  <2> HIDE DEF e
  <2>3. DOMAIN g = {"pages", "caches", "slab"} /\ g.pages = e.pages /\ g.slab = e.slab
    BY <2>1, <2>2
  <2>4. QED
    BY <2>2, <2>3
<1>6. /\ g.caches \in [DOMAIN h.caches -> C]
      /\ \A d \in DOMAIN h.caches : d # c => g.caches[d] = h.caches[d]
      /\ \A k \in Lists : g.caches[c][k] = IF k = l THEN z ELSE h.caches[c][k]
  BY <1>2, <1>3, <1>4 DEF Lists
<1>7. QED
  BY <1>5, <1>6 DEF Unmarks, OneCache, s, l, i, b, B, n, z, g

\* The list s goes to.
Links(h, g, c, m, s) ==
  /\ DOMAIN g = {"pages", "caches", "slab"}
  /\ g.caches \in [DOMAIN h.caches -> OneCache]
  /\ \A d \in DOMAIN h.caches : d # c => g.caches[d] = h.caches[d]
  /\ \A k \in Lists : g.caches[c][k] = IF k = m THEN <<s>> \o h.caches[c][m] ELSE h.caches[c][k]

LinkedPartial(h, c, s) == [h EXCEPT !.caches[c].partial = <<s>> \o @]

LEMMA LinkPartial ==
  ASSUME NEW h, DOMAIN h = {"pages", "caches", "slab"},
         h.caches \in [DOMAIN h.caches -> OneCache], NEW c \in DOMAIN h.caches, NEW s \in Slab
  PROVE  LET g == LinkedPartial(h, c, s)
         IN  Links(h, g, c, "partial", s) /\ g.pages = h.pages /\ g.slab = h.slab
<1> DEFINE z == <<s>> \o h.caches[c].partial
           C == [free : Seq(Slab), partial : Seq(Slab), full : Seq(Slab)]
           g == LinkedPartial(h, c, s)
<1>1. h.caches \in [DOMAIN h.caches -> C] /\ h.caches[c].partial \in Seq(Slab)
  BY DEF OneCache
<1>2. z \in Seq(Slab)
  BY <1>1, PushFront
<1>3. g = [h EXCEPT !.caches[c].partial = z] /\ z = <<s>> \o h.caches[c]["partial"]
  BY DEF LinkedPartial
<1> HIDE DEF z, g
<1>4. /\ DOMAIN g = {"pages", "caches", "slab"} /\ g.pages = h.pages /\ g.slab = h.slab
      /\ g.caches \in [DOMAIN h.caches -> C]
      /\ \A d \in DOMAIN h.caches : d # c => g.caches[d] = h.caches[d]
      /\ \A k \in Lists : g.caches[c][k] = IF k = "partial" THEN z ELSE h.caches[c][k]
  <2>1. DOMAIN g = {"pages", "caches", "slab"} /\ g.pages = h.pages /\ g.slab = h.slab
    BY <1>3
  <2>2. /\ g.caches \in [DOMAIN h.caches -> C]
        /\ \A d \in DOMAIN h.caches : d # c => g.caches[d] = h.caches[d]
    BY <1>1, <1>2, <1>3
  <2>3. \A k \in Lists : g.caches[c][k] = IF k = "partial" THEN z ELSE h.caches[c][k]
    BY <1>1, <1>3 DEF Lists
  <2>4. QED
    BY <2>1, <2>2, <2>3
<1>5. QED
  BY <1>3, <1>4 DEF Links, OneCache, g

LEMMA LinkFree ==
  ASSUME NEW h, DOMAIN h = {"pages", "caches", "slab"},
         h.caches \in [DOMAIN h.caches -> OneCache], h.slab \in [DOMAIN h.slab -> OneSlab],
         NEW c \in DOMAIN h.caches, NEW s \in Slab, s \in DOMAIN h.slab
  PROVE  LET g == EmptySlab(h, c, s)
         IN  /\ Links(h, g, c, "free", s) /\ g.pages = h.pages \cup {h.slab[s].page}
             /\ g.slab \in [DOMAIN h.slab -> OneSlab]
             /\ \A t \in DOMAIN h.slab : t # s => g.slab[t] = h.slab[t]
             /\ g.slab[s].page = NULL /\ g.slab[s].bitmap = h.slab[s].bitmap
             /\ g.slab[s].allocated_chunks = h.slab[s].allocated_chunks
<1> DEFINE z == <<s>> \o h.caches[c].free
           C == [free : Seq(Slab), partial : Seq(Slab), full : Seq(Slab)]
           e == [h EXCEPT !.caches[c].free = <<s>> \o @, !.slab[s].page = NULL]
           g == EmptySlab(h, c, s)
<1>1. h.caches \in [DOMAIN h.caches -> C] /\ h.caches[c].free \in Seq(Slab)
  BY DEF OneCache
<1>2. z \in Seq(Slab)
  BY <1>1, PushFront
<1>3. e = [h EXCEPT !.caches[c].free = z, !.slab[s].page = NULL] /\ z = <<s>> \o h.caches[c]["free"]
  OBVIOUS
<1>4. g = GivePage(e, h.slab[s].page)
  BY DEF EmptySlab
<1> HIDE DEF z, e, g
<1>5. /\ DOMAIN e = {"pages", "caches", "slab"} /\ e.pages = h.pages
      /\ e.caches \in [DOMAIN h.caches -> C]
      /\ \A d \in DOMAIN h.caches : d # c => e.caches[d] = h.caches[d]
      /\ \A k \in Lists : e.caches[c][k] = IF k = "free" THEN z ELSE h.caches[c][k]
  <2>1. DOMAIN e = {"pages", "caches", "slab"} /\ e.pages = h.pages
    BY <1>3
  <2>2. e.caches = [h.caches EXCEPT ![c].free = z]
    BY <1>3
  <2>3. /\ e.caches \in [DOMAIN h.caches -> C]
        /\ \A d \in DOMAIN h.caches : d # c => e.caches[d] = h.caches[d]
        /\ \A k \in Lists : e.caches[c][k] = IF k = "free" THEN z ELSE h.caches[c][k]
    <3>1. /\ e.caches \in [DOMAIN h.caches -> C]
          /\ \A d \in DOMAIN h.caches : d # c => e.caches[d] = h.caches[d]
          /\ e.caches[c].free = z /\ e.caches[c].partial = h.caches[c].partial
          /\ e.caches[c].full = h.caches[c].full
      <4> DEFINE x == [h.caches[c] EXCEPT !.free = z]
      <4>1. h.caches[c] \in C
        BY <1>1
      <4>2. x \in C /\ x.free = z /\ x.partial = h.caches[c].partial /\ x.full = h.caches[c].full
        BY <1>2, <4>1
      <4>3. e.caches = [h.caches EXCEPT ![c] = x]
        BY <2>2
      <4> HIDE DEF x, C
      <4>4. e.caches \in [DOMAIN h.caches -> C]
        BY <1>1, <4>2, <4>3, OnePlace
      <4>5. e.caches[c] = x /\ \A d \in DOMAIN h.caches : d # c => e.caches[d] = h.caches[d]
        BY <4>3
      <4>6. QED
        BY <4>2, <4>4, <4>5
    <3>2. QED
      BY <3>1 DEF Lists
  <2>4. QED
    BY <2>1, <2>3
<1>6. /\ e.slab \in [DOMAIN h.slab -> OneSlab]
      /\ \A t \in DOMAIN h.slab : t # s => e.slab[t] = h.slab[t]
      /\ e.slab[s].page = NULL /\ e.slab[s].bitmap = h.slab[s].bitmap
      /\ e.slab[s].allocated_chunks = h.slab[s].allocated_chunks
  <2> DEFINE O == [page : Ram \cup {NULL}, bitmap : SUBSET Nat, allocated_chunks : Nat]
             x == [h.slab[s] EXCEPT !.page = NULL]
  <2>1. h.slab \in [DOMAIN h.slab -> O] /\ h.slab[s] \in O
    BY DEF OneSlab
  <2>2. /\ x \in O /\ x.page = NULL /\ x.bitmap = h.slab[s].bitmap
        /\ x.allocated_chunks = h.slab[s].allocated_chunks
    BY <2>1
  <2>3. e.slab = [h.slab EXCEPT ![s] = x]
    BY <1>3
  <2> HIDE DEF x, O
  <2>4. [h.slab EXCEPT ![s] = x] \in [DOMAIN h.slab -> O]
    BY <2>1, <2>2, OnePlace, Zenon
  <2>5. e.slab[s] = x /\ \A t \in DOMAIN h.slab : t # s => e.slab[t] = h.slab[t]
    BY <2>3
  <2>6. QED
    BY <2>2, <2>3, <2>4, <2>5 DEF O, OneSlab
<1>7. /\ DOMAIN g = {"pages", "caches", "slab"} /\ g.pages = e.pages \cup {h.slab[s].page}
      /\ g.caches = e.caches /\ g.slab = e.slab
  BY <1>4, <1>5, GivePageFields
<1>8. Links(h, g, c, "free", s)
  <2>1. \A k \in Lists : g.caches[c][k] = IF k = "free" THEN <<s>> \o h.caches[c]["free"] ELSE h.caches[c][k]
    <3>1. g.caches = e.caches /\ z = <<s>> \o h.caches[c]["free"]
      BY <1>3, <1>7, Zenon
    <3>2. \A k \in Lists : e.caches[c][k] = IF k = "free" THEN z ELSE h.caches[c][k]
      BY <1>5, Zenon
    <3>3. QED
      BY <3>1, <3>2, Zenon
  <2>2. /\ g.caches \in [DOMAIN h.caches -> OneCache] /\ DOMAIN g = {"pages", "caches", "slab"}
        /\ \A d \in DOMAIN h.caches : d # c => g.caches[d] = h.caches[d]
    BY <1>5, <1>7, Zenon DEF OneCache
  <2>3. QED
    BY <2>1, <2>2, Zenon DEF Links
<1>9. QED
  BY <1>5, <1>6, <1>7, <1>8 DEF g

Frees(h, g, c, a) ==
  /\ HeapInv(g, {}) /\ Managed(g) = Managed(h)
  /\ DOMAIN g.caches = DOMAIN h.caches
  /\ Marked(g) = Marked(h) \ {<<c, a>>}

LEMMA FreeSpec ==
  ASSUME NEW h, HeapInv(h, {}), NEW c \in DOMAIN h.caches, NEW a \in Address, Allocated(h, c, a)
  PROVE  Frees(h, mem_cache_free(h, c, a), c, a)
<1> DEFINE l == FoundIn(h, c, a)
           i == FoundAt(h, c, a)
           s == Found(h, c, a)
           d == chunk_size[c]
           b == a.offset \div d
           B == h.slab[s].bitmap
           e == Unlinked(h, a, c)
           g == mem_cache_free(h, c, a)
           r == g.slab[s]
           m == IF B \ {b} # {} THEN "partial" ELSE "free"
<1>1. /\ l \in Lists /\ i \in 1 .. Len(h.caches[c][l]) /\ (l = "partial" \/ l = "full")
      /\ s \in In(h, c, l) /\ h.slab[s].page = a.page /\ a.page # NULL
      /\ a.offset % d = 0 /\ b \in B
  BY FoundSlab
<1>2. g = IF e.slab[s].allocated_chunks # 0 THEN LinkedPartial(e, c, s) ELSE EmptySlab(e, c, s)
  BY DEF mem_cache_free, Unlinked, FoundIn, FoundAt, Found, LinkedPartial
<1>3. d \in Nat \ {0} /\ c \in Pools /\ a.offset \in Nat /\ a.page \in Ram
  BY ChunkFacts, ShapeFacts DEF HeapInv, Address
<1>4. /\ DOMAIN h = {"pages", "caches", "slab"} /\ h.pages \subseteq Ram
      /\ h.caches \in [DOMAIN h.caches -> OneCache] /\ h.slab \in [DOMAIN h.slab -> OneSlab]
  BY DEF HeapInv, Shape
<1>5. s \in SlabsOf(h, c) /\ s \in DOMAIN h.slab /\ s \in Slab
  <2>1. s \in SlabsOf(h, c)
    BY <1>1, SlabsAt
  <2>2. s \in DOMAIN h.slab
    BY <2>1, ListedSlab DEF HeapInv
  <2>3. QED
    BY <2>1, <2>2, ShapeFacts DEF HeapInv
<1>6. /\ \A k \in Lists : h.caches[c][k] \in Seq(Slab) /\ In(h, c, k) = Range(h.caches[c][k])
                          /\ IsInjective(h.caches[c][k])
  BY ShapeFacts DEF HeapInv, Listed, In
<1>7. \A k \in Lists : k # l => s \notin In(h, c, k)
  BY <1>1 DEF HeapInv, Listed
<1>8. /\ RemoveAt(h.caches[c][l], i) \in Seq(Slab)
      /\ Range(RemoveAt(h.caches[c][l], i)) = In(h, c, l) \ {s}
      /\ IsInjective(RemoveAt(h.caches[c][l], i))
  <2>1. h.caches[c][l][i] = s
    BY DEF Found
  <2> HIDE DEF l, i, s
  <2>2. QED
    BY <1>1, <1>6, <2>1, RemoveAtOf
<1>9. /\ B \subseteq Chunks(c) /\ IsFiniteSet(B) /\ h.slab[s].allocated_chunks = Cardinality(B)
  <2>1. B \subseteq Chunks(c)
    BY <1>1 DEF HeapInv, Marks
  <2>2. QED
    BY <1>5, <2>1 DEF HeapInv, Counted
<1>10. /\ IsFiniteSet(B \ {b}) /\ Cardinality(B) - 1 = Cardinality(B \ {b})
       /\ Cardinality(B \ {b}) \in Nat /\ (Cardinality(B \ {b}) = 0 <=> B \ {b} = {})
  <2> HIDE DEF B, b
  <2>1. IsFiniteSet(B \ {b}) /\ Cardinality(B \ {b}) = Cardinality(B) - 1
    BY <1>1, <1>9, FS_RemoveElement
  <2>2. QED
    BY <2>1, FS_CardinalityType, FS_EmptySet
<1> HIDE DEF l, i, s, b, B, e, g, r, m, d
<1>11. Unmarks(h, e, c, l, i, s, b)
  BY <1>1, <1>4, <1>5, <1>8, <1>9, <1>10, UnlinkedFields DEF l, i, s, b, d, e
<1>12. /\ DOMAIN e = {"pages", "caches", "slab"} /\ e.pages = h.pages
       /\ e.slab \in [DOMAIN h.slab -> OneSlab]
       /\ \A t \in DOMAIN h.slab : t # s => e.slab[t] = h.slab[t]
       /\ e.slab[s].page = h.slab[s].page /\ e.slab[s].bitmap = B \ {b}
       /\ e.slab[s].allocated_chunks = Cardinality(B \ {b})
       /\ e.caches \in [DOMAIN h.caches -> OneCache]
       /\ \A f \in DOMAIN h.caches : f # c => e.caches[f] = h.caches[f]
       /\ \A k \in Lists : e.caches[c][k] = IF k = l THEN RemoveAt(h.caches[c][l], i) ELSE h.caches[c][k]
  BY <1>9, <1>10, <1>11 DEF Unmarks, B
<1>13. DOMAIN e.caches = DOMAIN h.caches /\ DOMAIN e.slab = DOMAIN h.slab
  BY <1>12
<1>14. /\ m \in Lists /\ Links(e, g, c, m, s)
       /\ g.slab \in [DOMAIN h.slab -> OneSlab]
       /\ \A t \in DOMAIN h.slab : t # s => g.slab[t] = h.slab[t]
       /\ r.bitmap = B \ {b} /\ r.allocated_chunks = Cardinality(B \ {b})
       /\ m = "partial" => r.page = h.slab[s].page /\ g.pages = h.pages /\ B \ {b} # {}
       /\ m = "free" => r.page = NULL /\ g.pages = h.pages \cup {h.slab[s].page} /\ B \ {b} = {}
       /\ m = "partial" \/ m = "free"
  <2>1. CASE B \ {b} # {}
    <3>1. g = LinkedPartial(e, c, s) /\ m = "partial"
      BY <1>2, <1>10, <1>12, <2>1 DEF m
    <3>2. Links(e, g, c, "partial", s) /\ g.pages = e.pages /\ g.slab = e.slab
      BY <1>5, <1>12, <1>13, <3>1, LinkPartial
    <3>3. QED
      BY <1>12, <2>1, <3>1, <3>2 DEF Lists, r
  <2>2. CASE B \ {b} = {}
    <3>1. g = EmptySlab(e, c, s) /\ m = "free"
      BY <1>2, <1>10, <1>12, <2>2 DEF m
    <3>2. /\ Links(e, g, c, "free", s) /\ g.pages = e.pages \cup {e.slab[s].page}
          /\ g.slab \in [DOMAIN e.slab -> OneSlab]
          /\ \A t \in DOMAIN e.slab : t # s => g.slab[t] = e.slab[t]
          /\ g.slab[s].page = NULL /\ g.slab[s].bitmap = e.slab[s].bitmap
          /\ g.slab[s].allocated_chunks = e.slab[s].allocated_chunks
      <4>1. /\ DOMAIN e = {"pages", "caches", "slab"} /\ c \in DOMAIN e.caches
            /\ e.caches \in [DOMAIN e.caches -> OneCache] /\ e.slab \in [DOMAIN e.slab -> OneSlab]
            /\ s \in Slab /\ s \in DOMAIN e.slab
        BY <1>5, <1>12, <1>13
      <4>2. QED
        BY <3>1, <4>1, LinkFree
    <3>3. QED
      BY <1>12, <1>13, <2>2, <3>1, <3>2 DEF Lists, r
  <2>3. QED
    BY <2>1, <2>2
<1>15. /\ DOMAIN g = {"pages", "caches", "slab"}
       /\ g.caches \in [DOMAIN h.caches -> OneCache]
       /\ \A f \in DOMAIN h.caches : f # c => g.caches[f] = h.caches[f]
       /\ \A k \in Lists : g.caches[c][k] = IF k = m THEN <<s>> \o e.caches[c][m] ELSE e.caches[c][k]
  BY <1>12, <1>13, <1>14 DEF Links
<1>16. ASSUME NEW k \in Lists
       PROVE  /\ e.caches[c][k] \in Seq(Slab) /\ Range(e.caches[c][k]) = In(h, c, k) \ {s}
              /\ IsInjective(e.caches[c][k])
  <2>1. CASE k = l
    <3>1. e.caches[c][k] = RemoveAt(h.caches[c][l], i)
      BY <1>12, <2>1
    <3>2. QED
      BY <1>8, <2>1, <3>1, Zenon
  <2>2. CASE k # l
    <3>1. e.caches[c][k] = h.caches[c][k]
      BY <1>12, <2>2
    <3>2. s \notin In(h, c, k)
      BY <1>7, <2>2, Zenon
    <3>3. h.caches[c][k] \in Seq(Slab) /\ Range(h.caches[c][k]) = In(h, c, k) /\ IsInjective(h.caches[c][k])
      BY <1>6, Zenon
    <3>4. QED
      BY <3>1, <3>2, <3>3
  <2>3. QED
    BY <2>1, <2>2
<1>17. /\ Range(<<s>> \o e.caches[c][m]) = {s} \cup Range(e.caches[c][m])
       /\ IsInjective(<<s>> \o e.caches[c][m])
  <2>1. e.caches[c][m] \in Seq(Slab) /\ IsInjective(e.caches[c][m]) /\ s \notin Range(e.caches[c][m])
    BY <1>14, <1>16
  <2>2. QED
    BY <1>5, <2>1, PushFront
<1>18. ASSUME NEW k \in Lists
       PROVE  /\ IsInjective(g.caches[c][k])
              /\ In(g, c, k) = (In(h, c, k) \ {s}) \cup (IF k = m THEN {s} ELSE {})
  <2>1. CASE k = m
    BY <1>15, <1>16, <1>17, <2>1 DEF In
  <2>2. CASE k # m
    BY <1>15, <1>16, <2>2 DEF In
  <2>3. QED
    BY <2>1, <2>2
<1>19. g.pages \subseteq Ram
  BY <1>1, <1>3, <1>4, <1>14
<1>20. Shape(g) /\ Moved(h, g, c, s, m) /\ DOMAIN g.slab = DOMAIN h.slab
  BY <1>5, <1>14, <1>15, <1>18, <1>19, ChangedStep
<1>21. Becomes(h, g, s, r)
  BY <1>1, <1>14, <1>20 DEF Becomes, r
<1>22. Fits(c, m, s, r, {})
  <2>1. r \in OneSlab
    BY <1>5, <1>14 DEF r
  <2>2. B \ {b} \subseteq Chunks(c) /\ B \ {b} # Chunks(c)
    BY <1>1, <1>9
  <2>3. QED
    BY <1>1, <1>10, <1>14, <2>1, <2>2 DEF Fits
<1>23. HeapInv(g, {}) /\ Managed(g) = Managed(h)
  BY <1>5, <1>14, <1>20, <1>21, <1>22, SlabStep
<1>24. \A x : x \in ChunksOf(g, c, s) <=> x \in ChunksOf(h, c, s) /\ x # <<c, a>>
  <2>1. a = [page |-> h.slab[s].page, offset |-> b * d]
    <3>1. a.offset = d * b + 0 /\ b \in Nat
      BY <1>1, <1>3, DivMod DEF b
    <3>2. a.offset = b * d
      BY <1>3, <3>1
    <3>3. a = [page |-> a.page, offset |-> a.offset]
      BY DEF Address
    <3>4. QED
      BY <1>1, <3>2, <3>3
  <2>2. \A x : x \in ChunksOf(h, c, s) <=>
           \E n \in B : x = <<c, [page |-> h.slab[s].page, offset |-> n * d]>>
    BY ChunkAt DEF B, d
  <2>3. ASSUME NEW n \in B, n * d = b * d PROVE n = b
    <3>1. n \in Nat /\ b \in Nat
      BY <1>1, <1>3, <1>9, ChunkFacts
    <3>2. (n * d) \div d = n /\ (b * d) \div d = b
      BY <1>3, <3>1, ChunkApart
    <3>3. QED
      BY <2>3, <3>2
  <2>4. CASE m = "partial"
    <3>1. \A x : x \in ChunksOf(g, c, s) <=>
             \E n \in B \ {b} : x = <<c, [page |-> h.slab[s].page, offset |-> n * d]>>
      BY <1>14, <2>4, ChunkAt DEF r, d
    <3>2. QED
      BY <1>1, <2>1, <2>2, <2>3, <3>1
  <2>5. CASE m = "free"
    <3>1. ChunksOf(g, c, s) = {} /\ B = {b}
      BY <1>1, <1>14, <2>5 DEF r, ChunksOf
    <3>2. QED
      BY <2>1, <2>2, <3>1
  <2>6. QED
    BY <1>14, <2>4, <2>5
<1>25. /\ \A x : x \in Marked(g) <=> (x \in Marked(h) /\ x \notin ChunksOf(h, c, s)) \/ x \in ChunksOf(g, c, s)
       /\ ChunksOf(h, c, s) \subseteq Marked(h)
  BY <1>5, <1>14, <1>20, <1>21, MarkedStep
<1>26. <<c, a>> \in ChunksOf(h, c, s)
  <2>1. <<c, a>> \in Marked(h) /\ <<c, a>>[2].page = h.slab[s].page
    BY <1>1, AllocatedIff
  <2>2. QED
    BY <1>1, <1>5, <1>14, <1>20, <1>21, <2>1, MarkedStep
<1>27. Marked(g) = Marked(h) \ {<<c, a>>}
  <2>1. \A x : x \in Marked(g) <=> x \in Marked(h) /\ x # <<c, a>>
    BY <1>24, <1>25, <1>26
  <2>2. QED
    BY <2>1
<1>28. DOMAIN g.caches = DOMAIN h.caches
  BY <1>15
<1>29. QED
  BY <1>23, <1>27, <1>28 DEF Frees, g

-----------------------------------------------------------------------------
(* kmalloc and kfree.                                                        *)

LEMMA PoolOfFacts ==
  ASSUME NEW size, PoolFor(size) # {}
  PROVE  PoolOf(size) \in PoolFor(size) /\ PoolOf(size) \in Pools
BY DEF PoolOf, PoolFor

Mallocs(h, k, size) ==
  /\ HeapInv(k.heap, {}) /\ Managed(k.heap) = Managed(h)
  /\ \/ k.mem = NULL /\ Marked(k.heap) = Marked(h)
     \/ /\ k.mem \in Address /\ k.mem # NULL /\ \A x \in Marked(h) : x[2] # k.mem
        /\ PoolFor(size) # {} /\ Marked(k.heap) = Marked(h) \cup {<<PoolOf(size), k.mem>>}

\* There is no chunk and no page for one.
Full(h, size) ==
  h.pages = {} /\ (PoolOf(size) \in DOMAIN h.caches => h.caches[PoolOf(size)].partial = <<>>)

FailsRightly(h, k, size) ==
  k.mem = NULL /\ PoolFor(size) # {} =>
    \/ Full(k.heap, size)
    \/ PoolOf(size) \notin DOMAIN h.caches /\ Cardinality(DOMAIN h.caches) = caches_total

LEMMA KmallocSpec ==
  ASSUME NEW h, HeapInv(h, {}), NEW size
  PROVE  Mallocs(h, kmalloc(h, size, TRUE), size) /\ FailsRightly(h, kmalloc(h, size, TRUE), size)
<1> DEFINE k == kmalloc(h, size, TRUE)
           c == PoolOf(size)
           g == [h EXCEPT !.caches = With(@, c, EmptyCache)]
<1>1. ASSUME k = [heap |-> h, mem |-> NULL] PROVE Mallocs(h, k, size)
  <2> HIDE DEF k
  <2>1. k.heap = h /\ k.mem = NULL
    BY <1>1
  <2>2. QED
    BY <2>1 DEF Mallocs
<1>2. CASE PoolFor(size) = {}
  <2>1. k = [heap |-> h, mem |-> NULL]
    BY <1>2 DEF kmalloc
  <2>2. QED
    BY <1>1, <1>2, <2>1 DEF FailsRightly
<1>3. CASE PoolFor(size) # {}
  <2>1. c \in Pools
    BY <1>3, PoolOfFacts
  <2>2. CASE c \in DOMAIN h.caches
    <3>1. k = mem_cache_alloc(h, c)
      BY <1>3, <2>2 DEF kmalloc, PoolOf
    <3>2. Allocates(h, k, c)
      BY <2>2, <3>1, AllocSpec
    <3> HIDE DEF k
    <3>3. Mallocs(h, k, size)
      BY <1>3, <3>2 DEF Allocates, Mallocs
    <3>4. FailsRightly(h, k, size)
      BY <3>2 DEF Allocates, Full, FailsRightly
    <3>5. QED
      BY <3>3, <3>4 DEF k
  <2>3. CASE c \notin DOMAIN h.caches /\ Cardinality(DOMAIN h.caches) = caches_total
    <3>1. k = [heap |-> h, mem |-> NULL]
      BY <1>3, <2>3 DEF kmalloc, PoolOf
    <3>2. QED
      BY <1>1, <2>3, <3>1 DEF FailsRightly
  <2>4. CASE c \notin DOMAIN h.caches /\ Cardinality(DOMAIN h.caches) # caches_total
    <3>1. k = mem_cache_alloc(g, c)
      BY <1>3, <2>4 DEF kmalloc, PoolOf, EmptyCache
    <3> HIDE DEF k
    <3>2. /\ HeapInv(g, {}) /\ Managed(g) = Managed(h) /\ Marked(g) = Marked(h)
          /\ DOMAIN g.caches = DOMAIN h.caches \cup {c}
      BY <2>1, <2>4, NewCacheSpec
    <3> HIDE DEF g
    <3>3. Allocates(g, k, c)
      BY <3>1, <3>2, AllocSpec
    <3>4. Mallocs(h, k, size)
      BY <1>3, <3>2, <3>3 DEF Allocates, Mallocs
    <3>5. FailsRightly(h, k, size)
      BY <3>3 DEF Allocates, Full, FailsRightly
    <3>6. QED
      BY <3>4, <3>5 DEF k
  <2>5. QED
    BY <2>2, <2>3, <2>4
<1>4. QED
  BY <1>2, <1>3

\* Without GFP_KERNEL there is no pool.
LEMMA KmallocNone ==
  ASSUME NEW h, NEW size
  PROVE  kmalloc(h, size, FALSE) = [heap |-> h, mem |-> NULL]
BY DEF kmalloc

LEMMA KfreeSpec ==
  ASSUME NEW h, HeapInv(h, {}), NEW a \in Address, NEW c,
         <<c, a>> \in Marked(h), \A x \in Marked(h) : x[2] = a => x = <<c, a>>
  PROVE  LET g == kfree(h, a).heap
         IN  HeapInv(g, {}) /\ Managed(g) = Managed(h) /\ Marked(g) = Marked(h) \ {<<c, a>>}
<1>1. c \in DOMAIN h.caches
  <2>1. PICK d \in DOMAIN h.caches : \E s \in SlabsOf(h, d) : <<c, a>> \in ChunksOf(h, d, s)
    BY MarkedAt
  <2>2. PICK s \in SlabsOf(h, d) : <<c, a>> \in ChunksOf(h, d, s)
    BY <2>1
  <2>3. PICK b \in h.slab[s].bitmap : <<c, a>> = <<d, [page |-> h.slab[s].page, offset |-> b * chunk_size[d]]>>
    BY <2>2, ChunkAt
  <2>4. QED
    BY <2>3
<1>2. c \in Nat
  <2>1. c \in Pools
    BY <1>1, ShapeFacts DEF HeapInv
  <2>2. QED
    BY <2>1, MemCacheAssumption, LenProperties DEF Pools
<1>3. Allocated(h, c, a)
  BY <1>1, AllocatedIff
<1>4. \A d \in DOMAIN h.caches : Allocated(h, d, a) => d = c
  <2>1. ASSUME NEW d \in DOMAIN h.caches, Allocated(h, d, a) PROVE d = c
    <3>1. <<d, a>> \in Marked(h) /\ <<d, a>>[2] = a
      BY <2>1, AllocatedIff
    <3>2. <<d, a>> = <<c, a>>
      BY <3>1
    <3>3. QED
      BY <3>2
  <2>2. QED
    BY <2>1
<1>5. Takers(h, a) = {c}
  BY <1>1, <1>3, <1>4 DEF Takers
<1>6. Lowest({c}) = c
  BY <1>2, LowestOf
<1>7. a # NULL
  <2>1. a \in [page : Nat, offset : Nat]
    BY PageNotNull DEF Address
  <2>2. QED
    BY <2>1, MemCacheAssumption
<1>8. kfree(h, a).heap = mem_cache_free(h, c, a)
  BY <1>5, <1>6, <1>7 DEF kfree
<1>9. Frees(h, mem_cache_free(h, c, a), c, a)
  BY <1>1, <1>3, FreeSpec
<1>10. QED
  BY <1>8, <1>9 DEF Frees

\* An address that is no chunk's is refused.
LEMMA KfreeRefused ==
  ASSUME NEW h, HeapInv(h, {}), NEW a \in Address, \A x \in Marked(h) : x[2] # a
  PROVE  kfree(h, a).heap = h
<1>1. \A d \in DOMAIN h.caches : ~Allocated(h, d, a)
  <2>1. ASSUME NEW d \in DOMAIN h.caches, Allocated(h, d, a) PROVE FALSE
    <3>1. <<d, a>> \in Marked(h) /\ <<d, a>>[2] = a
      BY <2>1, AllocatedIff
    <3>2. QED
      BY <3>1
  <2>2. QED
    BY <2>1
<1>2. Takers(h, a) = {}
  BY <1>1 DEF Takers
<1>3. QED
  BY <1>2 DEF kfree

-----------------------------------------------------------------------------
(* Page tables.                                                              *)

\* Pages between two of the same first-level entry are of that entry, and an entry and an
\* index are one page.
LEMMA Between ==
  ASSUME NEW d \in Nat \ {0}, NEW x \in Nat, NEW y \in Nat, NEW z \in Nat,
         x <= y, y <= z, x \div d = z \div d
  PROVE  y \div d = x \div d
<1> DEFINE a == x \div d
           b == y \div d
<1>1. /\ a \in Nat /\ b \in Nat /\ x % d \in 0 .. d - 1 /\ y % d \in 0 .. d - 1 /\ z % d \in 0 .. d - 1
      /\ x = d * a + (x % d) /\ y = d * b + (y % d) /\ z = d * a + (z % d)
  BY DivMod
<1> DEFINE r == x % d
           s == y % d
           t == z % d
<1>2. /\ a \in Nat /\ b \in Nat /\ r \in 0 .. d - 1 /\ s \in 0 .. d - 1 /\ t \in 0 .. d - 1
      /\ x = d * a + r /\ y = d * b + s /\ z = d * a + t
  BY <1>1
<1> HIDE DEF a, b, r, s, t
<1>3. ASSUME a < b PROVE FALSE
  <2>1. d * a + d <= d * b
    <3>1. d * (a + 1) <= d * b
      BY <1>2, <1>3
    <3>2. QED
      BY <1>2, <3>1
  <2>2. QED
    BY <1>2, <2>1
<1>4. ASSUME b < a PROVE FALSE
  <2>1. d * b + d <= d * a
    <3>1. d * (b + 1) <= d * a
      BY <1>2, <1>4
    <3>2. QED
      BY <1>2, <3>1
  <2>2. QED
    BY <1>2, <2>1
<1>5. QED
  BY <1>2, <1>3, <1>4 DEF a, b

LEMMA SamePage ==
  ASSUME NEW d \in Nat \ {0}, NEW x \in Nat, NEW y \in Nat, x \div d = y \div d, x % d = y % d
  PROVE  x = y
<1>1. x = d * (x \div d) + (x % d) /\ y = d * (y \div d) + (y % d)
  BY DivMod
<1>2. QED
  BY <1>1

\* A virtual page has an entry in a table.
LEMMA VirtualFacts ==
  ASSUME NEW v \in Virtual
  PROVE  v \in Nat /\ v \div L2_ENTRIES \in 0 .. L1_ENTRIES - 1 /\ v % L2_ENTRIES \in 0 .. L2_ENTRIES - 1
<1> DEFINE d == L2_ENTRIES
           a == v \div d
           r == v % d
<1>1. d \in Nat \ {0} /\ L1_ENTRIES \in Nat \ {0}
  BY KernelMemoryAssumption
<1>2. v \in Nat /\ v < L1_ENTRIES * d
  BY <1>1 DEF Virtual
<1>3. a \in Nat /\ r \in 0 .. d - 1 /\ v = d * a + r
  BY <1>1, <1>2, DivMod
<1> HIDE DEF d, a, r
<1>4. ASSUME a >= L1_ENTRIES PROVE FALSE
  <2>1. L1_ENTRIES * d <= d * a
    <3>1. d * L1_ENTRIES <= d * a
      BY <1>1, <1>3, <1>4
    <3>2. QED
      BY <1>1, <3>1
  <2>2. QED
    BY <1>1, <1>2, <1>3, <2>1
<1>5. QED
  BY <1>1, <1>2, <1>3, <1>4 DEF a, d, r

\* vm_map goes page by page.
Mapping(s, h, m, virt, phy, size, flags, GFP_KERNEL) ==
  /\ s[0] = [heap |-> h, mmu |-> m, err |-> 0]
  /\ \A i \in 1 .. size : s[i] = MapPage(s[i - 1], virt + (i - 1), phy + (i - 1), flags, GFP_KERNEL)

LEMMA MappingExists ==
  ASSUME NEW h, NEW m, NEW virt, NEW phy, NEW size \in Nat, NEW flags, NEW GFP_KERNEL
  PROVE  \E s : /\ Mapping(s, h, m, virt, phy, size, flags, GFP_KERNEL)
                /\ vm_map(h, m, virt, phy, size, flags, GFP_KERNEL) = Flush(s[size])
<1> DEFINE first == [heap |-> h, mmu |-> m, err |-> 0]
           step(t, i) == MapPage(t, virt + (i - 1), phy + (i - 1), flags, GFP_KERNEL)
           Steps(f, k) == /\ f = [j \in 0 .. k |-> f[j]] /\ f[0] = first
                          /\ \A j \in 1 .. k : f[j] = step(f[j - 1], j)
           P == {k \in 0 .. size : \E f : Steps(f, k)}
<1> HIDE DEF first, step
<1>1. 0 \in P
  <2>1. Steps([j \in 0 .. 0 |-> first], 0)
    OBVIOUS
  <2> HIDE DEF Steps
  <2>2. \E f : Steps(f, 0)
    BY <2>1
  <2>3. QED
    BY <2>2
<1>2. ASSUME NEW k \in 0 .. size - 1, k \in P PROVE k + 1 \in P
  <2>1. PICK f : Steps(f, k)
    BY <1>2
  <2> DEFINE g == [j \in 0 .. k + 1 |-> IF j = k + 1 THEN step(f[k], k + 1) ELSE f[j]]
  <2>2. g = [j \in 0 .. k + 1 |-> g[j]] /\ g[0] = first
    BY <2>1
  <2>3. ASSUME NEW j \in 1 .. k + 1 PROVE g[j] = step(g[j - 1], j)
    <3>1. CASE j = k + 1
      <4>1. g[j] = step(f[k], k + 1) /\ j - 1 = k /\ g[k] = f[k]
        BY <3>1
      <4>2. QED
        BY <3>1, <4>1
    <3>2. CASE j \in 1 .. k
      <4>1. g[j] = f[j] /\ g[j - 1] = f[j - 1]
        BY <3>2
      <4>2. QED
        BY <2>1, <3>2, <4>1
    <3>3. QED
      BY <3>1, <3>2
  <2>4. Steps(g, k + 1)
    BY <2>2, <2>3
  <2> HIDE DEF Steps
  <2>5. k + 1 \in 0 .. size /\ \E f2 : Steps(f2, k + 1)
    BY <2>4
  <2>6. QED
    BY <2>5
<1>3. size \in P
  <2> HIDE DEF P
  <2> QED
    BY <1>1, <1>2, Climb
<1>4. PICK f : Steps(f, size)
  BY <1>3
<1> DEFINE F(g) == [i \in 0 .. size |-> IF i = 0 THEN first ELSE step(g[i - 1], i)]
           s == CHOOSE g : g = F(g)
<1>5. f = F(f)
  <2>1. ASSUME NEW i \in 0 .. size PROVE f[i] = F(f)[i]
    <3>1. CASE i = 0
      BY <1>4, <3>1
    <3>2. CASE i # 0
      <4>1. i \in 1 .. size
        BY <3>2
      <4>2. f[i] = step(f[i - 1], i)
        BY <1>4, <4>1
      <4>3. QED
        BY <3>2, <4>2
    <3>3. QED
      BY <3>1, <3>2
  <2>2. QED
    BY <1>4, <2>1
<1>6. s = F(s)
  <2> HIDE DEF F
  <2> QED
    BY <1>5
<1>7. vm_map(h, m, virt, phy, size, flags, GFP_KERNEL) = Flush(s[size])
  BY DEF vm_map, first, step
<1> HIDE DEF s
<1>8. s[0] = first /\ \A i \in 1 .. size : s[i] = step(s[i - 1], i)
  BY <1>6
<1>9. Mapping(s, h, m, virt, phy, size, flags, GFP_KERNEL)
  BY <1>8 DEF Mapping, first, step
<1>10. QED
  BY <1>7, <1>9

-----------------------------------------------------------------------------
(* One page is entered.                                                      *)

\* g is m with a page at index i of table a, which is that of entry e.
Entered(m, g, e, a, i, page) ==
  /\ MmuShape(g)
  /\ g.l1[e] = a /\ \A f \in 0 .. L1_ENTRIES - 1 : f # e => g.l1[f] = m.l1[f]
  /\ \A b \in DOMAIN m.l2 : b # a => b \in DOMAIN g.l2 /\ g.l2[b] = m.l2[b]
  /\ a \in DOMAIN g.l2 /\ g.l2[a][i] = page
  /\ \A j \in 0 .. L2_ENTRIES - 1 :
       j # i => g.l2[a][j] = IF m.l1[e] # NULL THEN m.l2[a][j] ELSE NULL
  /\ g.tlb = m.tlb

EnterNext(s, w, e, k, i, page) ==
  /\ DOMAIN w = {"heap", "mmu", "err"} /\ w.heap = k.heap
  /\ k.mem = NULL => w.err = -1 /\ w.mmu = s.mmu
  /\ k.mem # NULL => w.err = s.err /\ Entered(s.mmu, w.mmu, e, k.mem, i, page)

LEMMA EnterPageFields ==
  ASSUME NEW s, DOMAIN s = {"heap", "mmu", "err"}, MmuShape(s.mmu),
         NEW e \in 0 .. L1_ENTRIES - 1, NEW i \in 0 .. L2_ENTRIES - 1, NEW page, NEW k,
         s.mmu.l1[e] # NULL => k.mem = s.mmu.l1[e]
  PROVE  EnterNext(s, EnterPage(s, e, k, i, page), e, k, i, page)
<1> DEFINE w == EnterPage(s, e, k, i, page)
           m == s.mmu
           a == k.mem
           old == IF m.l1[e] # NULL THEN m.l2[a] ELSE EmptyTable
           T == [old EXCEPT ![i] = page]
           L == With(m.l2, a, T)
<1>1. /\ DOMAIN m = {"l1", "l2", "tlb"} /\ DOMAIN m.l1 = 0 .. L1_ENTRIES - 1
      /\ \A f \in 0 .. L1_ENTRIES - 1 : m.l1[f] # NULL => m.l1[f] \in DOMAIN m.l2
      /\ \A b \in DOMAIN m.l2 : DOMAIN m.l2[b] = 0 .. L2_ENTRIES - 1
  BY DEF MmuShape
<1>2. CASE a = NULL
  <2>1. w = [s EXCEPT !.heap = k.heap, !.err = -1]
    BY <1>2 DEF EnterPage
  <2>2. DOMAIN w = {"heap", "mmu", "err"} /\ w.heap = k.heap /\ w.err = -1 /\ w.mmu = s.mmu
    BY <2>1
  <2> HIDE DEF w
  <2>3. QED
    BY <1>2, <2>2 DEF EnterNext, w
<1>3. CASE a # NULL
  <2>2. w = [s EXCEPT !.heap = k.heap, !.mmu.l1[e] = a, !.mmu.l2 = L]
    BY <1>3 DEF EnterPage
  <2>3. /\ DOMAIN T = 0 .. L2_ENTRIES - 1 /\ T[i] = page
        /\ \A j \in 0 .. L2_ENTRIES - 1 : j # i => T[j] = IF m.l1[e] # NULL THEN m.l2[a][j] ELSE NULL
    <3>1. DOMAIN old = 0 .. L2_ENTRIES - 1
      BY <1>1 DEF EmptyTable
    <3>2. m.l1[e] = NULL => \A j \in 0 .. L2_ENTRIES - 1 : old[j] = NULL
      BY DEF EmptyTable
    <3>3. m.l1[e] # NULL => old = m.l2[a]
      OBVIOUS
    <3> HIDE DEF old
    <3>4. QED
      BY <3>1, <3>2, <3>3
  <2> HIDE DEF T
  <2>4. /\ DOMAIN L = DOMAIN m.l2 \cup {a} /\ L[a] = T
        /\ \A b \in DOMAIN m.l2 : b # a => L[b] = m.l2[b]
    BY DEF With
  <2> HIDE DEF L
  <2>5. /\ DOMAIN w = {"heap", "mmu", "err"} /\ w.heap = k.heap /\ w.err = s.err
        /\ w.mmu = [m EXCEPT !.l1[e] = a, !.l2 = L]
    BY <1>1, <2>2
  <2> HIDE DEF w
  <2> DEFINE g == w.mmu
  <2>6. /\ DOMAIN g = {"l1", "l2", "tlb"} /\ g.l1 = [m.l1 EXCEPT ![e] = a] /\ g.l2 = L /\ g.tlb = m.tlb
    BY <1>1, <2>5
  <2> HIDE DEF g
  <2>7. /\ DOMAIN g.l1 = 0 .. L1_ENTRIES - 1 /\ g.l1[e] = a
        /\ \A f \in 0 .. L1_ENTRIES - 1 : f # e => g.l1[f] = m.l1[f]
    BY <1>1, <2>6
  <2>8. MmuShape(g)
    <3>1. DOMAIN g = {"l1", "l2", "tlb"} /\ g.l2 = L
      BY <2>6
    <3>2. \A f \in 0 .. L1_ENTRIES - 1 : g.l1[f] # NULL => g.l1[f] \in DOMAIN L
      BY <1>1, <2>4, <2>7
    <3>3. \A b \in DOMAIN L : DOMAIN L[b] = 0 .. L2_ENTRIES - 1
      BY <1>1, <2>3, <2>4
    <3>4. QED
      BY <2>7, <3>1, <3>2, <3>3, Zenon DEF MmuShape
  <2>9. Entered(m, g, e, a, i, page)
    BY <2>3, <2>4, <2>6, <2>7, <2>8 DEF Entered
  <2>10. QED
    BY <1>3, <2>5, <2>9 DEF EnterNext, g, w
<1>4. QED
  BY <1>2, <1>3

\* When the table is that of no other entry, one virtual page changes.
LEMMA EntryEntered ==
  ASSUME NEW m, MmuShape(m), NEW g, NEW e \in 0 .. L1_ENTRIES - 1, NEW i \in 0 .. L2_ENTRIES - 1,
         NEW a, NEW page, Entered(m, g, e, a, i, page), a # NULL,
         m.l1[e] # NULL => m.l1[e] = a,
         \A f \in 0 .. L1_ENTRIES - 1 : f # e => m.l1[f] # a,
         NEW v \in Virtual
  PROVE  Entry(g, v) = IF v \div L2_ENTRIES = e /\ v % L2_ENTRIES = i THEN page ELSE Entry(m, v)
<1> DEFINE f == v \div L2_ENTRIES
           j == v % L2_ENTRIES
<1>1. f \in 0 .. L1_ENTRIES - 1 /\ j \in 0 .. L2_ENTRIES - 1
  BY VirtualFacts
<1>2. /\ Entry(g, v) = IF g.l1[f] = NULL THEN NULL ELSE g.l2[g.l1[f]][j]
      /\ Entry(m, v) = IF m.l1[f] = NULL THEN NULL ELSE m.l2[m.l1[f]][j]
  BY DEF Entry
<1> HIDE DEF f, j
<1>3. CASE f = e
  BY <1>1, <1>2, <1>3 DEF Entered, f, j
<1>4. CASE f # e
  <2>1. g.l1[f] = m.l1[f] /\ m.l1[f] # a
    BY <1>1, <1>4 DEF Entered
  <2>2. m.l1[f] # NULL => g.l2[m.l1[f]] = m.l2[m.l1[f]]
    BY <1>1, <2>1 DEF Entered, MmuShape
  <2>3. QED
    BY <1>2, <1>4, <2>1, <2>2 DEF f, j
<1>5. QED
  BY <1>3, <1>4

\* Translations are a matter of entries.
LEMMA SameTranslations ==
  ASSUME NEW m, NEW g, \A v \in Virtual : Entry(g, v) = Entry(m, v)
  PROVE  Translations(g) = Translations(m)
BY DEF Translations

-----------------------------------------------------------------------------
(* vm_map: a region under one first-level entry.                             *)

\* After i pages, with the table a.
MappedTo(u, k, m, e, virt, phy, flags, i) ==
  /\ DOMAIN u = {"heap", "mmu", "err"} /\ u.err = 0 /\ u.heap = k.heap
  /\ MmuShape(u.mmu) /\ u.mmu.l1[e] = k.mem
  /\ \A f \in 0 .. L1_ENTRIES - 1 : f # e => u.mmu.l1[f] = m.l1[f]
  /\ \A v \in Virtual :
       Entry(u.mmu, v) = IF virt <= v /\ v < virt + i THEN SmallPage(phy + (v - virt), flags)
                         ELSE Entry(m, v)
  /\ u.mmu.tlb = m.tlb

\* Before page i, of which the table is k.mem.
Ready(s, k, m, e, virt, phy, flags, i) ==
  /\ DOMAIN s = {"heap", "mmu", "err"} /\ s.err = 0
  /\ MmuShape(s.mmu) /\ (s.mmu.l1[e] # NULL => k.mem = s.mmu.l1[e])
  /\ \A f \in 0 .. L1_ENTRIES - 1 : f # e => s.mmu.l1[f] = m.l1[f] /\ m.l1[f] # k.mem
  /\ \A v \in Virtual :
       Entry(s.mmu, v) = IF virt <= v /\ v < virt + i THEN SmallPage(phy + (v - virt), flags)
                         ELSE Entry(m, v)
  /\ s.mmu.tlb = m.tlb

LEMMA MapPageStep ==
  ASSUME NEW m, NEW s, NEW e \in 0 .. L1_ENTRIES - 1, NEW flags, NEW GFP_KERNEL, NEW k, k.mem # NULL,
         NEW virt \in Nat, NEW phy \in Nat, NEW i \in Nat,
         NEW x \in Virtual, x = virt + i, x \div L2_ENTRIES = e, NEW y, y = phy + i, NEW n, n = i + 1,
         TableOf(s, e, GFP_KERNEL) = k, Ready(s, k, m, e, virt, phy, flags, i)
  PROVE  MappedTo(MapPage(s, x, y, flags, GFP_KERNEL), k, m, e, virt, phy, flags, n)
<1> DEFINE j == x % L2_ENTRIES
           page == SmallPage(y, flags)
           u == MapPage(s, x, y, flags, GFP_KERNEL)
<1>1. x \in Nat /\ j \in 0 .. L2_ENTRIES - 1 /\ x \div L2_ENTRIES = e
  BY VirtualFacts
<1>2. u = EnterPage(s, e, k, j, page)
  BY DEF MapPage, Ready
<1>0. /\ DOMAIN s = {"heap", "mmu", "err"} /\ MmuShape(s.mmu)
      /\ s.mmu.l1[e] # NULL => k.mem = s.mmu.l1[e]
      /\ \A f \in 0 .. L1_ENTRIES - 1 : f # e => s.mmu.l1[f] # k.mem
  BY DEF Ready
<1> HIDE DEF u, page, j
<1>3. EnterNext(s, u, e, k, j, page)
  BY <1>0, <1>1, <1>2, EnterPageFields
<1>4. /\ DOMAIN u = {"heap", "mmu", "err"} /\ u.heap = k.heap /\ u.err = 0
      /\ Entered(s.mmu, u.mmu, e, k.mem, j, page)
  BY <1>3 DEF EnterNext, Ready
<1>5. /\ MmuShape(u.mmu) /\ u.mmu.l1[e] = k.mem /\ u.mmu.tlb = m.tlb
      /\ \A f \in 0 .. L1_ENTRIES - 1 : f # e => u.mmu.l1[f] = m.l1[f]
  BY <1>4 DEF Entered, Ready
<1>6. ASSUME NEW v \in Virtual
      PROVE  Entry(u.mmu, v) = IF virt <= v /\ v < virt + n THEN SmallPage(phy + (v - virt), flags)
                               ELSE Entry(m, v)
  <2>1. \A f \in 0 .. L1_ENTRIES - 1 : f # e => s.mmu.l1[f] # k.mem
    BY DEF Ready
  <2>2. Entry(u.mmu, v) = IF v \div L2_ENTRIES = e /\ v % L2_ENTRIES = j THEN page ELSE Entry(s.mmu, v)
    BY <1>0, <1>1, <1>4, <2>1, EntryEntered
  <2>3. v \in Nat /\ L2_ENTRIES \in Nat \ {0}
    BY VirtualFacts, KernelMemoryAssumption
  <2>4. (v \div L2_ENTRIES = e /\ v % L2_ENTRIES = j) <=> v = x
    <3>1. ASSUME v \div L2_ENTRIES = e, v % L2_ENTRIES = j PROVE v = x
      <4>1. v % L2_ENTRIES = x % L2_ENTRIES /\ v \div L2_ENTRIES = x \div L2_ENTRIES
        BY <1>1, <3>1 DEF j
      <4>2. QED
        BY <1>1, <2>3, <4>1, SamePage
    <3>2. QED
      BY <1>1, <3>1 DEF j
  <2>5. CASE v = x
    <3>1. phy + (v - virt) = phy + i /\ virt <= v /\ v < virt + n
        BY <2>5
    <3>2. QED
      BY <2>2, <2>4, <2>5, <3>1 DEF page
  <2>6. CASE v # x
    <3>1. (virt <= v /\ v < virt + n) <=> (virt <= v /\ v < virt + i)
      BY <2>3, <2>6
    <3>2. QED
      BY <2>2, <2>4, <2>6, <3>1 DEF Ready
  <2>7. QED
    BY <2>5, <2>6
<1>7. QED
  BY <1>4, <1>5, <1>6 DEF MappedTo, u

VmMaps(u, k, m, e, virt, phy, size, flags) ==
  /\ u.heap = k.heap
  /\ k.mem = NULL =>
       /\ u.err = -1 /\ MmuShape(u.mmu) /\ u.mmu.l1 = m.l1 /\ u.mmu.l2 = m.l2
       /\ u.mmu.tlb = Translations(m) \cup m.tlb
  /\ k.mem # NULL =>
       /\ u.err = 0 /\ MmuShape(u.mmu) /\ u.mmu.l1[e] = k.mem
       /\ \A f \in 0 .. L1_ENTRIES - 1 : f # e => u.mmu.l1[f] = m.l1[f]
       /\ \A v \in Virtual :
            Entry(u.mmu, v) = IF virt <= v /\ v < virt + size THEN SmallPage(phy + (v - virt), flags)
                              ELSE Entry(m, v)
       /\ u.mmu.tlb = Translations(u.mmu)

LEMMA VmMapSpec ==
  ASSUME NEW h, NEW m, MmuShape(m), NEW virt \in Nat, NEW phy \in Nat, NEW size \in Nat \ {0},
         NEW flags, NEW GFP_KERNEL, NEW e \in 0 .. L1_ENTRIES - 1,
         virt .. virt + size - 1 \subseteq Virtual,
         \A v \in virt .. virt + size - 1 : v \div L2_ENTRIES = e,
         NEW k, k = TableOf([heap |-> h, mmu |-> m, err |-> 0], e, GFP_KERNEL),
         k.mem # NULL => \A f \in 0 .. L1_ENTRIES - 1 : f # e => m.l1[f] # k.mem
  PROVE  VmMaps(vm_map(h, m, virt, phy, size, flags, GFP_KERNEL), k, m, e, virt, phy, size, flags)
<1>1. PICK s : /\ Mapping(s, h, m, virt, phy, size, flags, GFP_KERNEL)
               /\ vm_map(h, m, virt, phy, size, flags, GFP_KERNEL) = Flush(s[size])
  BY MappingExists
<1> DEFINE start == [heap |-> h, mmu |-> m, err |-> 0]
           u == vm_map(h, m, virt, phy, size, flags, GFP_KERNEL)
<1>2. /\ s[0] = start
      /\ \A i \in 1 .. size : s[i] = MapPage(s[i - 1], virt + (i - 1), phy + (i - 1), flags, GFP_KERNEL)
  BY <1>1 DEF Mapping
<1>3. start.heap = h /\ start.mmu = m /\ start.err = 0 /\ DOMAIN start = {"heap", "mmu", "err"}
  OBVIOUS
<1>4. m.l1[e] # NULL => k.mem = m.l1[e] /\ k.heap = h
  BY DEF TableOf
<1>5. virt \in Virtual /\ virt \div L2_ENTRIES = e /\ 1 \in 1 .. size /\ virt \in virt .. virt + size - 1
  OBVIOUS
<1>6. s[1] = MapPage(start, virt + 0, phy + 0, flags, GFP_KERNEL)
  BY <1>2, <1>5
<1>7. u = Flush(s[size])
  BY <1>1
<1> HIDE DEF start, u
<1>8. CASE k.mem = NULL
  <2>1. s[1] = EnterPage(start, e, k, virt % L2_ENTRIES, SmallPage(phy, flags))
    BY <1>3, <1>5, <1>6 DEF MapPage, start
  <2>2. EnterNext(start, s[1], e, k, virt % L2_ENTRIES, SmallPage(phy, flags))
    <3>1. virt % L2_ENTRIES \in 0 .. L2_ENTRIES - 1
      BY <1>5, VirtualFacts
    <3>2. QED
      BY <1>3, <1>4, <2>1, <3>1, EnterPageFields
  <2>3. DOMAIN s[1] = {"heap", "mmu", "err"} /\ s[1].heap = k.heap /\ s[1].err = -1 /\ s[1].mmu = m
    BY <1>3, <1>8, <2>2 DEF EnterNext
  <2> DEFINE P == {i \in 0 .. size - 1 : s[i + 1] = s[1]}
  <2>4. 0 \in P
    OBVIOUS
  <2>5. \A i \in 0 .. (size - 1) - 1 : i \in P => i + 1 \in P
    <3>1. ASSUME NEW i \in 0 .. (size - 1) - 1, i \in P PROVE i + 1 \in P
      <4>1. i + 2 \in 1 .. size /\ i + 1 \in 0 .. size - 1 /\ (i + 1) + 1 = i + 2 /\ (i + 2) - 1 = i + 1
        OBVIOUS
      <4>2. s[i + 2] = MapPage(s[i + 1], virt + (i + 1), phy + (i + 1), flags, GFP_KERNEL)
        BY <1>2, <4>1
      <4>3. s[i + 2] = s[i + 1] /\ s[i + 1] = s[1]
        BY <2>3, <3>1, <4>2 DEF MapPage
      <4>4. QED
        BY <4>1, <4>3
    <3>2. QED
      BY <3>1
  <2>6. s[size] = s[1]
    <3>1. size - 1 \in Nat /\ size - 1 \in 0 .. size - 1 /\ (size - 1) + 1 = size
      OBVIOUS
    <3> HIDE DEF P
    <3>2. size - 1 \in P
      BY <2>4, <2>5, <3>1, Climb
    <3>3. QED
      BY <3>1, <3>2 DEF P
  <2> DEFINE w == Walk(s[1].mmu, s[1].err = 0)
  <2>7. u = [s[1] EXCEPT !.mmu = w]
    BY <1>7, <2>6 DEF Flush
  <2>8. w = [m EXCEPT !.tlb = Translations(m) \cup m.tlb]
    BY <2>3 DEF Walk, MmuShape
  <2>9. w.l1 = m.l1 /\ w.l2 = m.l2 /\ w.tlb = Translations(m) \cup m.tlb /\ DOMAIN w = {"l1", "l2", "tlb"}
    BY <2>8 DEF MmuShape
  <2> HIDE DEF w
  <2>10. MmuShape(w)
    BY <2>9 DEF MmuShape
  <2>11. u.mmu = w /\ u.heap = k.heap /\ u.err = -1
    BY <2>3, <2>7 DEF w
  <2>12. QED
    BY <1>8, <2>9, <2>10, <2>11 DEF VmMaps, u
<1>9. CASE k.mem # NULL
  <2> DEFINE P == {i \in 0 .. size - 1 : MappedTo(s[i + 1], k, m, e, virt, phy, flags, i + 1)}
  <2>1. 0 \in P
    <3>1. TableOf(start, e, GFP_KERNEL) = k
      BY DEF start
    <3>2. \A v \in Virtual : Entry(start.mmu, v) = IF virt <= v /\ v < virt + 0 THEN SmallPage(phy + (v - virt), flags)
                                                    ELSE Entry(m, v)
      <4>1. \A v \in Virtual : v \in Nat /\ ~(virt <= v /\ v < virt + 0)
        BY VirtualFacts
      <4>2. QED
        BY <1>3, <4>1
    <3>3. virt = virt + 0 /\ phy = phy + 0 /\ 1 = 0 + 1
      OBVIOUS
    <3>4. Ready(start, k, m, e, virt, phy, flags, 0)
      BY <1>3, <1>4, <1>9, <3>2 DEF Ready
    <3>5. MappedTo(MapPage(start, virt, phy, flags, GFP_KERNEL), k, m, e, virt, phy, flags, 1)
      BY <1>5, <1>9, <3>1, <3>3, <3>4, MapPageStep
    <3>6. QED
      BY <1>6, <3>3, <3>5
  <2>2. \A i \in 0 .. (size - 1) - 1 : i \in P => i + 1 \in P
    <3>1. ASSUME NEW i \in 0 .. (size - 1) - 1, i \in P PROVE i + 1 \in P
      <4> DEFINE n == i + 1
      <4>1. /\ n + 1 \in 1 .. size /\ n \in 0 .. size - 1 /\ (n + 1) - 1 = n /\ n \in Nat
            /\ virt + n \in virt .. virt + size - 1
        OBVIOUS
      <4>2. s[n + 1] = MapPage(s[n], virt + n, phy + n, flags, GFP_KERNEL)
        BY <1>2, <4>1
      <4>3. MappedTo(s[n], k, m, e, virt, phy, flags, n)
        BY <3>1
      <4> HIDE DEF n
      <4>4. s[n].mmu.l1[e] = k.mem /\ s[n].heap = k.heap
        BY <4>3 DEF MappedTo
      <4> DEFINE j == [heap |-> k.heap, mem |-> k.mem]
      <4>5. TableOf(s[n], e, GFP_KERNEL) = j
        BY <1>9, <4>4 DEF TableOf
      <4>6. virt + n \in Virtual /\ (virt + n) \div L2_ENTRIES = e
        BY <4>1
      <4>7. j.heap = k.heap /\ j.mem = k.mem
        OBVIOUS
      <4> HIDE DEF j
      <4>8. Ready(s[n], j, m, e, virt, phy, flags, n)
        BY <1>9, <4>3, <4>7 DEF Ready, MappedTo
      <4>9. MappedTo(s[n + 1], j, m, e, virt, phy, flags, n + 1)
        BY <1>9, <4>1, <4>2, <4>5, <4>6, <4>7, <4>8, MapPageStep
      <4>10. MappedTo(s[n + 1], k, m, e, virt, phy, flags, n + 1)
        BY <4>7, <4>9 DEF MappedTo
      <4>11. QED
        BY <4>1, <4>10 DEF n
    <3>2. QED
      BY <3>1
  <2>3. MappedTo(s[size], k, m, e, virt, phy, flags, size)
    <3>1. size - 1 \in Nat /\ size - 1 \in 0 .. size - 1 /\ (size - 1) + 1 = size
      OBVIOUS
    <3> HIDE DEF P
    <3>2. size - 1 \in P
      BY <2>1, <2>2, <3>1, Climb
    <3>3. QED
      BY <3>1, <3>2 DEF P
  <2> HIDE DEF P
  <2> DEFINE n == s[size]
             w == Walk(n.mmu, TRUE)
  <2>4. u = [n EXCEPT !.mmu = w]
    BY <1>7, <2>3 DEF Flush, MappedTo
  <2>5. MmuShape(n.mmu) /\ DOMAIN n = {"heap", "mmu", "err"} /\ n.heap = k.heap /\ n.err = 0
    BY <2>3 DEF MappedTo
  <2>6. w.l1 = n.mmu.l1 /\ w.l2 = n.mmu.l2 /\ w.tlb = Translations(n.mmu) /\ DOMAIN w = {"l1", "l2", "tlb"}
    BY <2>5 DEF Walk, MmuShape
  <2> HIDE DEF w
  <2>7. u.mmu = w /\ u.heap = k.heap /\ u.err = 0
    BY <2>4, <2>5
  <2>8. MmuShape(w)
    BY <2>5, <2>6 DEF MmuShape
  <2>9. \A v \in Virtual : Entry(w, v) = Entry(n.mmu, v)
    BY <2>6 DEF Entry
  <2>10. w.tlb = Translations(w)
    BY <2>6, <2>9, SameTranslations
  <2>11. /\ w.l1[e] = k.mem
         /\ \A f \in 0 .. L1_ENTRIES - 1 : f # e => w.l1[f] = m.l1[f]
         /\ \A v \in Virtual :
              Entry(w, v) = IF virt <= v /\ v < virt + size THEN SmallPage(phy + (v - virt), flags)
                            ELSE Entry(m, v)
    <3>1. /\ n.mmu.l1[e] = k.mem
          /\ \A f \in 0 .. L1_ENTRIES - 1 : f # e => n.mmu.l1[f] = m.l1[f]
          /\ \A v \in Virtual :
               Entry(n.mmu, v) = IF virt <= v /\ v < virt + size THEN SmallPage(phy + (v - virt), flags)
                                 ELSE Entry(m, v)
      BY <2>3, Zenon DEF MappedTo
    <3> HIDE DEF n
    <3>2. QED
      BY <2>6, <2>9, <3>1, Zenon
  <2>12. QED
    BY <1>9, <2>7, <2>8, <2>10, <2>11 DEF VmMaps, u
<1>10. QED
  BY <1>8, <1>9

-----------------------------------------------------------------------------
(* Who has what.                                                             *)

LEMMA OutAt ==
  ASSUME NEW h, NEW out, Out(h, out)
  PROVE  /\ \A o \in out : <<PoolOf(o.size), o.mem>> \in Marked(h)
         /\ \A x \in Marked(h) : \E o \in out : x = <<PoolOf(o.size), o.mem>>
BY DEF Out

\* A chunk is given out ...
LEMMA OutAdd ==
  ASSUME NEW h, NEW g, NEW out, Out(h, out), NEW a \in Address, NEW size \in Nat,
         PoolFor(size) # {}, \A x \in Marked(h) : x[2] # a,
         Marked(g) = Marked(h) \cup {<<PoolOf(size), a>>},
         NEW n, n = [mem |-> a, size |-> size]
  PROVE  Out(g, out \cup {n}) /\ \A o \in out : o.mem # a
<1>1. n.mem = a /\ n.size = size /\ n \in [mem : Address, size : Nat]
  OBVIOUS
<1>2. ASSUME NEW o \in out PROVE o.mem # a
  <2>1. <<PoolOf(o.size), o.mem>> \in Marked(h) /\ <<PoolOf(o.size), o.mem>>[2] = o.mem
    BY OutAt
  <2>2. QED
    BY <2>1
<1>3. Marked(g) = {<<PoolOf(o.size), o.mem>> : o \in out \cup {n}}
  <2>1. Marked(h) = {<<PoolOf(o.size), o.mem>> : o \in out}
    BY DEF Out
  <2>2. QED
    BY <1>1, <2>1
<1>4. \A o \in out \cup {n} : o \in [mem : Address, size : Nat] /\ PoolFor(o.size) # {}
  BY <1>1 DEF Out
<1>5. \A o, q \in out \cup {n} : o.mem = q.mem => o = q
  <2>1. \A o, q \in out : o.mem = q.mem => o = q
    BY DEF Out
  <2>2. QED
    BY <1>1, <1>2, <2>1
<1>6. QED
  BY <1>2, <1>3, <1>4, <1>5 DEF Out

\* ... and taken back.
LEMMA OutRemove ==
  ASSUME NEW h, NEW out, Out(h, out), NEW o \in out
  PROVE  /\ o.mem \in Address /\ <<PoolOf(o.size), o.mem>> \in Marked(h)
         /\ \A x \in Marked(h) : x[2] = o.mem => x = <<PoolOf(o.size), o.mem>>
         /\ \A g : Marked(g) = Marked(h) \ {<<PoolOf(o.size), o.mem>>} => Out(g, out \ {o})
<1>1. o.mem \in Address /\ <<PoolOf(o.size), o.mem>> \in Marked(h)
  BY OutAt DEF Out
<1>2. ASSUME NEW x \in Marked(h), x[2] = o.mem PROVE x = <<PoolOf(o.size), o.mem>>
  <2>1. PICK q \in out : x = <<PoolOf(q.size), q.mem>>
    BY OutAt
  <2>2. q = o
    BY <1>2, <2>1 DEF Out
  <2>3. QED
    BY <2>1, <2>2
<1>3. ASSUME NEW g, Marked(g) = Marked(h) \ {<<PoolOf(o.size), o.mem>>} PROVE Out(g, out \ {o})
  <2>1. ASSUME NEW q \in out, q # o PROVE <<PoolOf(q.size), q.mem>> # <<PoolOf(o.size), o.mem>>
    <3>1. q.mem # o.mem
      BY <2>1 DEF Out
    <3>2. QED
      BY <3>1
  <2>2. \A x : x \in Marked(h) <=> \E q \in out : x = <<PoolOf(q.size), q.mem>>
    BY OutAt
  <2>3. \A x : x \in Marked(g) <=> x \in Marked(h) /\ x # <<PoolOf(o.size), o.mem>>
    BY <1>3
  <2>4. Marked(g) = {<<PoolOf(q.size), q.mem>> : q \in out \ {o}}
    <3>1. ASSUME NEW x \in Marked(g) PROVE \E q \in out \ {o} : x = <<PoolOf(q.size), q.mem>>
      BY <2>2, <2>3, <3>1
    <3>2. ASSUME NEW q \in out \ {o} PROVE <<PoolOf(q.size), q.mem>> \in Marked(g)
      BY <2>1, <2>2, <2>3
    <3>3. QED
      BY <3>1, <3>2
  <2>5. QED
    BY <2>4 DEF Out
<1>4. QED
  BY <1>1, <1>2, <1>3

\* A chunk's page is managed.
LEMMA MarkedManaged ==
  ASSUME NEW h, HeapInv(h, {}), NEW x \in Marked(h)
  PROVE  x[2].page \in Managed(h) /\ x[2].page \in SlabPagesOf(h)
<1>1. PICK c \in DOMAIN h.caches : \E s \in SlabsOf(h, c) : x \in ChunksOf(h, c, s)
  BY MarkedAt
<1>2. PICK s \in SlabsOf(h, c) : x \in ChunksOf(h, c, s)
  BY <1>1
<1>3. PICK b \in h.slab[s].bitmap : x = <<c, [page |-> h.slab[s].page, offset |-> b * chunk_size[c]]>>
  BY <1>2, ChunkAt
<1>4. s \in DOMAIN h.slab /\ h.slab[s].page # NULL
  BY <1>2, <1>3, ListedSlab DEF HeapInv, PagesOnce
<1>5. x[2].page = h.slab[s].page
  BY <1>3
<1>6. QED
  BY <1>4, <1>5 DEF SlabPagesOf, Managed

-----------------------------------------------------------------------------
(* The heap's part of each call.                                             *)

LEMMA KmallocSound ==
  ASSUME NEW begin, NEW h, NEW m, NEW O, NEW S, NEW D, Sound(begin, h, m, O, S, D),
         NEW size \in Nat, NEW k, Mallocs(h, k, size), NEW n, n = [mem |-> k.mem, size |-> size]
  PROVE  Sound(begin, k.heap, m, IF k.mem = NULL THEN O ELSE O \cup {n}, S, D)
<1> USE DEF Sound
<1>2. HeapInv(k.heap, {}) /\ PagesInv(begin, k.heap, S)
  BY DEF Mallocs, PagesInv
<1>3. CASE k.mem = NULL
  <2>1. Marked(k.heap) = Marked(h)
    BY <1>3 DEF Mallocs
  <2>2. Owners(k.heap, m, O)
    BY <2>1 DEF Owners, Out
  <2>3. QED
    BY <1>2, <1>3, <2>2
<1>4. CASE k.mem # NULL
  <2> DEFINE T == MadeTables(m)
  <2>1. /\ k.mem \in Address /\ PoolFor(size) # {} /\ \A x \in Marked(h) : x[2] # k.mem
        /\ Marked(k.heap) = Marked(h) \cup {<<PoolOf(size), k.mem>>}
    BY <1>4 DEF Mallocs
  <2>2. Out(h, O \cup T) /\ O \cap T = {}
    BY DEF Owners
  <2> HIDE DEF T
  <2>3. Out(k.heap, (O \cup T) \cup {n}) /\ \A o \in O \cup T : o.mem # k.mem
    BY <2>1, <2>2, OutAdd
  <2>4. (O \cup T) \cup {n} = (O \cup {n}) \cup T
    OBVIOUS
  <2>5. (O \cup {n}) \cap T = {}
    <3>1. n.mem = k.mem
      OBVIOUS
    <3>2. QED
      BY <2>2, <2>3, <3>1
  <2>6. Owners(k.heap, m, O \cup {n})
    BY <2>3, <2>4, <2>5 DEF Owners, T
  <2>7. QED
    BY <1>2, <1>4, <2>6
<1>5. QED
  BY <1>3, <1>4

LEMMA KfreeSound ==
  ASSUME NEW begin, NEW h, NEW m, NEW O, NEW S, NEW D, Sound(begin, h, m, O, S, D), NEW o \in O
  PROVE  Sound(begin, kfree(h, o.mem).heap, m, O \ {o}, S, D)
<1> USE DEF Sound
<1> DEFINE g == kfree(h, o.mem).heap
           T == MadeTables(m)
           x == <<PoolOf(o.size), o.mem>>
<1>1. Out(h, O \cup T) /\ O \cap T = {}
  BY DEF Owners
<1>2. /\ o.mem \in Address /\ <<PoolOf(o.size), o.mem>> \in Marked(h)
      /\ \A y \in Marked(h) : y[2] = o.mem => y = <<PoolOf(o.size), o.mem>>
      /\ \A f : Marked(f) = Marked(h) \ {<<PoolOf(o.size), o.mem>>} => Out(f, (O \cup T) \ {o})
  <2> HIDE DEF T
  <2>1. o \in O \cup T
    OBVIOUS
  <2>2. QED
    BY <1>1, <2>1, OutRemove
<1>3. HeapInv(g, {}) /\ Managed(g) = Managed(h) /\ Marked(g) = Marked(h) \ {<<PoolOf(o.size), o.mem>>}
  BY <1>2, KfreeSpec
<1> HIDE DEF g
<1>4. (O \cup T) \ {o} = (O \ {o}) \cup T
  BY <1>1
<1>5. Owners(g, m, O \ {o})
  BY <1>1, <1>2, <1>3, <1>4 DEF Owners
<1>6. PagesInv(begin, g, S)
  BY <1>3 DEF PagesInv
<1>7. QED
  BY <1>3, <1>5, <1>6 DEF g

LEMMA KfreeAgainSound ==
  ASSUME NEW begin, NEW h, NEW m, NEW O, NEW S, NEW D, Sound(begin, h, m, O, S, D),
         NEW a, a \in [page : SlabPagesOf(h), offset : 0 .. PAGE_SIZE - 1],
         \A o \in O : o.mem # a, a \notin Range(m.l1)
  PROVE  kfree(h, a).heap = h
<1> USE DEF Sound
<1>1. Out(h, O \cup MadeTables(m))
  BY DEF Owners
<1>2. \A o \in O \cup MadeTables(m) : o.mem # a
  BY DEF MadeTables, Range
<1>3. ASSUME NEW x \in Marked(h) PROVE x[2] # a
  <2>1. PICK o \in O \cup MadeTables(m) : x = <<PoolOf(o.size), o.mem>>
    BY <1>1, OutAt
  <2>2. QED
    BY <1>2, <2>1
<1>4. a \in Address
  <2>1. SlabPagesOf(h) \subseteq Ram
    BY ShapeFacts DEF SlabPagesOf, HeapInv
  <2>2. 0 .. PAGE_SIZE - 1 \subseteq Nat
    OBVIOUS
  <2>3. QED
    BY <2>1, <2>2 DEF Address
<1>5. QED
  BY <1>3, <1>4, KfreeRefused

\* A heap with the same slabs in the same lists, whatever its pages.
LEMMA SameSlabs ==
  ASSUME NEW h, HeapInv(h, {}), NEW g, g.caches = h.caches, g.slab = h.slab
  PROVE  Listed(g) /\ Marks(g, {}) /\ Counted(g)
<1>1. \A c, k : In(g, c, k) = In(h, c, k)
  BY Zenon DEF In
<1>2. Listed(h) /\ Marks(h, {}) /\ Counted(h)
  BY Zenon DEF HeapInv
<1>3. Listed(g)
  BY <1>1, <1>2 DEF Listed
<1>4. Marks(g, {})
  BY <1>1, <1>2 DEF Marks
<1>5. Counted(g)
  BY <1>2 DEF Counted
<1>6. QED
  BY <1>3, <1>4, <1>5

\* A page leaves the allocator and comes back.
LEMMA StackAllocSound ==
  ASSUME NEW begin, NEW h, NEW m, NEW O, NEW S, NEW D, Sound(begin, h, m, O, S, D), h.pages # {}
  PROVE  Sound(begin, TakePage(h), m, O, S \cup {Lowest(h.pages)}, D)
<1> USE DEF Sound
<1> DEFINE g == TakePage(h)
           p == Lowest(h.pages)
<1>1. p \in h.pages /\ p # NULL
  <2>1. h.pages \subseteq Nat /\ NULL \notin Nat
    BY ShapeFacts, PageNotNull DEF HeapInv
  <2>2. QED
    BY <2>1, LowestOf
<1>2. /\ DOMAIN g = {"pages", "caches", "slab"} /\ g.pages = h.pages \ {p}
      /\ g.caches = h.caches /\ g.slab = h.slab
  BY TakePageFields DEF HeapInv, Shape
<1> HIDE DEF g, p
<1>3. HeapInv(g, {})
  <2>1. Shape(g)
    BY <1>2 DEF HeapInv, Shape
  <2>2. Listed(g) /\ Marks(g, {}) /\ Counted(g)
    BY <1>2, SameSlabs, Zenon
  <2>3. PagesOnce(g, {})
    <3>1. PagesOnce(h, {}) /\ g.slab = h.slab /\ \A q : q \notin h.pages => q \notin g.pages
      BY <1>2 DEF HeapInv
    <3>2. QED
      BY <3>1 DEF PagesOnce
  <2>4. QED
    BY <2>1, <2>2, <2>3 DEF HeapInv
<1>4. Marked(g) = Marked(h)
  BY <1>2 DEF Marked, SlabsOf, ChunksOf, In
<1>5. DescriptorsOf(g) = DescriptorsOf(h) /\ SlabPagesOf(g) = SlabPagesOf(h)
  BY <1>2 DEF DescriptorsOf, SlabPagesOf
<1>6. p \notin DescriptorsOf(h) /\ p \notin SlabPagesOf(h)
  BY <1>1 DEF HeapInv, PagesOnce, DescriptorsOf, SlabPagesOf
<1>7. Managed(g) = Managed(h) \ {p} /\ p \in Managed(h)
  BY <1>1, <1>2, <1>5, <1>6 DEF Managed
<1>8. PagesInv(begin, g, S \cup {p})
  BY <1>7 DEF PagesInv
<1>9. Owners(g, m, O)
  BY <1>4 DEF Owners, Out
<1>10. QED
  BY <1>3, <1>8, <1>9 DEF g, p

LEMMA StackFreeSound ==
  ASSUME NEW begin, NEW h, NEW m, NEW O, NEW S, NEW D, Sound(begin, h, m, O, S, D), NEW p \in S
  PROVE  Sound(begin, GivePage(h, p), m, O, S \ {p}, D)
<1> USE DEF Sound
<1> DEFINE g == GivePage(h, p)
<1>1. /\ DOMAIN g = {"pages", "caches", "slab"} /\ g.pages = h.pages \cup {p}
      /\ g.caches = h.caches /\ g.slab = h.slab
  BY GivePageFields DEF HeapInv, Shape
<1>2. p \in Ram /\ p # NULL /\ p \notin Managed(h)
  <2>1. p \in FirstPage(begin) + 1 .. RamEnd - 1 /\ p \notin Managed(h)
    BY DEF PagesInv
  <2>2. FirstPage(begin) \in Ram
    BY KernelMemoryAssumption
  <2>3. p \in Ram
    BY <2>1, <2>2, KernelMemoryAssumption DEF Ram, RamEnd
  <2>4. QED
    BY <2>1, <2>3, PageNotNull
<1> HIDE DEF g
<1>3. \A s \in DOMAIN h.slab : s.page # p /\ h.slab[s].page # p
  BY <1>2 DEF Managed, DescriptorsOf, SlabPagesOf
<1>4. HeapInv(g, {})
  <2>1. Shape(g)
    BY <1>1, <1>2 DEF HeapInv, Shape
  <2>2. Listed(g) /\ Marks(g, {}) /\ Counted(g)
    BY <1>1, SameSlabs, Zenon
  <2>3. PagesOnce(g, {})
    <3>1. PagesOnce(h, {}) /\ g.slab = h.slab
      BY <1>1 DEF HeapInv
    <3>2. \A s \in DOMAIN h.slab : s.page \notin g.pages /\ h.slab[s].page \notin g.pages
      BY <1>1, <1>3, <3>1 DEF PagesOnce
    <3>3. QED
      BY <3>1, <3>2, Zenon DEF PagesOnce
  <2>4. QED
    BY <2>1, <2>2, <2>3 DEF HeapInv
<1>5. Marked(g) = Marked(h)
  BY <1>1 DEF Marked, SlabsOf, ChunksOf, In
<1>6. DescriptorsOf(g) = DescriptorsOf(h) /\ SlabPagesOf(g) = SlabPagesOf(h)
  BY <1>1 DEF DescriptorsOf, SlabPagesOf
<1>7. Managed(g) = Managed(h) \cup {p}
  BY <1>1, <1>6 DEF Managed
<1>8. PagesInv(begin, g, S \ {p})
  BY <1>2, <1>7 DEF PagesInv
<1>9. Owners(g, m, O)
  BY <1>5 DEF Owners, Out
<1>10. QED
  BY <1>4, <1>8, <1>9 DEF g

-----------------------------------------------------------------------------
(* The tables.                                                               *)

LEMMA QuarterFacts ==
  L2_PER_PAGE \in Nat \ {0} /\ L2_SIZE \in Nat \ {0} /\ PAGE_SIZE = L2_SIZE * L2_PER_PAGE
<1> DEFINE q == L2_PER_PAGE
<1>1. L2_SIZE \in Nat \ {0} /\ PAGE_SIZE \in Nat \ {0} /\ PAGE_SIZE % L2_SIZE = 0
  BY KernelMemoryAssumption, MemCacheAssumption
<1>2. q \in Nat /\ PAGE_SIZE = L2_SIZE * q + 0
  BY <1>1, DivMod DEF L2_PER_PAGE
<1> HIDE DEF q
<1>3. q # 0
  BY <1>1, <1>2
<1>4. QED
  BY <1>1, <1>2, <1>3 DEF q

\* The first-level entries of memory are a row.
LEMMA RamEntriesFacts ==
  /\ Lowest(RamEntries) \in RamEntries /\ RamEntries \subseteq 0 .. L1_ENTRIES - 1
  /\ IsFiniteSet(RamEntries) /\ Cardinality(RamEntries) \in Nat \ {0}
  /\ \A e \in RamEntries :
       e - Lowest(RamEntries) \in Nat /\ e - Lowest(RamEntries) < Cardinality(RamEntries)
  /\ \A v \in Ram : v \div L2_ENTRIES \in RamEntries
<1> DEFINE d == L2_ENTRIES
           first == PHYSICAL_MEMORY_BASE_ADDRESS
           end == RamEnd - 1
           a == first \div d
           b == end \div d
<1>1. d \in Nat \ {0} /\ first \in Nat /\ end \in Nat /\ first <= end /\ Ram = first .. end
  BY KernelMemoryAssumption DEF Ram, RamEnd
<1>2. RamEntries = a .. b
  BY KernelMemoryAssumption DEF RamEntries, L1Entries, RamEnd
<1> HIDE DEF first, end
<1>3. a \in Nat /\ b \in Nat
  BY <1>1, DivMod, Zenon
<1>4. ASSUME NEW x \in Nat, NEW y \in Nat, x <= y PROVE x \div d <= y \div d
  <2> DEFINE i == x \div d
             j == y \div d
             r == x % d
             s == y % d
  <2>1. i \in Nat /\ j \in Nat /\ r \in 0 .. d - 1 /\ s \in 0 .. d - 1 /\ x = d * i + r /\ y = d * j + s
    BY <1>1, DivMod
  <2> HIDE DEF i, j, r, s
  <2>2. ASSUME j < i PROVE FALSE
    <3>1. d * (j + 1) <= d * i
      BY <1>1, <2>1, <2>2
    <3>2. d * (j + 1) = d * j + d
      BY <1>1, <2>1
    <3>3. QED
      BY <1>1, <1>4, <2>1, <3>1, <3>2
  <2>3. QED
    BY <2>1, <2>2 DEF i, j
<1>5. a <= b
  BY <1>1, <1>4
<1>6. \A v \in Ram : v \div d \in a .. b
  <2>1. ASSUME NEW v \in first .. end PROVE v \div d \in a .. b
    <3>1. v \in Nat /\ first <= v /\ v <= end
      BY <1>1
    <3>2. v \div d \in Nat /\ a <= v \div d /\ v \div d <= b
      BY <1>1, <1>4, <3>1, DivMod
    <3>3. QED
      BY <1>3, <3>2
  <2>2. QED
    BY <1>1, <2>1
<1>7. b \in 0 .. L1_ENTRIES - 1
  <2>1. end \in Virtual
    BY <1>1, KernelMemoryAssumption
  <2>2. QED
    BY <2>1, VirtualFacts
<1> HIDE DEF a, b
<1>8. IsFiniteSet(a .. b) /\ Cardinality(a .. b) = b - a + 1
  BY <1>3, <1>5, FS_Interval
<1>9. Lowest(a .. b) = a
  <2>1. a .. b \in SUBSET Nat /\ a \in a .. b
    BY <1>3, <1>5
  <2>2. Lowest(a .. b) \in a .. b /\ \A y \in a .. b : Lowest(a .. b) <= y
    BY <2>1, LowestOf
  <2>3. QED
    BY <1>3, <2>1, <2>2
<1>10. \A v \in Ram : v \div L2_ENTRIES \in RamEntries
  BY <1>2, <1>6, Zenon DEF d
<1>11. RamEntries \subseteq 0 .. L1_ENTRIES - 1 /\ Lowest(RamEntries) = a /\ a \in RamEntries
  <2>1. L1_ENTRIES \in Nat
    BY KernelMemoryAssumption
  <2>2. a .. b \subseteq 0 .. L1_ENTRIES - 1 /\ a \in a .. b
    BY <1>3, <1>5, <1>7, <2>1
  <2>3. QED
    BY <1>2, <1>9, <2>2
<1>12. IsFiniteSet(RamEntries) /\ Cardinality(RamEntries) = b - a + 1 /\ b - a + 1 \in Nat \ {0}
  BY <1>2, <1>3, <1>5, <1>8
<1>13. \A e \in RamEntries : e - a \in Nat /\ e - a < b - a + 1
  BY <1>2, <1>3, <1>5
<1>14. QED
  BY <1>10, <1>11, <1>12, <1>13

\* A table made at boot is in the pages taken for them.
LEMMA BootTableFacts ==
  ASSUME NEW base \in Nat, NEW n \in Nat \ {0}, NEW i \in Nat, i < n
  PROVE  LET t == BootTable(base, i)
         IN  /\ t \in [page : Nat, offset : Nat] /\ t # NULL
             /\ t.page \in base .. base + BootTablePages(n) - 1
             /\ t.offset \in Nat /\ t.offset + L2_SIZE <= PAGE_SIZE
<1> DEFINE q == L2_PER_PAGE
           t == BootTable(base, i)
           a == i \div q
           r == i % q
           b == (n + q - 1) \div q
           s == (n + q - 1) % q
<1>1. q \in Nat \ {0} /\ L2_SIZE \in Nat \ {0} /\ PAGE_SIZE = L2_SIZE * q
  BY QuarterFacts
<1>2. a \in Nat /\ r \in 0 .. q - 1 /\ i = q * a + r
  BY <1>1, DivMod
<1>3. b \in Nat /\ s \in 0 .. q - 1 /\ n + q - 1 = q * b + s
  <2> DEFINE x == n + q - 1
  <2>1. x \in Nat
    BY <1>1
  <2> HIDE DEF x
  <2>2. x \div q \in Nat /\ x % q \in 0 .. q - 1 /\ x = q * (x \div q) + (x % q)
    BY <1>1, <2>1, DivMod
  <2>3. QED
    BY <2>2 DEF x
<1>4. t.page = base + a /\ t.offset = r * L2_SIZE /\ t = [page |-> t.page, offset |-> t.offset]
  BY DEF BootTable
<1>5. BootTablePages(n) = b
  BY DEF BootTablePages
<1> HIDE DEF q, a, r, b, s, t
<1>6. a < b
  <2>1. ASSUME b <= a PROVE FALSE
    <3>1. q * b <= q * a
      BY <1>1, <1>2, <1>3, <2>1
    <3>2. QED
      BY <1>1, <1>2, <1>3, <3>1
  <2>2. QED
    BY <1>2, <1>3, <2>1
<1>7. r * L2_SIZE \in Nat /\ r * L2_SIZE + L2_SIZE <= L2_SIZE * q
  <2>1. (r + 1) * L2_SIZE <= q * L2_SIZE
    BY <1>1, <1>2
  <2>2. QED
    BY <1>1, <1>2, <2>1
<1>8. t.page \in base .. base + b - 1 /\ t.offset \in Nat /\ t.offset + L2_SIZE <= PAGE_SIZE /\ t.page \in Nat
  BY <1>1, <1>2, <1>3, <1>4, <1>6, <1>7
<1>9. t \in [page : Nat, offset : Nat]
  BY <1>4, <1>8
<1>10. QED
  BY <1>5, <1>8, <1>9, MemCacheAssumption DEF t

\* Two tables are apart.
LEMMA BootTablesApart ==
  ASSUME NEW base \in Nat, NEW i \in Nat, NEW j \in Nat,
         NEW x \in 0 .. L2_SIZE - 1, NEW y \in 0 .. L2_SIZE - 1,
         BootTable(base, i).page = BootTable(base, j).page,
         BootTable(base, i).offset + x = BootTable(base, j).offset + y
  PROVE  i = j
<1> DEFINE q == L2_PER_PAGE
           a == i % q
           b == j % q
<1>1. q \in Nat \ {0} /\ L2_SIZE \in Nat \ {0}
  BY QuarterFacts
<1>2. a \in 0 .. q - 1 /\ b \in 0 .. q - 1 /\ i \div q \in Nat /\ j \div q \in Nat
  BY <1>1, DivMod
<1>3. /\ BootTable(base, i).page = base + i \div q /\ BootTable(base, i).offset = a * L2_SIZE
      /\ BootTable(base, j).page = base + j \div q /\ BootTable(base, j).offset = b * L2_SIZE
  BY DEF BootTable
<1>4. i \div q = j \div q
  <2> DEFINE u == i \div q
             w == j \div q
  <2>1. u \in Nat /\ w \in Nat /\ base + u = base + w
    BY <1>2, <1>3, Zenon
  <2> HIDE DEF u, w
  <2>2. u = w
    BY <2>1
  <2>3. QED
    BY <2>2 DEF u, w
<1> HIDE DEF a, b
<1>5. a * L2_SIZE + x = b * L2_SIZE + y
  BY <1>3
<1>6. a = b
  <2>1. a \in Nat /\ b \in Nat
    BY <1>1, <1>2
  <2>2. QED
    BY <1>1, <1>5, <2>1, ChunkApart
<1> HIDE DEF q
<1>7. QED
  BY <1>1, <1>4, <1>6, SamePage DEF a, b, q

-----------------------------------------------------------------------------
(* Devices.                                                                  *)

LEMMA RegionFacts ==
  ASSUME NEW r \in Regions
  PROVE  /\ r.page \in Nat /\ r.size \in Nat \ {0} /\ r.page \div L2_ENTRIES \in 0 .. L1_ENTRIES - 1
         /\ r.page .. r.page + r.size - 1 \subseteq Virtual
         /\ \A v \in r.page .. r.page + r.size - 1 : v \div L2_ENTRIES = r.page \div L2_ENTRIES
         /\ \A v \in Virtual : v \in Region(r) <=> r.page <= v /\ v < r.page + r.size
         /\ \A v \in Region(r) : v \notin Ram
         /\ \A q \in Regions : q # r => \A v \in Region(r) : v \notin Region(q)
<1>1. /\ r.page \in Nat /\ r.size \in Nat \ {0} /\ Region(r) \subseteq Virtual /\ Region(r) \cap Ram = {}
      /\ r.page \div L2_ENTRIES = (r.page + r.size - 1) \div L2_ENTRIES
      /\ \A q \in Regions : q # r => Region(q) \cap Region(r) = {}
  BY KernelMemoryAssumption
<1> DEFINE x == r.page
           n == r.size
           z == x + n - 1
<1>2. x \in Nat /\ n \in Nat \ {0} /\ z \in Nat /\ L2_ENTRIES \in Nat \ {0}
  <2>1. x \in Nat /\ n \in Nat \ {0} /\ L2_ENTRIES \in Nat \ {0}
    BY <1>1, KernelMemoryAssumption, Zenon
  <2> HIDE DEF x, n
  <2>2. QED
    BY <2>1
<1>3. x \div L2_ENTRIES = z \div L2_ENTRIES /\ Region(r) = x .. z
  BY <1>1 DEF Region
<1>4. x .. z \subseteq Virtual /\ x \in x .. z
  <2>1. x .. z \subseteq Virtual
    BY <1>1, <1>3, Zenon
  <2>2. x <= z
    <3> HIDE DEF x, n
    <3>1. QED
      BY <1>2 DEF z
  <2> HIDE DEF x, n, z
  <2>3. QED
    BY <1>2, <2>1, <2>2
<1>5. x \div L2_ENTRIES \in 0 .. L1_ENTRIES - 1
  BY <1>4, VirtualFacts
<1> HIDE DEF z
<1>6. ASSUME NEW v \in x .. z PROVE v \div L2_ENTRIES = x \div L2_ENTRIES
  <2>1. v \in Nat /\ x <= v /\ v <= z
    BY <1>2
  <2> HIDE DEF x
  <2>2. QED
    BY <1>2, <1>3, <2>1, Between
<1>7. \A v \in Virtual : v \in Region(r) <=> x <= v /\ v < x + n
  <2>1. \A v \in Virtual : v \in Nat
    BY VirtualFacts
  <2>2. \A v \in Nat : v \in x .. z <=> x <= v /\ v < x + n
    BY <1>2 DEF z
  <2>3. QED
    BY <1>3, <2>1, <2>2
<1>8. QED
  BY <1>1, <1>2, <1>4, <1>5, <1>6, <1>7 DEF x, n, z

\* What booting takes lies in a row.
LEMMA BootAddresses ==
  ASSUME NEW begin \in HeapBegins
  PROVE  /\ begin \in Nat /\ begin \in Ram /\ FirstPage(begin) \in Ram /\ FirstPage(begin) \in Nat
         /\ RootAt(begin) \in Nat \ {0} /\ TablesAt(begin) \in Nat /\ BitmapsAt(begin) \in Nat
         /\ BootTablePages(Cardinality(RamEntries)) \in Nat
         /\ TablesAt(begin) = begin + RootAt(begin) + ROOT_PAGES
         /\ BitmapsAt(begin) = TablesAt(begin) + BootTablePages(Cardinality(RamEntries))
         /\ FirstPage(begin) = BitmapsAt(begin) + BITMAP_PAGES
<1>1. begin \in Ram /\ begin \in Nat /\ FirstPage(begin) \in Ram /\ FirstPage(begin) \in Nat
  BY KernelMemoryAssumption, PageNotNull
<1>2. RootAt(begin) \in Nat \ {0}
  <2> DEFINE x == (-(begin + 1)) % ROOT_PAGES
  <2>1. x \in Nat
    BY <1>1, KernelMemoryAssumption
  <2>2. RootAt(begin) = 1 + x
    BY DEF RootAt, AlignBoot
  <2> HIDE DEF x
  <2>3. QED
    BY <2>1, <2>2
<1>3. TablesAt(begin) \in Nat /\ TablesAt(begin) = begin + RootAt(begin) + ROOT_PAGES
  BY <1>1, <1>2, KernelMemoryAssumption DEF TablesAt, BootBase
<1>4. BootTablePages(Cardinality(RamEntries)) \in Nat
  <2>1. Cardinality(RamEntries) + L2_PER_PAGE - 1 \in Nat /\ L2_PER_PAGE \in Nat \ {0}
    BY RamEntriesFacts, QuarterFacts
  <2>2. QED
    BY <2>1, DivMod DEF BootTablePages
<1>5. /\ BitmapsAt(begin) = TablesAt(begin) + BootTablePages(Cardinality(RamEntries))
      /\ FirstPage(begin) = BitmapsAt(begin) + BITMAP_PAGES
  BY DEF BitmapsAt, FirstPage
<1>6. BitmapsAt(begin) \in Nat
  BY <1>3, <1>4, <1>5
<1>7. QED
  BY <1>1, <1>2, <1>3, <1>4, <1>5, <1>6

\* The tables of memory are there, and of no other pages than booting took for them.
LEMMA RamTables ==
  ASSUME NEW begin \in HeapBegins, NEW m, TablesInv(begin, m), NEW e \in RamEntries
  PROVE  m.l1[e] # NULL /\ m.l1[e].page \in TablesAt(begin) .. BitmapsAt(begin) - 1
<1> DEFINE i == e - Lowest(RamEntries)
           n == Cardinality(RamEntries)
<1>1. i \in Nat /\ n \in Nat \ {0} /\ i < n
  BY RamEntriesFacts
<1> HIDE DEF i, n
<1>2. TablesAt(begin) \in Nat
  BY BootAddresses
<1>3. BitmapsAt(begin) = TablesAt(begin) + BootTablePages(n) /\ BootTablePages(n) \in Nat
  BY BootAddresses DEF n
<1>4. m.l1[e] = BootTable(TablesAt(begin), i)
  BY DEF TablesInv, i
<1> DEFINE t == BootTable(TablesAt(begin), i)
<1>5. t # NULL /\ t.page \in TablesAt(begin) .. TablesAt(begin) + BootTablePages(n) - 1
  BY <1>1, <1>2, BootTableFacts
<1> HIDE DEF t
<1>6. m.l1[e] = t
  BY <1>4 DEF t
<1>7. t.page \in TablesAt(begin) .. BitmapsAt(begin) - 1
  <2>1. TablesAt(begin) + BootTablePages(n) = BitmapsAt(begin)
    BY <1>3
  <2>2. TablesAt(begin) + BootTablePages(n) - 1 = BitmapsAt(begin) - 1
    BY <1>2, <1>3, <2>1
  <2>3. QED
    BY <1>5, <2>2
<1>8. QED
  BY <1>5, <1>6, <1>7

\* The table vm_map has for an entry.
TableGives(h, m, O, e, k) ==
  /\ HeapInv(k.heap, {}) /\ Managed(k.heap) = Managed(h)
  /\ m.l1[e] # NULL => k.mem = m.l1[e]
  /\ (k.mem = NULL \/ m.l1[e] # NULL) => Marked(k.heap) = Marked(h)
  /\ k.mem # NULL =>
       /\ \A f \in 0 .. L1_ENTRIES - 1 : f # e => m.l1[f] # k.mem
       /\ m.l1[e] = NULL =>
            /\ e \notin RamEntries
            /\ Out(k.heap, (O \cup MadeTables(m)) \cup {[mem |-> k.mem, size |-> L2_SIZE]})
            /\ \A o \in O \cup MadeTables(m) : o.mem # k.mem

LEMMA TableSound ==
  ASSUME NEW begin, NEW h, NEW m, NEW O, NEW S, NEW D, Sound(begin, h, m, O, S, D),
         NEW e \in 0 .. L1_ENTRIES - 1
  PROVE  TableGives(h, m, O, e, TableOf([heap |-> h, mmu |-> m, err |-> 0], e, TRUE))
<1> USE DEF Sound
<1> DEFINE k == TableOf([heap |-> h, mmu |-> m, err |-> 0], e, TRUE)
<1>1. /\ begin \in HeapBegins /\ HeapInv(h, {}) /\ Out(h, O \cup MadeTables(m))
      /\ MmuShape(m) /\ TablesInv(begin, m) /\ PagesInv(begin, h, S)
  BY DEF Owners, MmuInv
<1>2. CASE m.l1[e] # NULL
  <2>1. k.heap = h /\ k.mem = m.l1[e]
    BY <1>2 DEF TableOf
  <2> HIDE DEF k
  <2>2. \A f \in 0 .. L1_ENTRIES - 1 : f # e => m.l1[f] # k.mem
    BY <1>1, <1>2, <2>1 DEF TablesInv
  <2>3. QED
    BY <1>1, <1>2, <2>1, <2>2 DEF TableGives, k
<1>3. CASE m.l1[e] = NULL
  <2>1. k = kmalloc(h, L2_SIZE, TRUE)
    BY <1>3 DEF TableOf
  <2> HIDE DEF k
  <2>2. Mallocs(h, k, L2_SIZE)
    BY <1>1, <2>1, KmallocSpec
  <2>3. CASE k.mem = NULL
    BY <1>3, <2>2, <2>3 DEF Mallocs, TableGives, k
  <2>4. CASE k.mem # NULL
    <3> DEFINE out == O \cup MadeTables(m)
               n == [mem |-> k.mem, size |-> L2_SIZE]
    <3>1. /\ k.mem \in Address /\ PoolFor(L2_SIZE) # {} /\ \A x \in Marked(h) : x[2] # k.mem
          /\ Marked(k.heap) = Marked(h) \cup {<<PoolOf(L2_SIZE), k.mem>>}
          /\ HeapInv(k.heap, {}) /\ Managed(k.heap) = Managed(h)
      BY <2>2, <2>4 DEF Mallocs
    <3>2. L2_SIZE \in Nat /\ Out(h, out)
      BY <1>1, KernelMemoryAssumption
    <3>a. n = [mem |-> k.mem, size |-> L2_SIZE]
      OBVIOUS
    <3> HIDE DEF out, n
    <3>3. Out(k.heap, out \cup {n}) /\ \A o \in out : o.mem # k.mem
      BY <3>a, <3>1, <3>2, OutAdd
    <3>4. e \notin RamEntries
      BY <1>1, <1>3, RamTables
    <3>5. k.mem.page \in FirstPage(begin) + 1 .. RamEnd - 1
      <4> DEFINE x == <<PoolOf(L2_SIZE), k.mem>>
      <4>1. x \in Marked(k.heap) /\ x[2] = k.mem
        BY <3>1
      <4> HIDE DEF x
      <4>2. k.mem.page \in Managed(k.heap)
        BY <3>1, <4>1, MarkedManaged
      <4>3. QED
        BY <1>1, <3>1, <4>2 DEF PagesInv
    <3>6. ASSUME NEW f \in 0 .. L1_ENTRIES - 1, f # e, m.l1[f] = k.mem PROVE FALSE
      <4>1. CASE f \in RamEntries
        <5>1. m.l1[f].page \in TablesAt(begin) .. BitmapsAt(begin) - 1
          BY <1>1, <4>1, RamTables
        <5>2. TablesAt(begin) \in Int /\ FirstPage(begin) \in Nat /\ BitmapsAt(begin) \in Int /\ BitmapsAt(begin) <= FirstPage(begin)
          <6>1. BITMAP_PAGES \in Nat
            BY KernelMemoryAssumption
          <6>2. QED
            BY <1>1, <6>1, BootAddresses
        <5>3. QED
          BY <3>5, <3>6, <5>1, <5>2
      <4>2. CASE f \notin RamEntries
        <5> DEFINE t == [mem |-> m.l1[f], size |-> L2_SIZE]
        <5>1. t \in MadeTables(m)
          BY <1>1, <2>4, <3>6, <4>2 DEF MadeTables, MmuShape
        <5>2. t.mem = k.mem
          BY <3>6
        <5>3. QED
          BY <3>3, <5>1, <5>2 DEF out
      <4>3. QED
        BY <4>1, <4>2
    <3>7. QED
      BY <1>3, <2>4, <3>1, <3>3, <3>4, <3>6 DEF TableGives, out, k, n
  <2>5. QED
    BY <2>3, <2>4
<1>4. QED
  BY <1>2, <1>3

\* The tables of devices after a table was entered.
LEMMA MadeTablesStep ==
  ASSUME NEW m, NEW g, MmuShape(m), MmuShape(g), NEW e \in 0 .. L1_ENTRIES - 1, NEW a, a # NULL,
         g.l1[e] = a, \A f \in 0 .. L1_ENTRIES - 1 : f # e => g.l1[f] = m.l1[f]
  PROVE  /\ m.l1[e] = a => MadeTables(g) = MadeTables(m)
         /\ m.l1[e] = NULL /\ e \notin RamEntries =>
              MadeTables(g) = MadeTables(m) \cup {[mem |-> a, size |-> L2_SIZE]}
<1>1. DOMAIN m.l1 = 0 .. L1_ENTRIES - 1 /\ DOMAIN g.l1 = 0 .. L1_ENTRIES - 1
  BY DEF MmuShape
<1>2. /\ \A t : t \in MadeTables(m) <=> \E f \in 0 .. L1_ENTRIES - 1 : f \notin RamEntries /\ m.l1[f] # NULL
                                                /\ t = [mem |-> m.l1[f], size |-> L2_SIZE]
      /\ \A t : t \in MadeTables(g) <=> \E f \in 0 .. L1_ENTRIES - 1 : f \notin RamEntries /\ g.l1[f] # NULL
                                                /\ t = [mem |-> g.l1[f], size |-> L2_SIZE]
  BY <1>1 DEF MadeTables
<1>3. ASSUME m.l1[e] = a PROVE MadeTables(g) = MadeTables(m)
  <2>1. \A f \in 0 .. L1_ENTRIES - 1 : g.l1[f] = m.l1[f]
    BY <1>3
  <2>2. \A t : t \in MadeTables(g) <=> t \in MadeTables(m)
    BY <1>2, <2>1
  <2>3. QED
    BY <2>2
<1>4. ASSUME m.l1[e] = NULL, e \notin RamEntries
      PROVE  MadeTables(g) = MadeTables(m) \cup {[mem |-> a, size |-> L2_SIZE]}
  <2> DEFINE n == [mem |-> a, size |-> L2_SIZE]
  <2>1. ASSUME NEW t \in MadeTables(g) PROVE t \in MadeTables(m) \/ t = n
    BY <1>2, <2>1
  <2>2. ASSUME NEW t \in MadeTables(m) PROVE t \in MadeTables(g)
    BY <1>2, <1>4, <2>2
  <2>3. n \in MadeTables(g)
    BY <1>2, <1>4
  <2>4. QED
    BY <2>1, <2>2, <2>3
<1>5. QED
  BY <1>3, <1>4

\* The tables after some pages of one entry were entered in table a.
LEMMA TablesInvStep ==
  ASSUME NEW begin \in HeapBegins, NEW m, MmuShape(m), TablesInv(begin, m), NEW g, NEW e \in 0 .. L1_ENTRIES - 1,
         NEW a, a # NULL, m.l1[e] # NULL => m.l1[e] = a,
         g.l1[e] = a, \A f \in 0 .. L1_ENTRIES - 1 : f # e => g.l1[f] = m.l1[f],
         \A f \in 0 .. L1_ENTRIES - 1 : f # e => m.l1[f] # a
  PROVE  TablesInv(begin, g)
<1>1. RamEntries \subseteq 0 .. L1_ENTRIES - 1
  BY RamEntriesFacts
<1>2. \A f \in RamEntries : m.l1[f] # NULL
  BY RamTables
<1>3. \A f \in RamEntries : g.l1[f] = m.l1[f]
  BY <1>1, <1>2
<1>4. \A f \in RamEntries : g.l1[f] = BootTable(TablesAt(begin), f - Lowest(RamEntries))
  BY <1>3 DEF TablesInv
<1>5. \A c, d \in 0 .. L1_ENTRIES - 1 : c # d /\ g.l1[c] # NULL => g.l1[c] # g.l1[d]
  <2>1. \A c, d \in 0 .. L1_ENTRIES - 1 : c # d /\ m.l1[c] # NULL => m.l1[c] # m.l1[d]
    BY DEF TablesInv
  <2>2. ASSUME NEW c \in 0 .. L1_ENTRIES - 1, NEW d \in 0 .. L1_ENTRIES - 1, c # d, g.l1[c] # NULL
        PROVE  g.l1[c] # g.l1[d]
    <3>1. CASE c = e
      BY <2>2, <3>1
    <3>2. CASE d = e
      BY <2>2, <3>2
    <3>3. CASE c # e /\ d # e
      BY <2>1, <2>2, <3>3
    <3>4. QED
      BY <3>1, <3>2, <3>3
  <2>3. QED
    BY <2>2
<1>6. QED
  BY <1>4, <1>5 DEF TablesInv

\* The same tables give the same entries.
LEMMA SameMap ==
  ASSUME NEW begin, NEW m, NEW g, NEW D, MmuInv(begin, m, D), MmuShape(g),
         g.l1 = m.l1, g.l2 = m.l2, g.tlb = Translations(m) \cup m.tlb
  PROVE  MmuInv(begin, g, D) /\ MadeTables(g) = MadeTables(m)
<1>1. \A v \in Virtual : Entry(g, v) = Entry(m, v)
  BY DEF Entry
<1>2. Translations(g) = Translations(m)
  BY <1>1, SameTranslations
<1>3. MapInv(g, D)
  BY <1>1, <1>2 DEF MmuInv, MapInv
<1>4. TablesInv(begin, g)
  BY DEF MmuInv, TablesInv
<1>5. QED
  BY <1>3, <1>4 DEF MmuInv, MadeTables

LEMMA DeviceEntered ==
  ASSUME NEW begin, NEW h, NEW m, NEW O, NEW S, NEW D, Sound(begin, h, m, O, S, D),
         NEW r \in Regions, NEW u, NEW k, NEW e, e = r.page \div L2_ENTRIES,
         TableGives(h, m, O, e, k), VmMaps(u, k, m, e, r.page, r.page, r.size, "DEVICE")
  PROVE  Sound(begin, u.heap, u.mmu, O, S, IF u.err = 0 THEN D \cup {r} ELSE D)
<1> DEFINE E == D \cup {r}
<1>1. /\ begin \in HeapBegins /\ HeapInv(h, {}) /\ PagesInv(begin, h, S) /\ Owners(h, m, O)
      /\ D \subseteq Regions /\ MmuShape(m) /\ TablesInv(begin, m) /\ MapInv(m, D) /\ MmuInv(begin, m, D)
  BY DEF Sound, MmuInv
<1>2. /\ r.page \in Nat /\ r.size \in Nat \ {0} /\ e \in 0 .. L1_ENTRIES - 1
      /\ r.page .. r.page + r.size - 1 \subseteq Virtual
      /\ \A v \in r.page .. r.page + r.size - 1 : v \div L2_ENTRIES = e
  BY RegionFacts
<1>5. u.heap = k.heap /\ HeapInv(u.heap, {}) /\ PagesInv(begin, u.heap, S)
  BY <1>1 DEF TableGives, VmMaps, PagesInv
<1>6. CASE k.mem = NULL
  <2>1. /\ u.err = -1 /\ MmuShape(u.mmu) /\ u.mmu.l1 = m.l1 /\ u.mmu.l2 = m.l2
        /\ u.mmu.tlb = Translations(m) \cup m.tlb
    BY <1>6 DEF VmMaps
  <2>2. MmuInv(begin, u.mmu, D) /\ MadeTables(u.mmu) = MadeTables(m)
    BY <1>1, <2>1, SameMap
  <2>3. Marked(u.heap) = Marked(h)
    BY <1>5, <1>6 DEF TableGives
  <2>4. Owners(u.heap, u.mmu, O)
    BY <1>1, <2>2, <2>3 DEF Owners, Out
  <2>5. Sound(begin, u.heap, u.mmu, O, S, D)
    BY <1>1, <1>5, <2>2, <2>4 DEF Sound
  <2>6. QED
    BY <2>1, <2>5
<1>7. CASE k.mem # NULL
  <2> DEFINE g == u.mmu
             a == k.mem
  <2>1. /\ u.err = 0 /\ MmuShape(g) /\ g.l1[e] = a
        /\ \A f \in 0 .. L1_ENTRIES - 1 : f # e => g.l1[f] = m.l1[f]
        /\ \A v \in Virtual :
             Entry(g, v) = IF r.page <= v /\ v < r.page + r.size THEN SmallPage(r.page + (v - r.page), "DEVICE")
                           ELSE Entry(m, v)
        /\ g.tlb = Translations(g)
    BY <1>7 DEF VmMaps
  <2>2. /\ \A f \in 0 .. L1_ENTRIES - 1 : f # e => m.l1[f] # a
        /\ m.l1[e] # NULL => m.l1[e] = a
    BY <1>7 DEF TableGives
  <2>a. a # NULL
    BY <1>7
  <2> HIDE DEF a, g
  <2>3. Owners(u.heap, g, O)
    <3>1. CASE m.l1[e] # NULL
      <4>1. MadeTables(g) = MadeTables(m)
        <5>1. /\ MmuShape(m) /\ MmuShape(g) /\ e \in 0 .. L1_ENTRIES - 1 /\ g.l1[e] = a /\ m.l1[e] = a
              /\ \A f \in 0 .. L1_ENTRIES - 1 : f # e => g.l1[f] = m.l1[f]
          BY <1>1, <1>2, <2>1, <2>2, <3>1, Zenon
        <5>2. QED
          BY <2>a, <5>1, MadeTablesStep
      <4>2. Marked(u.heap) = Marked(h)
        BY <1>5, <3>1 DEF TableGives
      <4>3. QED
        BY <1>1, <4>1, <4>2 DEF Owners, Out
    <3>2. CASE m.l1[e] = NULL
      <4> DEFINE n == [mem |-> a, size |-> L2_SIZE]
                 T == MadeTables(m)
      <4>1. e \notin RamEntries /\ Out(u.heap, (O \cup T) \cup {n}) /\ \A o \in O \cup T : o.mem # a
        BY <1>5, <1>7, <3>2 DEF TableGives, a
      <4>2. MadeTables(g) = T \cup {n}
        BY <1>1, <1>2, <2>a, <2>1, <3>2, <4>1, MadeTablesStep
      <4>3. n.mem = a
        OBVIOUS
      <4>4. O \cap T = {}
        BY <1>1 DEF Owners
      <4> HIDE DEF n, T
      <4>5. O \cap (T \cup {n}) = {}
        BY <4>1, <4>3, <4>4
      <4>6. (O \cup T) \cup {n} = O \cup (T \cup {n})
        OBVIOUS
      <4>7. QED
        BY <4>1, <4>2, <4>5, <4>6 DEF Owners
    <3>3. QED
      BY <3>1, <3>2
  <2>4. TablesInv(begin, g)
    <3>1. /\ begin \in HeapBegins /\ MmuShape(m) /\ TablesInv(begin, m) /\ e \in 0 .. L1_ENTRIES - 1
          /\ g.l1[e] = a /\ \A f \in 0 .. L1_ENTRIES - 1 : f # e => g.l1[f] = m.l1[f]
      BY <1>1, <1>2, <2>1, Zenon
    <3>2. QED
      BY <2>a, <2>2, <3>1, TablesInvStep
  <2>5. ASSUME NEW v \in Virtual
        PROVE  Entry(g, v) = IF v \in Region(r) THEN SmallPage(v, "DEVICE") ELSE Entry(m, v)
    <3>1. v \in Region(r) <=> r.page <= v /\ v < r.page + r.size
      BY RegionFacts
    <3>2. v \in Nat /\ r.page + (v - r.page) = v
      BY <1>2, VirtualFacts
    <3>3. QED
      BY <2>1, <3>1, <3>2
  <2>6. \A v \in Region(r) : v \notin Ram /\ \A q \in Regions : q # r => v \notin Region(q)
    BY RegionFacts
  <2>7. E \subseteq Regions /\ \A q \in E : g.l1[q.page \div L2_ENTRIES] # NULL
    <3>1. ASSUME NEW q \in E PROVE q \in Regions /\ g.l1[q.page \div L2_ENTRIES] # NULL
      <4>1. CASE q = r
        BY <2>a, <2>1, <4>1
      <4>2. CASE q \in D
        <5>1. q \in Regions /\ m.l1[q.page \div L2_ENTRIES] # NULL /\ q.page \div L2_ENTRIES \in 0 .. L1_ENTRIES - 1
          BY <1>1, <4>2, RegionFacts DEF MapInv
        <5>2. QED
          BY <2>a, <2>1, <5>1
      <4>3. QED
        BY <4>1, <4>2
    <3>2. QED
      BY <3>1
  <2>8. MapInv(g, E)
    <3>1. ASSUME NEW v \in Virtual
          PROVE  /\ v \in Ram => Entry(g, v) = SmallPage(v, "RAM")
                 /\ \A q \in E : v \in Region(q) => Entry(g, v) = SmallPage(v, "DEVICE")
                 /\ v \notin Ram /\ (\A q \in E : v \notin Region(q)) => ~Usable(Entry(g, v))
      <4>1. /\ v \in Ram => Entry(m, v) = SmallPage(v, "RAM")
            /\ \A q \in D : v \in Region(q) => Entry(m, v) = SmallPage(v, "DEVICE")
            /\ v \notin Ram /\ (\A q \in D : v \notin Region(q)) => ~Usable(Entry(m, v))
        BY <1>1 DEF MapInv
      <4>2. QED
        BY <2>5, <2>6, <4>1
    <3>2. QED
      BY <2>1, <2>7, <3>1 DEF MapInv
  <2>9. MmuInv(begin, g, E)
    BY <2>1, <2>4, <2>7, <2>8 DEF MmuInv
  <2>10. Sound(begin, u.heap, g, O, S, E)
    BY <1>1, <1>5, <2>3, <2>9 DEF Sound
  <2>11. QED
    BY <2>1, <2>10 DEF g
<1>8. QED
  BY <1>6, <1>7

LEMMA DeviceMapped ==
  ASSUME NEW begin, NEW h, NEW m, NEW O, NEW S, NEW D, Sound(begin, h, m, O, S, D),
         NEW r \in Regions, NEW u, u = vm_map(h, m, r.page, r.page, r.size, "DEVICE", TRUE)
  PROVE  Sound(begin, u.heap, u.mmu, O, S, IF u.err = 0 THEN D \cup {r} ELSE D)
<1> DEFINE e == r.page \div L2_ENTRIES
           k == TableOf([heap |-> h, mmu |-> m, err |-> 0], e, TRUE)
<1>1. MmuShape(m)
  BY DEF Sound, MmuInv
<1>2. /\ r.page \in Nat /\ r.size \in Nat \ {0} /\ e \in 0 .. L1_ENTRIES - 1
      /\ r.page .. r.page + r.size - 1 \subseteq Virtual
      /\ \A v \in r.page .. r.page + r.size - 1 : v \div L2_ENTRIES = e
  BY RegionFacts
<1>3. TableGives(h, m, O, e, k)
  BY <1>2, TableSound
<1>4. k.mem # NULL => \A f \in 0 .. L1_ENTRIES - 1 : f # e => m.l1[f] # k.mem
  BY <1>3 DEF TableGives
<1>5. k = TableOf([heap |-> h, mmu |-> m, err |-> 0], e, TRUE) /\ e = r.page \div L2_ENTRIES
  OBVIOUS
<1> HIDE DEF k, e
<1>6. VmMaps(u, k, m, e, r.page, r.page, r.size, "DEVICE")
  BY <1>1, <1>2, <1>4, <1>5, VmMapSpec
<1>7. QED
  BY <1>3, <1>5, <1>6, DeviceEntered

\* A page of no access is none.
LEMMA NoAccess == \A phy : ~Usable(SmallPage(phy, "NOACCESS"))
BY DEF Usable, SmallPage, Asked, AskedOfFlags

LEMMA InTableUnmapped ==
  ASSUME NEW begin, NEW h, NEW m, NEW O, NEW S, NEW D, Sound(begin, h, m, O, S, D),
         NEW r \in Regions, m.l1[r.page \div L2_ENTRIES] # NULL,
         NEW u, u = vm_unmap(h, m, r.page, r.size)
  PROVE  Sound(begin, u.heap, u.mmu, O, S, D \ {r})
<1> DEFINE e == r.page \div L2_ENTRIES
           k == TableOf([heap |-> h, mmu |-> m, err |-> 0], e, FALSE)
           E == D \ {r}
           g == u.mmu
           a == m.l1[e]
<1>1. /\ begin \in HeapBegins /\ HeapInv(h, {}) /\ PagesInv(begin, h, S) /\ Owners(h, m, O)
      /\ D \subseteq Regions /\ MmuShape(m) /\ TablesInv(begin, m) /\ MapInv(m, D)
  BY DEF Sound, MmuInv
<1>2. /\ r \in Regions /\ r.page \in Nat /\ r.size \in Nat \ {0} /\ e \in 0 .. L1_ENTRIES - 1
      /\ r.page .. r.page + r.size - 1 \subseteq Virtual
      /\ \A v \in r.page .. r.page + r.size - 1 : v \div L2_ENTRIES = e
  BY <1>1, RegionFacts
<1>3. a # NULL
  OBVIOUS
<1>4. k.heap = h /\ k.mem = a
  BY <1>3 DEF TableOf
<1>5. \A f \in 0 .. L1_ENTRIES - 1 : f # e => m.l1[f] # a
  BY <1>1, <1>2, <1>3 DEF TablesInv
<1>6. VmMaps(u, k, m, e, r.page, 0, r.size, "NOACCESS")
  <2>1. k.mem # NULL => \A f \in 0 .. L1_ENTRIES - 1 : f # e => m.l1[f] # k.mem
    BY <1>4, <1>5
  <2>2. k = TableOf([heap |-> h, mmu |-> m, err |-> 0], e, FALSE)
    OBVIOUS
  <2>3. u = vm_map(h, m, r.page, 0, r.size, "NOACCESS", FALSE) /\ 0 \in Nat
    BY DEF vm_unmap
  <2> HIDE DEF k, e, a
  <2>4. QED
    <3> DEFINE w == vm_map(h, m, r.page, 0, r.size, "NOACCESS", FALSE)
    <3>1. VmMaps(w, k, m, e, r.page, 0, r.size, "NOACCESS")
      <4>1. MmuShape(m) /\ 0 \in Nat
        BY <1>1, <2>3, Zenon
      <4> HIDE DEF w
      <4>2. w = vm_map(h, m, r.page, 0, r.size, "NOACCESS", FALSE)
        BY DEF w
      <4>3. QED
        BY <1>2, <2>1, <2>2, <4>1, <4>2, VmMapSpec
    <3>2. QED
      BY <2>3, <3>1, Zenon
<1> HIDE DEF k, e, a
<1>7. /\ u.heap = h /\ MmuShape(g) /\ g.l1[e] = a
      /\ \A f \in 0 .. L1_ENTRIES - 1 : f # e => g.l1[f] = m.l1[f]
      /\ \A v \in Virtual :
           Entry(g, v) = IF r.page <= v /\ v < r.page + r.size THEN SmallPage(0 + (v - r.page), "NOACCESS")
                         ELSE Entry(m, v)
      /\ g.tlb = Translations(g)
  BY <1>3, <1>4, <1>6 DEF VmMaps
<1>8. m.l1[e] = a
  BY DEF a
<1> HIDE DEF g
<1>9. MadeTables(g) = MadeTables(m)
  BY <1>1, <1>2, <1>3, <1>7, <1>8, MadeTablesStep
<1>10. Owners(u.heap, g, O)
  BY <1>1, <1>7, <1>9 DEF Owners
<1>11. TablesInv(begin, g)
  BY <1>1, <1>2, <1>3, <1>5, <1>7, <1>8, TablesInvStep
<1>12. ASSUME NEW v \in Virtual
       PROVE  /\ v \in Region(r) => ~Usable(Entry(g, v))
              /\ v \notin Region(r) => Entry(g, v) = Entry(m, v)
  <2>1. v \in Region(r) <=> r.page <= v /\ v < r.page + r.size
    BY <1>2, RegionFacts
  <2>2. QED
    BY <1>7, <2>1, NoAccess
<1>13. \A v \in Region(r) : v \notin Ram /\ \A q \in Regions : q # r => v \notin Region(q)
  BY <1>2, RegionFacts
<1>14. E \subseteq Regions /\ \A q \in E : g.l1[q.page \div L2_ENTRIES] # NULL
  <2>1. ASSUME NEW q \in E PROVE g.l1[q.page \div L2_ENTRIES] # NULL
    <3>1. m.l1[q.page \div L2_ENTRIES] # NULL /\ q.page \div L2_ENTRIES \in 0 .. L1_ENTRIES - 1
      BY <1>1, <2>1, RegionFacts DEF MapInv
    <3>2. QED
      BY <1>3, <1>7, <3>1
  <2>2. QED
    BY <1>1, <2>1
<1>15. MapInv(g, E)
  <2>1. ASSUME NEW v \in Virtual
        PROVE  /\ v \in Ram => Entry(g, v) = SmallPage(v, "RAM")
               /\ \A q \in E : v \in Region(q) => Entry(g, v) = SmallPage(v, "DEVICE")
               /\ v \notin Ram /\ (\A q \in E : v \notin Region(q)) => ~Usable(Entry(g, v))
    <3>1. /\ v \in Ram => Entry(m, v) = SmallPage(v, "RAM")
          /\ \A q \in D : v \in Region(q) => Entry(m, v) = SmallPage(v, "DEVICE")
          /\ v \notin Ram /\ (\A q \in D : v \notin Region(q)) => ~Usable(Entry(m, v))
      BY <1>1 DEF MapInv
    <3>2. QED
      BY <1>1, <1>12, <1>13, <3>1
  <2>2. QED
    BY <1>7, <1>14, <2>1 DEF MapInv
<1>16. QED
  BY <1>1, <1>7, <1>10, <1>11, <1>14, <1>15 DEF Sound, MmuInv, g

\* A device may be unmapped that is not mapped, or never was.
LEMMA DeviceUnmapped ==
  ASSUME NEW begin, NEW h, NEW m, NEW O, NEW S, NEW D, Sound(begin, h, m, O, S, D),
         NEW r \in Regions, NEW u, u = vm_unmap(h, m, r.page, r.size)
  PROVE  Sound(begin, u.heap, u.mmu, O, S, D \ {r})
<1> DEFINE e == r.page \div L2_ENTRIES
           k == TableOf([heap |-> h, mmu |-> m, err |-> 0], e, FALSE)
<1>1. CASE m.l1[e] # NULL
  BY <1>1, InTableUnmapped
<1>2. CASE m.l1[e] = NULL
  <2>1. /\ begin \in HeapBegins /\ HeapInv(h, {}) /\ PagesInv(begin, h, S) /\ Owners(h, m, O)
        /\ D \subseteq Regions /\ MmuShape(m) /\ MapInv(m, D) /\ MmuInv(begin, m, D)
    BY DEF Sound, MmuInv
  <2>2. /\ r.page \in Nat /\ r.size \in Nat \ {0} /\ e \in 0 .. L1_ENTRIES - 1 /\ 0 \in Nat
        /\ r.page .. r.page + r.size - 1 \subseteq Virtual
        /\ \A v \in r.page .. r.page + r.size - 1 : v \div L2_ENTRIES = e
    BY RegionFacts
  <2>3. k = TableOf([heap |-> h, mmu |-> m, err |-> 0], e, FALSE)
    OBVIOUS
  <2>4. k.heap = h /\ k.mem = NULL
    BY <1>2 DEF TableOf, kmalloc
  <2>5. r \notin D
    BY <1>2, <2>1 DEF MapInv
  <2>6. u = vm_map(h, m, r.page, 0, r.size, "NOACCESS", FALSE)
    BY Zenon DEF vm_unmap
  <2> HIDE DEF k, e
  <2>7. VmMaps(vm_map(h, m, r.page, 0, r.size, "NOACCESS", FALSE), k, m, e, r.page, 0, r.size, "NOACCESS")
    BY <2>1, <2>2, <2>3, <2>4, VmMapSpec
  <2>8. VmMaps(u, k, m, e, r.page, 0, r.size, "NOACCESS")
    BY <2>6, <2>7, Zenon
  <2>9. /\ u.heap = h /\ MmuShape(u.mmu) /\ u.mmu.l1 = m.l1 /\ u.mmu.l2 = m.l2
        /\ u.mmu.tlb = Translations(m) \cup m.tlb
    BY <2>4, <2>8 DEF VmMaps
  <2>10. MmuInv(begin, u.mmu, D) /\ MadeTables(u.mmu) = MadeTables(m)
    BY <2>1, <2>9, SameMap
  <2>11. Owners(h, u.mmu, O)
    BY <2>1, <2>10 DEF Owners
  <2>12. D \ {r} = D
    BY <2>5
  <2>13. Sound(begin, h, u.mmu, O, S, D)
    BY <2>1, <2>10, <2>11 DEF Sound
  <2>14. QED
    BY <2>9, <2>12, <2>13
<1>3. QED
  BY <1>1, <1>2

-----------------------------------------------------------------------------
(* Opening a UART.                                                           *)

\* The page of a FIFO is a new one, and comes back.
LEMMA FifoSound ==
  ASSUME NEW begin, NEW h, NEW m, NEW O, NEW S, NEW D, Sound(begin, h, m, O, S, D),
         NEW f, f = fifo_buffer_create(h)
  PROVE  f.bp # NULL =>
           /\ f.bp \notin S /\ Sound(begin, f.heap, m, O, S \cup {f.bp}, D)
           /\ Sound(begin, fifo_buffer_destroy(f.heap, f.bp), m, O, S, D)
<1>1. CASE h.pages = {}
  BY <1>1 DEF fifo_buffer_create
<1>2. CASE h.pages # {}
  <2> DEFINE p == Lowest(h.pages)
  <2>1. f.heap = TakePage(h) /\ f.bp = p
    BY <1>2 DEF fifo_buffer_create
  <2>2. p \in h.pages /\ p # NULL
    <3>1. h.pages \subseteq Nat /\ NULL \notin Nat
      BY ShapeFacts, PageNotNull DEF Sound, HeapInv
    <3>2. QED
      BY <1>2, <3>1, LowestOf
  <2> HIDE DEF p
  <2>3. p \notin S
    BY <2>2 DEF Sound, PagesInv, Managed
  <2>4. Sound(begin, TakePage(h), m, O, S \cup {p}, D)
    BY <1>2, StackAllocSound DEF p
  <2>5. Sound(begin, GivePage(TakePage(h), p), m, O, (S \cup {p}) \ {p}, D)
    <3> DEFINE T == S \cup {p}
    <3>1. p \in T /\ Sound(begin, TakePage(h), m, O, T, D)
      BY <2>4
    <3> HIDE DEF T
    <3>2. Sound(begin, GivePage(TakePage(h), p), m, O, T \ {p}, D)
      BY <3>1, StackFreeSound
    <3>3. QED
      BY <3>2 DEF T
  <2>6. (S \cup {p}) \ {p} = S
    BY <2>3
  <2>7. /\ f.bp # NULL /\ f.bp \notin S /\ Sound(begin, f.heap, m, O, S \cup {f.bp}, D)
        /\ Sound(begin, GivePage(f.heap, f.bp), m, O, S, D)
    BY <2>1, <2>2, <2>3, <2>4, <2>5, <2>6
  <2>8. QED
    BY <2>7 DEF fifo_buffer_destroy
<1>3. QED
  BY <1>1, <1>2

\* Without a page nothing changes.
LEMMA FifoFails ==
  ASSUME NEW h, NEW f, f = fifo_buffer_create(h), f.bp = NULL, h.pages \subseteq Nat
  PROVE  f.heap = h
<1>1. CASE h.pages = {}
  BY <1>1 DEF fifo_buffer_create
<1>2. CASE h.pages # {}
  <2>1. f.bp = Lowest(h.pages)
    BY <1>2 DEF fifo_buffer_create
  <2>2. Lowest(h.pages) \in h.pages
    BY <1>2, LowestOf
  <2>3. QED
    BY <2>1, <2>2, PageNotNull
<1>3. QED
  BY <1>1, <1>2

\* k allocates a context from h, the object n.
Context(h, k, n) ==
  k = kmalloc(h, CONTEXT_SIZE, TRUE) /\ n = [mem |-> k.mem, size |-> CONTEXT_SIZE]

\* A context is a new object.
LEMMA ContextSound ==
  ASSUME NEW begin, NEW h, NEW m, NEW O, NEW S, NEW D, Sound(begin, h, m, O, S, D),
         NEW k, NEW n, Context(h, k, n)
  PROVE  /\ k.mem = NULL => Sound(begin, k.heap, m, O, S, D)
         /\ k.mem # NULL => n \notin O /\ Sound(begin, k.heap, m, O \cup {n}, S, D)
<1>1. k = kmalloc(h, CONTEXT_SIZE, TRUE) /\ n = [mem |-> k.mem, size |-> CONTEXT_SIZE]
  BY DEF Context
<1>2. CONTEXT_SIZE \in Nat /\ HeapInv(h, {}) /\ Out(h, O \cup MadeTables(m))
  BY KernelMemoryAssumption DEF Sound, Owners
<1>3. Mallocs(h, k, CONTEXT_SIZE)
  BY <1>1, <1>2, KmallocSpec
<1>4. Sound(begin, k.heap, m, IF k.mem = NULL THEN O ELSE O \cup {n}, S, D)
  BY <1>1, <1>2, <1>3, KmallocSound
<1>5. ASSUME k.mem # NULL, n \in O PROVE FALSE
  <2> DEFINE out == O \cup MadeTables(m)
  <2>1. n \in out /\ Out(h, out) /\ n.mem = k.mem
    BY <1>1, <1>2, <1>5
  <2> HIDE DEF out
  <2>2. <<PoolOf(n.size), n.mem>> \in Marked(h) /\ <<PoolOf(n.size), n.mem>>[2] = n.mem
    BY <2>1, OutAt
  <2>3. \A x \in Marked(h) : x[2] # k.mem
    BY <1>3, <1>5 DEF Mallocs
  <2>4. QED
    BY <2>1, <2>2, <2>3
<1>6. QED
  BY <1>4, <1>5

-----------------------------------------------------------------------------
(* Booting.                                                                  *)

\* The tables init_page_tables makes.
LEMMA FirstTables ==
  ASSUME NEW begin \in HeapBegins, NEW m,
         m = init_page_tables(TablesAt(begin), PHYSICAL_MEMORY_BASE_ADDRESS, PHYSICAL_MEMORY_LENGTH)
  PROVE  MmuInv(begin, m, {}) /\ MadeTables(m) = {}
<1> DEFINE base == TablesAt(begin)
           R == PHYSICAL_MEMORY_BASE_ADDRESS .. PHYSICAL_MEMORY_BASE_ADDRESS + PHYSICAL_MEMORY_LENGTH - 1
           E == L1Entries(PHYSICAL_MEMORY_BASE_ADDRESS, PHYSICAL_MEMORY_LENGTH)
           table == [e \in E |-> BootTable(base, e - Lowest(E))]
           at(a, i) == {e \in E : table[e] = a /\ e * L2_ENTRIES + i \in R}
           row(a) == [i \in 0 .. L2_ENTRIES - 1 |->
                        IF at(a, i) = {} THEN NULL
                        ELSE SmallPage(Lowest(at(a, i)) * L2_ENTRIES + i, "RAM")]
           l2 == [a \in Range(table) |-> row(a)]
           l1 == [e \in 0 .. L1_ENTRIES - 1 |-> IF e \in E THEN table[e] ELSE NULL]
           n == [l1 |-> l1, l2 |-> l2, tlb |-> {}]
<1>1. m = [n EXCEPT !.tlb = Translations(n)]
  BY Zenon DEF init_page_tables
<1>a. E = RamEntries /\ R = Ram
  <2>1. E = RamEntries
    BY Zenon DEF RamEntries
  <2>2. R = Ram
    BY KernelMemoryAssumption DEF Ram, RamEnd
  <2>3. QED
    BY <2>1, <2>2
<1> HIDE DEF E, R
<1>2. /\ base \in Nat /\ L2_ENTRIES \in Nat \ {0} /\ L2_SIZE \in Nat \ {0} /\ E \subseteq 0 .. L1_ENTRIES - 1
      /\ \A e \in E : e \in Nat /\ e - Lowest(E) \in Nat /\ e - Lowest(E) < Cardinality(E)
      /\ Lowest(E) \in Nat /\ Cardinality(E) \in Nat \ {0}
  <2>1. base \in Nat /\ L2_ENTRIES \in Nat \ {0} /\ L2_SIZE \in Nat \ {0}
    BY BootAddresses, KernelMemoryAssumption
  <2>2. /\ E \subseteq 0 .. L1_ENTRIES - 1 /\ Lowest(E) \in E /\ Cardinality(E) \in Nat \ {0}
        /\ \A e \in E : e - Lowest(E) \in Nat /\ e - Lowest(E) < Cardinality(E)
    BY <1>a, RamEntriesFacts
  <2>3. E \subseteq Nat
    BY <2>2
  <2>4. QED
    BY <2>1, <2>2, <2>3
<1>3. \A e \in E : table[e] # NULL /\ table[e] \in Range(table)
  <2>1. ASSUME NEW e \in E PROVE BootTable(base, e - Lowest(E)) # NULL
    <3> DEFINE i == e - Lowest(E)
    <3>1. i \in Nat /\ i < Cardinality(E)
      BY <1>2
    <3> HIDE DEF i, base
    <3>2. BootTable(base, i) # NULL
      BY <1>2, <3>1, BootTableFacts
    <3>3. QED
      BY <3>2 DEF i
  <2>2. \A e \in E : table[e] = BootTable(base, e - Lowest(E))
    OBVIOUS
  <2>3. \A e \in E : table[e] \in Range(table)
    BY DEF Range
  <2> HIDE DEF table
  <2>4. QED
    BY <2>1, <2>2, <2>3
<1>4. \A e, f \in E : table[e] = table[f] => e = f
  <2>1. ASSUME NEW e \in E, NEW f \in E, table[e] = table[f] PROVE e = f
    <3> DEFINE i == e - Lowest(E)
               j == f - Lowest(E)
    <3>1. i \in Nat /\ j \in Nat /\ BootTable(base, i) = BootTable(base, j)
      BY <1>2, <2>1
    <3> HIDE DEF i, j, base
    <3>2. 0 \in 0 .. L2_SIZE - 1 /\ BootTable(base, i).offset + 0 = BootTable(base, j).offset + 0
      BY <1>2, <3>1
    <3>3. i = j
      BY <1>2, <3>1, <3>2, BootTablesApart
    <3>4. QED
      BY <1>2, <3>3 DEF i, j
  <2>2. QED
    BY <2>1
<1>5. \A e \in E : table[e] = BootTable(TablesAt(begin), e - Lowest(RamEntries))
  BY <1>a
<1> HIDE DEF table
<1>6. /\ n.l1 = l1 /\ n.l2 = l2
      /\ DOMAIN l1 = 0 .. L1_ENTRIES - 1 /\ DOMAIN l2 = Range(table)
      /\ \A e \in E : l1[e] = table[e]
      /\ \A e \in 0 .. L1_ENTRIES - 1 : e \notin E => l1[e] = NULL
      /\ \A a \in DOMAIN l2 : DOMAIN l2[a] = 0 .. L2_ENTRIES - 1
  BY <1>2
<1>7. /\ m.l1 = l1 /\ m.l2 = l2 /\ m.tlb = Translations(n) /\ DOMAIN m = {"l1", "l2", "tlb"}
  BY <1>1
<1>8. \A a \in Range(table) : \A i \in 0 .. L2_ENTRIES - 1 :
        l2[a][i] = IF at(a, i) = {} THEN NULL ELSE SmallPage(Lowest(at(a, i)) * L2_ENTRIES + i, "RAM")
  OBVIOUS
<1> HIDE DEF n, l1, l2, at
<1>9. MmuShape(m)
  BY <1>3, <1>6, <1>7 DEF MmuShape
<1>10. TablesInv(begin, m)
  BY <1>a, <1>3, <1>4, <1>5, <1>6, <1>7 DEF TablesInv
<1>11. ASSUME NEW v \in Virtual
       PROVE  Entry(m, v) = IF v \in Ram THEN SmallPage(v, "RAM") ELSE NULL
  <2> DEFINE e == v \div L2_ENTRIES
             i == v % L2_ENTRIES
  <2>1. v \in Nat /\ e \in 0 .. L1_ENTRIES - 1 /\ i \in 0 .. L2_ENTRIES - 1
    BY VirtualFacts
  <2>2. e * L2_ENTRIES + i = v
    <3>1. v = L2_ENTRIES * e + i
      BY <1>2, <2>1, DivMod
    <3> HIDE DEF e, i
    <3>2. QED
      BY <1>2, <2>1, <3>1
  <2>3. Entry(m, v) = IF l1[e] = NULL THEN NULL ELSE l2[l1[e]][i]
    BY <1>7 DEF Entry
  <2>4. v \in Ram => e \in E
    BY <1>a, RamEntriesFacts
  <2> HIDE DEF e, i
  <2>5. CASE e \notin E
    BY <1>6, <2>1, <2>3, <2>4, <2>5
  <2>6. CASE e \in E
    <3> DEFINE X == at(table[e], i)
    <3>1. \A f : f \in X <=> f = e /\ v \in Ram
      BY <1>a, <1>4, <2>2, <2>6 DEF at
    <3>2. Entry(m, v) = IF X = {} THEN NULL ELSE SmallPage(Lowest(X) * L2_ENTRIES + i, "RAM")
      BY <1>3, <1>6, <1>8, <2>1, <2>3, <2>6
    <3> HIDE DEF X
    <3>3. CASE v \in Ram
      <4>1. X = {e} /\ e \in Nat
        BY <2>1, <3>1, <3>3
      <4>2. X \in SUBSET Nat /\ X # {}
        BY <4>1
      <4>3. Lowest(X) \in X
        BY <4>2, LowestOf
      <4>4. Lowest(X) = e
        BY <4>1, <4>3
      <4>5. QED
        BY <2>2, <3>2, <3>3, <4>2, <4>4
    <3>4. CASE v \notin Ram
      <4>1. X = {}
        BY <3>1, <3>4
      <4>2. QED
        BY <3>2, <3>4, <4>1
    <3>5. QED
      BY <3>3, <3>4
  <2>7. QED
    BY <2>5, <2>6
<1>12. m.tlb = Translations(m)
  <2>1. \A v \in Virtual : Entry(m, v) = Entry(n, v)
    BY <1>6, <1>7 DEF Entry
  <2>2. QED
    BY <1>7, <2>1, SameTranslations
<1>13. MapInv(m, {})
  BY <1>11, <1>12 DEF MapInv, Usable
<1>14. MadeTables(m) = {}
  BY <1>a, <1>6, <1>7 DEF MadeTables
<1>15. QED
  BY <1>9, <1>10, <1>13, <1>14 DEF MmuInv

\* The heap mem_cache_setup begins with.
LEMMA FirstHeap ==
  ASSUME NEW begin \in HeapBegins, NEW m, MmuInv(begin, m, {}), MadeTables(m) = {},
         NEW h, h = mem_cache_setup(FirstPage(begin) .. RamEnd - 1)
  PROVE  Sound(begin, h, m, {}, {}, {})
<1> DEFINE P == FirstPage(begin) .. RamEnd - 1
           n == [pages |-> P, caches |-> <<>>, slab |-> <<>>]
<1>1. /\ FirstPage(begin) \in Nat /\ RamEnd \in Nat /\ FirstPage(begin) \in P
      /\ P \subseteq Ram /\ P \in SUBSET Nat
  <2>1. FirstPage(begin) \in Ram /\ FirstPage(begin) \in Nat
    BY BootAddresses
  <2>2. QED
    BY <2>1, KernelMemoryAssumption DEF Ram, RamEnd
<1>2. Lowest(P) = FirstPage(begin)
  <2>1. Lowest(P) \in P /\ \A y \in P : Lowest(P) <= y
    BY <1>1, LowestOf
  <2>2. Lowest(P) <= FirstPage(begin)
    BY <1>1, <2>1
  <2> HIDE DEF n
  <2>3. QED
    BY <1>1, <2>1, <2>2
<1>3. h = [n EXCEPT !.pages = @ \ {Lowest(@)}]
  BY DEF mem_cache_setup, TakePage
<1>4. /\ DOMAIN h = {"pages", "caches", "slab"} /\ h.pages = P \ {FirstPage(begin)}
      /\ h.caches = <<>> /\ h.slab = <<>>
  <2>1. n.pages = P /\ n.caches = <<>> /\ n.slab = <<>> /\ DOMAIN n = {"pages", "caches", "slab"}
    OBVIOUS
  <2> HIDE DEF n, P
  <2>2. QED
    BY <1>2, <1>3, <2>1
<1>5. DOMAIN h.caches = {} /\ DOMAIN h.slab = {}
  BY <1>4
<1>6. h.pages = FirstPage(begin) + 1 .. RamEnd - 1
  <2> DEFINE a == FirstPage(begin)
  <2>1. a \in Nat /\ RamEnd \in Nat /\ h.pages = (a .. RamEnd - 1) \ {a}
    BY <1>1, <1>4
  <2> HIDE DEF a
  <2>2. (a .. RamEnd - 1) \ {a} = a + 1 .. RamEnd - 1
    BY <2>1
  <2>3. QED
    BY <2>1, <2>2 DEF a
<1>7. Shape(h)
  <2>1. h.caches \in [{} -> OneCache] /\ h.slab \in [{} -> OneSlab]
    <3>1. <<>> \in [1 .. 0 -> OneCache] /\ <<>> \in [1 .. 0 -> OneSlab] /\ 1 .. 0 = {}
      OBVIOUS
    <3>2. QED
      BY <1>4, <3>1, Zenon
  <2>2. QED
    BY <1>1, <1>4, <1>5, <2>1 DEF Shape
<1>8. Listed(h) /\ Marks(h, {}) /\ Counted(h) /\ PagesOnce(h, {})
  BY <1>5 DEF Listed, Marks, Counted, PagesOnce
<1>9. Managed(h) = h.pages /\ Marked(h) = {}
  BY <1>5 DEF Managed, DescriptorsOf, SlabPagesOf, Marked
<1>10. PagesInv(begin, h, {})
  BY <1>6, <1>9 DEF PagesInv
<1>11. Owners(h, m, {})
  BY <1>9 DEF Owners, Out
<1>12. QED
  BY <1>7, <1>8, <1>10, <1>11 DEF Sound, HeapInv

-----------------------------------------------------------------------------
(* vm_map_device_regions goes region by region.                              *)

MapNext(t, r) ==
  LET u == vm_map(t.heap, t.mmu, r.page, r.page, r.size, "DEVICE", TRUE)
  IN  [heap |-> u.heap, mmu |-> u.mmu, done |-> t.done \cup (IF u.err = 0 THEN {r} ELSE {})]

MapAll(s, h, m) ==
  /\ s[0] = [heap |-> h, mmu |-> m, done |-> {}]
  /\ \A i \in 1 .. Len(BootRegions) : s[i] = MapNext(s[i - 1], BootRegions[i])

LEMMA MapAllExists ==
  ASSUME vm_map_device_regions
  PROVE  \E s : /\ MapAll(s, heap, mmu)
                /\ heap' = s[Len(BootRegions)].heap /\ mmu' = s[Len(BootRegions)].mmu
                /\ mapped' = s[Len(BootRegions)].done
<1> DEFINE first == [heap |-> heap, mmu |-> mmu, done |-> {}]
           size == Len(BootRegions)
           Steps(f, k) == /\ f = [j \in 0 .. k |-> f[j]] /\ f[0] = first
                          /\ \A j \in 1 .. k : f[j] = MapNext(f[j - 1], BootRegions[j])
           P == {k \in 0 .. size : \E f : Steps(f, k)}
<1>0. size \in Nat
  BY KernelMemoryAssumption, LenProperties
<1> HIDE DEF first, size
<1>1. 0 \in P
  <2>1. Steps([j \in 0 .. 0 |-> first], 0)
    OBVIOUS
  <2> HIDE DEF Steps
  <2>2. \E f : Steps(f, 0)
    BY <2>1
  <2>3. QED
    BY <1>0, <2>2
<1>2. ASSUME NEW k \in 0 .. size - 1, k \in P PROVE k + 1 \in P
  <2>1. PICK f : Steps(f, k)
    BY <1>2
  <2> DEFINE g == [j \in 0 .. k + 1 |-> IF j = k + 1 THEN MapNext(f[k], BootRegions[k + 1]) ELSE f[j]]
  <2>2. g = [j \in 0 .. k + 1 |-> g[j]] /\ g[0] = first
    BY <1>0, <2>1
  <2>3. ASSUME NEW j \in 1 .. k + 1 PROVE g[j] = MapNext(g[j - 1], BootRegions[j])
    <3>1. CASE j = k + 1
      <4>1. g[j] = MapNext(f[k], BootRegions[k + 1]) /\ j - 1 = k /\ g[k] = f[k]
        BY <1>0, <3>1
      <4>2. QED
        BY <3>1, <4>1
    <3>2. CASE j \in 1 .. k
      <4>1. g[j] = f[j] /\ g[j - 1] = f[j - 1]
        BY <1>0, <3>2
      <4>2. QED
        BY <2>1, <3>2, <4>1
    <3>3. QED
      BY <1>0, <3>1, <3>2
  <2>4. Steps(g, k + 1)
    BY <2>2, <2>3
  <2> HIDE DEF Steps
  <2>5. k + 1 \in 0 .. size /\ \E f2 : Steps(f2, k + 1)
    BY <1>0, <2>4
  <2>6. QED
    BY <2>5
<1>3. size \in P
  <2> HIDE DEF P
  <2>1. size \in 0 .. size
    BY <1>0
  <2>2. QED
    BY <1>0, <1>1, <1>2, <2>1, Climb
<1>4. PICK f : Steps(f, size)
  BY <1>3
<1> DEFINE F(g) == [i \in 0 .. size |-> IF i = 0 THEN first ELSE MapNext(g[i - 1], BootRegions[i])]
           s == CHOOSE g : g = F(g)
<1>5. f = F(f)
  <2>1. ASSUME NEW i \in 0 .. size PROVE f[i] = F(f)[i]
    <3>1. CASE i = 0
      BY <1>4, <3>1
    <3>2. CASE i # 0
      <4>1. i \in 1 .. size
        BY <1>0, <3>2
      <4>2. f[i] = MapNext(f[i - 1], BootRegions[i])
        BY <1>4, <4>1
      <4>3. QED
        BY <3>2, <4>2
    <3>3. QED
      BY <3>1, <3>2
  <2>2. QED
    BY <1>4, <2>1
<1>6. s = F(s)
  <2> HIDE DEF F
  <2> QED
    BY <1>5
<1>7. heap' = s[size].heap /\ mmu' = s[size].mmu /\ mapped' = s[size].done
  BY DEF vm_map_device_regions, first, MapNext, size
<1> HIDE DEF s
<1>8. s[0] = first /\ \A i \in 1 .. size : s[i] = MapNext(s[i - 1], BootRegions[i])
  BY <1>0, <1>6
<1>9. MapAll(s, heap, mmu)
  BY <1>8 DEF MapAll, first, size
<1>10. QED
  BY <1>7, <1>9 DEF size

LEMMA MapAllSound ==
  ASSUME NEW begin, NEW h, NEW m, Sound(begin, h, m, {}, {}, {}), NEW s, MapAll(s, h, m)
  PROVE  LET t == s[Len(BootRegions)] IN Sound(begin, t.heap, t.mmu, {}, {}, t.done)
<1> DEFINE n == Len(BootRegions)
           P == {i \in 0 .. n : Sound(begin, s[i].heap, s[i].mmu, {}, {}, s[i].done)}
<1>1. n \in Nat /\ \A i \in 1 .. n : BootRegions[i] \in Regions
  <2>1. BootRegions \in Seq(Range(BootRegions))
    BY KernelMemoryAssumption
  <2>2. n \in Nat /\ \A i \in 1 .. n : BootRegions[i] \in Range(BootRegions)
    BY <2>1, RangeOf
  <2>3. QED
    BY <2>2 DEF Regions
<1> HIDE DEF n
<1>2. 0 \in P
  <2>1. s[0].heap = h /\ s[0].mmu = m /\ s[0].done = {}
    BY DEF MapAll
  <2>2. QED
    BY <1>1, <2>1
<1>3. ASSUME NEW i \in 0 .. n - 1, i \in P PROVE i + 1 \in P
  <2> DEFINE r == BootRegions[i + 1]
             t == s[i]
             u == vm_map(t.heap, t.mmu, r.page, r.page, r.size, "DEVICE", TRUE)
             D == IF u.err = 0 THEN t.done \cup {r} ELSE t.done
  <2>1. i + 1 \in 1 .. n /\ i + 1 \in 0 .. n /\ (i + 1) - 1 = i
    BY <1>1
  <2>2. s[i + 1] = MapNext(t, r)
    BY <2>1 DEF MapAll, n
  <2>3. r \in Regions /\ Sound(begin, t.heap, t.mmu, {}, {}, t.done)
    BY <1>1, <1>3, <2>1
  <2> HIDE DEF r, t
  <2>a. s[i + 1] = [heap |-> u.heap, mmu |-> u.mmu, done |-> t.done \cup (IF u.err = 0 THEN {r} ELSE {})]
    BY <2>2, Zenon DEF MapNext
  <2>5. u = vm_map(t.heap, t.mmu, r.page, r.page, r.size, "DEVICE", TRUE)
    OBVIOUS
  <2> HIDE DEF u
  <2>4. s[i + 1].heap = u.heap /\ s[i + 1].mmu = u.mmu /\ s[i + 1].done = D
    BY <2>a
  <2>6. Sound(begin, u.heap, u.mmu, {}, {}, D)
    BY <2>3, <2>5, DeviceMapped
  <2>7. QED
    BY <2>1, <2>4, <2>6
<1>4. n \in P
  <2> HIDE DEF P
  <2>1. n \in 0 .. n
    BY <1>1
  <2>2. QED
    BY <1>1, <1>2, <1>3, <2>1, Climb
<1>5. QED
  BY <1>4 DEF n

-----------------------------------------------------------------------------
(* The invariant.                                                            *)

LEMMA InitMemory == Init => MemoryInv
BY NoUarts DEF Init, MemoryInv, BootInv

LEMMA BootStack ==
  ASSUME MemoryInv, boot_stack
  PROVE  MemoryInv'
<1>1. /\ heap_begin \in HeapBegins /\ boot = 0 /\ blocks = {} /\ mmu = NoMmu /\ heap = NoHeap
      /\ objs = {} /\ stacks = {} /\ mapped = {} /\ uarts = {} /\ fifos = {}
  BY DEF MemoryInv, BootInv, boot_stack
<1>2. heap_begin \in Nat
  BY <1>1, BootAddresses
<1>3. /\ phase' = "tables" /\ boot' = 1 /\ blocks' = {StackBlock} /\ heap_begin' = heap_begin
      /\ mmu' = NoMmu /\ heap' = NoHeap /\ objs' = {} /\ stacks' = {} /\ mapped' = {}
      /\ uarts' = {} /\ fifos' = {}
  BY <1>1, <1>2 DEF boot_stack, BootBase, StackBlock, uartVars
<1>4. StackBlock' = StackBlock
  BY <1>3 DEF StackBlock
<1>5. BootInv'
  BY <1>1, <1>3, <1>4 DEF BootInv
<1>6. QED
  BY <1>3, <1>5, NoUarts DEF MemoryInv

LEMMA BlocksKept ==
  ASSUME heap_begin' = heap_begin
  PROVE  StackBlock' = StackBlock /\ RootBlock' = RootBlock /\ TablesBlock' = TablesBlock /\ BitsBlock' = BitsBlock
BY DEF StackBlock, RootBlock, TablesBlock, BitsBlock

LEMMA BootTables1 ==
  ASSUME MemoryInv, TakeTables
  PROVE  MemoryInv'
<1> DEFINE T == BootTablePages(Cardinality(RamEntries))
           root == RootAt(heap_begin)
<1>1. /\ heap_begin \in HeapBegins /\ boot = 1 /\ blocks = {StackBlock} /\ heap = NoHeap
      /\ objs = {} /\ stacks = {} /\ mapped = {} /\ uarts = {} /\ fifos = {}
  BY DEF MemoryInv, BootInv, TakeTables
<1>2. AlignBoot(heap_begin, boot, ROOT_PAGES) = root
  BY <1>1 DEF RootAt
<1>3. BootBase(heap_begin, root + ROOT_PAGES) = TablesAt(heap_begin)
  BY DEF TablesAt
<1>4. /\ phase' = "page allocator" /\ boot' = root + ROOT_PAGES + T
      /\ blocks' = blocks \cup {BootBase(heap_begin, root) .. TablesAt(heap_begin) - 1,
                                TablesAt(heap_begin) .. TablesAt(heap_begin) + T - 1}
      /\ mmu' = init_page_tables(TablesAt(heap_begin), PHYSICAL_MEMORY_BASE_ADDRESS, PHYSICAL_MEMORY_LENGTH)
      /\ heap_begin' = heap_begin /\ heap' = NoHeap /\ objs' = {} /\ stacks' = {} /\ mapped' = {}
      /\ uarts' = {} /\ fifos' = {}
  BY <1>1, <1>2, <1>3 DEF TakeTables, uartVars
<1>5. /\ heap_begin \in Nat /\ root \in Nat /\ T \in Nat /\ TablesAt(heap_begin) \in Nat /\ ROOT_PAGES \in Nat
      /\ TablesAt(heap_begin) = heap_begin + root + ROOT_PAGES
      /\ BitmapsAt(heap_begin) = TablesAt(heap_begin) + T
  BY <1>1, BootAddresses, KernelMemoryAssumption
<1> HIDE DEF T, root
<1>6. boot' \in Nat /\ BootBase(heap_begin, boot') = BitmapsAt(heap_begin)
  <2> DEFINE b == TablesAt(heap_begin)
             c == BitmapsAt(heap_begin)
  <2>1. boot' = root + ROOT_PAGES + T
    BY <1>4
  <2>2. /\ heap_begin \in Nat /\ root \in Nat /\ T \in Nat /\ b \in Nat /\ ROOT_PAGES \in Nat
        /\ b = heap_begin + root + ROOT_PAGES /\ c = b + T
    BY <1>5
  <2> HIDE DEF b, c
  <2>3. root + ROOT_PAGES + T \in Nat /\ heap_begin + (root + ROOT_PAGES + T) = c
    BY <2>2
  <2>4. QED
    BY <2>1, <2>3 DEF BootBase, c
<1>7. TablesAt(heap_begin) .. TablesAt(heap_begin) + T - 1 = TablesBlock
  BY <1>5 DEF TablesBlock
<1>8. BootBase(heap_begin, root) .. TablesAt(heap_begin) - 1 = RootBlock
  BY DEF RootBlock, root
<1>9. blocks' = {StackBlock', RootBlock', TablesBlock'}
  <2>1. StackBlock' = StackBlock /\ RootBlock' = RootBlock /\ TablesBlock' = TablesBlock
    BY <1>4, BlocksKept
  <2>2. blocks' = {StackBlock} \cup {RootBlock, TablesBlock}
    BY <1>1, <1>4, <1>7, <1>8, Zenon
  <2>3. QED
    BY <2>1, <2>2
<1>10. MmuInv(heap_begin, mmu', {}) /\ MadeTables(mmu') = {}
  BY <1>1, <1>4, FirstTables
<1>11. BootInv'
  BY <1>1, <1>4, <1>6, <1>9, <1>10 DEF BootInv
<1>12. QED
  BY <1>4, <1>11, NoUarts DEF MemoryInv

\* Once there is a heap, BootInv has little to say.
LEMMA UpStep ==
  ASSUME MemoryInv, phase \in {"devices", "up", "halted"}, phase' \in {"up", "halted"},
         heap_begin' = heap_begin, boot' = boot, blocks' = blocks,
         Sound(heap_begin, heap', mmu', objs', stacks' \cup fifos', mapped'),
         UartInv(objs', stacks', fifos', uarts')
  PROVE  MemoryInv'
<1>1. blocks' = {StackBlock', RootBlock', TablesBlock', BitsBlock'}
  BY BlocksKept DEF MemoryInv, BootInv
<1>2. BootInv'
  BY <1>1 DEF MemoryInv, BootInv
<1>3. QED
  BY <1>2 DEF MemoryInv

LEMMA BootPageAllocator ==
  ASSUME MemoryInv, get_free_page_setup
  PROVE  MemoryInv'
<1> DEFINE first == BootBase(heap_begin, boot) + BITMAP_PAGES
           pages == get_boot_pages_remaining(heap_begin, boot) - BITMAP_PAGES
<1>1. /\ heap_begin \in HeapBegins /\ BootBase(heap_begin, boot) = BitmapsAt(heap_begin)
      /\ blocks = {StackBlock, RootBlock, TablesBlock}
      /\ MmuInv(heap_begin, mmu, {}) /\ MadeTables(mmu) = {}
      /\ objs = {} /\ stacks = {} /\ mapped = {} /\ uarts = {} /\ fifos = {}
  BY DEF MemoryInv, BootInv, get_free_page_setup
<1>2. /\ phase' = "devices" /\ boot' = EndBoot(heap_begin)
      /\ blocks' = blocks \cup {BootBase(heap_begin, boot) .. first - 1}
      /\ heap' = mem_cache_setup(first .. first + pages - 1)
      /\ heap_begin' = heap_begin /\ mmu' = mmu /\ objs' = {} /\ stacks' = {} /\ mapped' = {}
      /\ uarts' = {} /\ fifos' = {}
  BY <1>1 DEF get_free_page_setup, uartVars
<1>3. first = FirstPage(heap_begin)
  BY <1>1 DEF FirstPage
<1>4. first + pages - 1 = RamEnd - 1
  <2>1. BitmapsAt(heap_begin) \in Nat /\ BITMAP_PAGES \in Nat /\ RamEnd \in Nat
    BY <1>1, BootAddresses, KernelMemoryAssumption DEF RamEnd
  <2>2. pages = RamEnd - BitmapsAt(heap_begin) - BITMAP_PAGES
    BY <1>1 DEF get_boot_pages_remaining
  <2>3. first = BitmapsAt(heap_begin) + BITMAP_PAGES
    BY <1>1
  <2> HIDE DEF first, pages
  <2>4. QED
    BY <2>1, <2>2, <2>3
<1> HIDE DEF first, pages
<1>5. heap' = mem_cache_setup(FirstPage(heap_begin) .. RamEnd - 1)
  BY <1>2, <1>3, <1>4
<1>6. Sound(heap_begin, heap', mmu, {}, {}, {})
  BY <1>1, <1>5, FirstHeap
<1>7. boot' \in Nat
  <2>1. heap_begin \in Nat /\ RamEnd \in Nat /\ ADDRESS_PAGES \in Nat \ {0}
    BY <1>1, BootAddresses, KernelMemoryAssumption DEF RamEnd
  <2> DEFINE x == (RamEnd - heap_begin) % ADDRESS_PAGES
  <2>2. x \in Int
    BY <2>1
  <2> HIDE DEF x
  <2>3. (x - heap_begin) % ADDRESS_PAGES \in Nat
    BY <2>1, <2>2
  <2>4. QED
    BY <1>2, <2>3 DEF EndBoot, _heap_pages, _heap_virtual_end, x
<1>8. blocks' = {StackBlock', RootBlock', TablesBlock', BitsBlock'}
  <2>1. /\ StackBlock' = StackBlock /\ RootBlock' = RootBlock /\ TablesBlock' = TablesBlock
        /\ BitsBlock' = BitsBlock
    BY <1>2, BlocksKept
  <2>2. BootBase(heap_begin, boot) .. first - 1 = BitsBlock
    BY <1>1, <1>3 DEF BitsBlock
  <2>3. blocks' = {StackBlock, RootBlock, TablesBlock} \cup {BitsBlock}
    BY <1>1, <1>2, <2>2, Zenon
  <2>4. QED
    BY <2>1, <2>3
<1>9. BootInv'
  BY <1>1, <1>2, <1>7, <1>8 DEF BootInv
<1>10. Sound(heap_begin, heap', mmu', objs', stacks' \cup fifos', mapped')
  <2>1. stacks' \cup fifos' = {}
    BY <1>2
  <2>2. QED
    BY <1>2, <1>6, <2>1
<1>11. QED
  BY <1>2, <1>9, <1>10, NoUarts DEF MemoryInv

LEMMA BootDevices ==
  ASSUME MemoryInv, vm_map_device_regions
  PROVE  MemoryInv'
<1>1. /\ phase = "devices" /\ phase' = "up" /\ heap_begin' = heap_begin /\ boot' = boot
      /\ blocks' = blocks /\ objs' = objs /\ stacks' = stacks /\ uarts' = uarts /\ fifos' = fifos
  BY DEF vm_map_device_regions, uartVars
<1>2. objs = {} /\ stacks = {} /\ mapped = {} /\ uarts = {} /\ fifos = {}
  BY <1>1 DEF MemoryInv, BootInv
<1>3. Sound(heap_begin, heap, mmu, {}, {}, {})
  <2>1. stacks \cup fifos = {}
    BY <1>2
  <2>2. QED
    BY <1>1, <1>2, <2>1 DEF MemoryInv
<1>4. PICK s : /\ MapAll(s, heap, mmu)
               /\ heap' = s[Len(BootRegions)].heap /\ mmu' = s[Len(BootRegions)].mmu
               /\ mapped' = s[Len(BootRegions)].done
  BY MapAllExists
<1>5. Sound(heap_begin, heap', mmu', {}, {}, mapped')
  BY <1>3, <1>4, MapAllSound
<1>6. Sound(heap_begin, heap', mmu', objs', stacks' \cup fifos', mapped')
  <2>1. stacks' \cup fifos' = {} /\ objs' = {}
    BY <1>1, <1>2
  <2>2. QED
    BY <1>5, <2>1
<1>7. UartInv(objs', stacks', fifos', uarts')
  BY <1>1, <1>2, NoUarts
<1>8. QED
  BY <1>1, <1>6, <1>7, UpStep

LEMMA OpenStep ==
  ASSUME MemoryInv, phase \in {"up", "halted"}, NEW r \in UartRegions, _chrd_open(r)
  PROVE  MemoryInv'
<1> DEFINE T == stacks \cup fifos
           s == vm_map(heap, mmu, r.page, r.page, r.size, "DEVICE", TRUE)
           k == kmalloc(s.heap, CONTEXT_SIZE, TRUE)
           a == fifo_buffer_create(k.heap)
           b == fifo_buffer_create(a.heap)
           n == [mem |-> k.mem, size |-> CONTEXT_SIZE]
           u == [device |-> r, context |-> n, fifos |-> {a.bp, b.bp}]
           E == mapped \cup {r}
           Fails(h) == heap' = h /\ mmu' = s.mmu /\ mapped' = E /\ UNCHANGED <<objs, uarts, fifos>>
<1>1. Sound(heap_begin, heap, mmu, objs, T, mapped) /\ UartInv(objs, stacks, fifos, uarts)
  BY DEF MemoryInv
<1>2. /\ UNCHANGED <<heap_begin, phase, boot, blocks, stacks>>
      /\ \/ /\ s.err # 0 /\ heap' = s.heap /\ mmu' = s.mmu
            /\ UNCHANGED <<objs, mapped, uarts, fifos>>
         \/ s.err = 0 /\ k.mem = NULL /\ Fails(k.heap)
         \/ s.err = 0 /\ k.mem # NULL /\ a.bp = NULL /\ Fails(kfree(a.heap, k.mem).heap)
         \/ /\ s.err = 0 /\ k.mem # NULL /\ a.bp # NULL /\ b.bp = NULL
            /\ Fails(kfree(fifo_buffer_destroy(b.heap, a.bp), k.mem).heap)
         \/ /\ s.err = 0 /\ k.mem # NULL /\ a.bp # NULL /\ b.bp # NULL
            /\ heap' = b.heap /\ mmu' = s.mmu /\ mapped' = E
            /\ objs' = objs \cup {u.context}
            /\ uarts' = uarts \cup {u} /\ fifos' = fifos \cup u.fifos
  BY Zenon DEF _chrd_open, OpenFails
<1>3. u.device = r /\ u.context = n /\ u.fifos = {a.bp, b.bp} /\ n.mem = k.mem
  OBVIOUS
<1>4. r \in Regions /\ s = vm_map(heap, mmu, r.page, r.page, r.size, "DEVICE", TRUE)
  BY DEF Regions
<1>5. Context(s.heap, k, n)
  BY DEF Context
<1>6. a = fifo_buffer_create(k.heap) /\ b = fifo_buffer_create(a.heap)
  OBVIOUS
<1> HIDE DEF s, k, a, b, n, u, T
<1>7. Sound(heap_begin, s.heap, s.mmu, objs, T, IF s.err = 0 THEN E ELSE mapped)
  BY <1>1, <1>4, DeviceMapped
<1> HIDE DEF E
<1>8. CASE s.err # 0 /\ heap' = s.heap /\ mmu' = s.mmu /\ UNCHANGED <<objs, mapped, uarts, fifos>>
  <2>1. Sound(heap_begin, heap', mmu', objs', stacks' \cup fifos', mapped')
    BY <1>2, <1>7, <1>8 DEF T
  <2>2. UartInv(objs', stacks', fifos', uarts')
    BY <1>1, <1>2, <1>8
  <2>3. QED
    BY <1>2, <2>1, <2>2, UpStep
<1>9. ASSUME NEW h, Fails(h), Sound(heap_begin, h, s.mmu, objs, T, E) PROVE MemoryInv'
  <2>1. Sound(heap_begin, heap', mmu', objs', stacks' \cup fifos', mapped')
    BY <1>2, <1>9 DEF T
  <2>2. UartInv(objs', stacks', fifos', uarts')
    BY <1>1, <1>2, <1>9
  <2>3. QED
    BY <1>2, <2>1, <2>2, UpStep
<1> HIDE DEF Fails
<1>10. ASSUME s.err = 0, k.mem # NULL
       PROVE  /\ n \notin objs /\ Sound(heap_begin, k.heap, s.mmu, objs \cup {n}, T, E)
              /\ \A h : Sound(heap_begin, h, s.mmu, objs \cup {n}, T, E) =>
                      Sound(heap_begin, kfree(h, k.mem).heap, s.mmu, objs, T, E)
  <2>1. Sound(heap_begin, s.heap, s.mmu, objs, T, E)
    BY <1>7, <1>10
  <2>2. n \notin objs /\ Sound(heap_begin, k.heap, s.mmu, objs \cup {n}, T, E)
    <3>1. k.mem # NULL
      BY <1>10
    <3>2. QED
      BY <1>5, <2>1, <3>1, ContextSound
  <2>3. ASSUME NEW h, Sound(heap_begin, h, s.mmu, objs \cup {n}, T, E)
        PROVE  Sound(heap_begin, kfree(h, k.mem).heap, s.mmu, objs, T, E)
    <3> DEFINE O == objs \cup {n}
    <3>1. n \in O /\ O \ {n} = objs /\ Sound(heap_begin, h, s.mmu, O, T, E)
      BY <2>2, <2>3
    <3> HIDE DEF O
    <3>2. Sound(heap_begin, kfree(h, n.mem).heap, s.mmu, O \ {n}, T, E)
      BY <3>1, KfreeSound
    <3>3. QED
      BY <1>3, <3>1, <3>2
  <2>4. QED
    BY <2>2, <2>3
<1>11. CASE s.err = 0 /\ k.mem = NULL /\ Fails(k.heap)
  <2>1. Sound(heap_begin, s.heap, s.mmu, objs, T, E)
    BY <1>7, <1>11
  <2>2. Sound(heap_begin, k.heap, s.mmu, objs, T, E)
    BY <1>5, <1>11, <2>1, ContextSound
  <2>3. QED
    BY <1>9, <1>11, <2>2
<1>12. CASE s.err = 0 /\ k.mem # NULL /\ a.bp = NULL /\ Fails(kfree(a.heap, k.mem).heap)
  <2>1. Sound(heap_begin, k.heap, s.mmu, objs \cup {n}, T, E)
    BY <1>10, <1>12
  <2>2. a.heap = k.heap
    <3>1. k.heap.pages \subseteq Nat
      BY <2>1, ShapeFacts, Zenon DEF Sound, HeapInv
    <3>2. QED
      BY <1>6, <1>12, <3>1, FifoFails
  <2>3. Sound(heap_begin, kfree(a.heap, k.mem).heap, s.mmu, objs, T, E)
    BY <1>10, <1>12, <2>1, <2>2
  <2>4. QED
    BY <1>9, <1>12, <2>3
<1>13. ASSUME s.err = 0, k.mem # NULL, a.bp # NULL
       PROVE  /\ a.bp \notin T /\ Sound(heap_begin, a.heap, s.mmu, objs \cup {n}, T \cup {a.bp}, E)
              /\ Sound(heap_begin, fifo_buffer_destroy(a.heap, a.bp), s.mmu, objs \cup {n}, T, E)
  <2>1. Sound(heap_begin, k.heap, s.mmu, objs \cup {n}, T, E)
    BY <1>10, <1>13
  <2>2. QED
    BY <1>6, <1>13, <2>1, FifoSound
<1>14. CASE /\ s.err = 0 /\ k.mem # NULL /\ a.bp # NULL /\ b.bp = NULL
            /\ Fails(kfree(fifo_buffer_destroy(b.heap, a.bp), k.mem).heap)
  <2>1. Sound(heap_begin, a.heap, s.mmu, objs \cup {n}, T \cup {a.bp}, E)
    BY <1>13, <1>14
  <2>2. b.heap = a.heap
    <3>1. a.heap.pages \subseteq Nat
      BY <2>1, ShapeFacts, Zenon DEF Sound, HeapInv
    <3>2. QED
      BY <1>6, <1>14, <3>1, FifoFails
  <2>3. Sound(heap_begin, fifo_buffer_destroy(b.heap, a.bp), s.mmu, objs \cup {n}, T, E)
    BY <1>13, <1>14, <2>2
  <2>4. Sound(heap_begin, kfree(fifo_buffer_destroy(b.heap, a.bp), k.mem).heap, s.mmu, objs, T, E)
    BY <1>10, <1>14, <2>3
  <2>5. QED
    BY <1>9, <1>14, <2>4
<1>15. CASE /\ s.err = 0 /\ k.mem # NULL /\ a.bp # NULL /\ b.bp # NULL
            /\ heap' = b.heap /\ mmu' = s.mmu /\ mapped' = E
            /\ objs' = objs \cup {u.context}
            /\ uarts' = uarts \cup {u} /\ fifos' = fifos \cup u.fifos
  <2>1. a.bp \notin T /\ Sound(heap_begin, a.heap, s.mmu, objs \cup {n}, T \cup {a.bp}, E)
    BY <1>13, <1>15
  <2>2. /\ b.bp \notin T \cup {a.bp}
        /\ Sound(heap_begin, b.heap, s.mmu, objs \cup {n}, (T \cup {a.bp}) \cup {b.bp}, E)
    BY <1>6, <1>15, <2>1, FifoSound
  <2>3. /\ heap' = b.heap /\ mmu' = s.mmu /\ mapped' = E /\ objs' = objs \cup {n}
        /\ uarts' = uarts \cup {u} /\ fifos' = fifos \cup {a.bp, b.bp} /\ stacks' = stacks
    BY <1>2, <1>3, <1>15
  <2>4. (T \cup {a.bp}) \cup {b.bp} = stacks' \cup fifos'
    BY <2>3 DEF T
  <2>5. Sound(heap_begin, heap', mmu', objs', stacks' \cup fifos', mapped')
    BY <2>2, <2>3, <2>4
  <2>6. n \notin objs
    BY <1>10, <1>15
  <2>7. /\ a.bp \notin stacks /\ b.bp \notin stacks /\ a.bp \notin fifos /\ b.bp \notin fifos
    BY <2>1, <2>2 DEF T
  <2>8. UartInv(objs', stacks', fifos', uarts')
    <3>1. /\ stacks \cap fifos = {}
          /\ \A w \in uarts : w.device \in UartRegions /\ w.context \in objs /\ w.fifos \subseteq fifos
          /\ \A v, w \in uarts : v # w => v.context # w.context /\ v.fifos \cap w.fifos = {}
      BY <1>1 DEF UartInv
    <3>2. stacks' \cap fifos' = {}
      BY <2>3, <2>7, <3>1
    <3>3. \A w \in uarts' : w.device \in UartRegions /\ w.context \in objs' /\ w.fifos \subseteq fifos'
      BY <1>3, <2>3, <3>1
    <3>4. \A w \in uarts : w.context # u.context /\ w.fifos \cap u.fifos = {}
      BY <1>3, <2>6, <2>7, <3>1
    <3>5. \A v, w \in uarts' : v # w => v.context # w.context /\ v.fifos \cap w.fifos = {}
      BY <2>3, <3>1, <3>4
    <3>6. QED
      BY <3>2, <3>3, <3>5 DEF UartInv
  <2>9. QED
    BY <1>2, <2>5, <2>8, UpStep
<1>16. QED
  BY <1>2, <1>8, <1>11, <1>12, <1>14, <1>15

LEMMA CloseStep ==
  ASSUME MemoryInv, phase \in {"up", "halted"}, NEW u \in uarts, _close(u)
  PROVE  MemoryInv'
<1> DEFINE T == stacks \cup fifos
           r == u.device
           s == vm_unmap(heap, mmu, r.page, r.size)
           D == mapped \ {r}
<1>1. Sound(heap_begin, heap, mmu, objs, T, mapped) /\ UartInv(objs, stacks, fifos, uarts)
  BY DEF MemoryInv
<1>2. /\ mmu' = s.mmu /\ mapped' = D /\ heap' = kfree(s.heap, u.context.mem).heap
      /\ objs' = objs \ {u.context} /\ uarts' = uarts \ {u}
      /\ UNCHANGED <<heap_begin, phase, boot, blocks, stacks, fifos>>
  BY Zenon DEF _close
<1>3. r \in Regions /\ s = vm_unmap(heap, mmu, r.page, r.size) /\ u.context \in objs
  BY <1>1 DEF UartInv, Regions
<1> HIDE DEF s, r
<1>4. Sound(heap_begin, s.heap, s.mmu, objs, T, D)
  BY <1>1, <1>3, DeviceUnmapped
<1> HIDE DEF D
<1>5. Sound(heap_begin, kfree(s.heap, u.context.mem).heap, s.mmu, objs \ {u.context}, T, D)
  BY <1>3, <1>4, KfreeSound
<1>6. Sound(heap_begin, heap', mmu', objs', stacks' \cup fifos', mapped')
  BY <1>2, <1>5
<1>7. UartInv(objs', stacks', fifos', uarts')
  BY <1>1, <1>2 DEF UartInv
<1>8. QED
  BY <1>2, <1>6, <1>7, UpStep

LEMMA WorkStep ==
  ASSUME MemoryInv, phase \in {"up", "halted"},
         \/ \E size \in Sizes : Kmalloc(size)
         \/ \E o \in objs \ {u.context : u \in uarts} : Kfree(o)
         \/ \E a \in Stale : KfreeAgain(a)
         \/ stack_alloc
         \/ \E p \in stacks : stack_free(p)
         \/ \E r \in UartRegions : _chrd_open(r)
         \/ \E u \in uarts : _close(u)
  PROVE  MemoryInv'
<1> DEFINE T == stacks \cup fifos
<1>1. Sound(heap_begin, heap, mmu, objs, T, mapped) /\ UartInv(objs, stacks, fifos, uarts)
  BY DEF MemoryInv
<1>2. ASSUME NEW size \in Sizes, Kmalloc(size) PROVE MemoryInv'
  <2> DEFINE k == kmalloc(heap, size, TRUE)
             n == [mem |-> k.mem, size |-> size]
             O == IF k.mem = NULL THEN objs ELSE objs \cup {n}
  <2>1. size \in Nat /\ HeapInv(heap, {}) /\ n = [mem |-> k.mem, size |-> size]
    BY <1>1, KernelMemoryAssumption DEF Sound
  <2>2. Mallocs(heap, k, size)
    BY <2>1, KmallocSpec
  <2>3. /\ heap' = k.heap /\ objs' = O
        /\ UNCHANGED <<heap_begin, phase, boot, blocks, mmu, stacks, mapped, uarts, fifos>>
    BY <1>2 DEF Kmalloc, uartVars
  <2> HIDE DEF k, n, T
  <2>4. Sound(heap_begin, k.heap, mmu, O, T, mapped)
    BY <1>1, <2>1, <2>2, KmallocSound DEF n
  <2>5. objs \subseteq O
    OBVIOUS
  <2> HIDE DEF O
  <2>6. Sound(heap_begin, heap', mmu', objs', stacks' \cup fifos', mapped')
    BY <2>3, <2>4 DEF T
  <2>7. UartInv(objs', stacks', fifos', uarts')
    BY <1>1, <2>3, <2>5 DEF UartInv
  <2>8. QED
    BY <2>3, <2>6, <2>7, UpStep
<1>3. ASSUME NEW o \in objs \ {u.context : u \in uarts}, Kfree(o) PROVE MemoryInv'
  <2>1. /\ heap' = kfree(heap, o.mem).heap /\ objs' = objs \ {o}
        /\ UNCHANGED <<heap_begin, phase, boot, blocks, mmu, stacks, mapped, uarts, fifos>>
    BY <1>3 DEF Kfree, uartVars
  <2>2. Sound(heap_begin, kfree(heap, o.mem).heap, mmu, objs \ {o}, T, mapped)
    BY <1>1, KfreeSound
  <2>3. UartInv(objs', stacks', fifos', uarts')
    BY <1>1, <2>1 DEF UartInv
  <2>4. QED
    BY <2>1, <2>2, <2>3, UpStep
<1>4. ASSUME NEW a \in Stale, KfreeAgain(a) PROVE MemoryInv'
  <2>1. /\ a \in [page : SlabPagesOf(heap), offset : 0 .. PAGE_SIZE - 1]
        /\ \A o \in objs : o.mem # a
    BY DEF Stale, SlabPages, SlabPagesOf
  <2>2. a \notin Range(mmu.l1)
    BY DEF Stale
  <2>3. kfree(heap, a).heap = heap
    <3> HIDE DEF T
    <3>1. QED
      BY <1>1, <2>1, <2>2, KfreeAgainSound
  <2>4. /\ heap' = heap
        /\ UNCHANGED <<heap_begin, phase, boot, blocks, mmu, objs, stacks, mapped, uarts, fifos>>
    BY <1>4, <2>3 DEF KfreeAgain, uartVars
  <2>5. QED
    BY <1>1, <2>4, UpStep
<1>5. ASSUME stack_alloc PROVE MemoryInv'
  <2>1. phase' \in {"up", "halted"} /\ UNCHANGED <<heap_begin, boot, blocks, mmu, objs, mapped, uarts, fifos>>
    BY <1>5 DEF stack_alloc, uartVars
  <2>2. CASE heap.pages = {}
    <3>1. heap' = heap /\ stacks' = stacks
      BY <1>5, <2>2 DEF stack_alloc
    <3>2. QED
      BY <1>1, <2>1, <3>1, UpStep
  <2>3. CASE heap.pages # {}
    <3> DEFINE p == Lowest(heap.pages)
    <3>1. heap' = TakePage(heap) /\ stacks' = stacks \cup {p}
      BY <1>5, <2>3 DEF stack_alloc
    <3>2. Sound(heap_begin, TakePage(heap), mmu, objs, T \cup {p}, mapped)
      <4> HIDE DEF T
      <4>1. QED
        BY <1>1, <2>3, StackAllocSound
    <3>3. p \notin T
      <4>1. heap.pages \subseteq Nat
        BY <1>1, ShapeFacts, PageNotNull DEF Sound, HeapInv
      <4>2. p \in heap.pages
        BY <2>3, <4>1, LowestOf
      <4> HIDE DEF T, p
      <4>3. QED
        BY <1>1, <4>2 DEF Sound, PagesInv, Managed
    <3> HIDE DEF p
    <3>4. T \cup {p} = stacks' \cup fifos'
      BY <2>1, <3>1
    <3>5. Sound(heap_begin, heap', mmu', objs', stacks' \cup fifos', mapped')
      BY <2>1, <3>1, <3>2, <3>4
    <3>6. UartInv(objs', stacks', fifos', uarts')
      BY <1>1, <2>1, <3>1, <3>3 DEF UartInv
    <3>7. QED
      BY <2>1, <3>5, <3>6, UpStep
  <2>4. QED
    BY <2>2, <2>3
<1>6. ASSUME NEW p \in stacks, stack_free(p) PROVE MemoryInv'
  <2>1. /\ heap' = GivePage(heap, p) /\ stacks' = stacks \ {p}
        /\ UNCHANGED <<heap_begin, phase, boot, blocks, mmu, objs, mapped, uarts, fifos>>
    BY <1>6 DEF stack_free, uartVars
  <2>2. Sound(heap_begin, GivePage(heap, p), mmu, objs, T \ {p}, mapped)
    <3>1. p \in T
      OBVIOUS
    <3> HIDE DEF T
    <3>2. QED
      BY <1>1, <3>1, StackFreeSound
  <2>3. T \ {p} = stacks' \cup fifos'
    BY <1>1, <2>1 DEF UartInv
  <2>4. UartInv(objs', stacks', fifos', uarts')
    BY <1>1, <2>1 DEF UartInv
  <2>5. QED
    BY <2>1, <2>2, <2>3, <2>4, UpStep
<1>7. ASSUME NEW r \in UartRegions, _chrd_open(r) PROVE MemoryInv'
  BY <1>7, OpenStep
<1>8. ASSUME NEW u \in uarts, _close(u) PROVE MemoryInv'
  BY <1>8, CloseStep
<1>9. QED
  BY <1>2, <1>3, <1>4, <1>5, <1>6, <1>7, <1>8

\* The inductive invariant: the lists of the caches tell the truth, every page and every chunk
\* has the owner the variables name, and the tables map what they should.
THEOREM MemoryInvariant == Spec => []MemoryInv
<1>1. ASSUME MemoryInv, [Next]_vars PROVE MemoryInv'
  <2>1. CASE boot_stack
    BY <1>1, <2>1, BootStack
  <2>2. CASE TakeTables
    BY <1>1, <2>2, BootTables1
  <2>3. CASE get_free_page_setup
    BY <1>1, <2>3, BootPageAllocator
  <2>4. CASE vm_map_device_regions
    BY <1>1, <2>4, BootDevices
  <2>5. CASE \/ \E size \in Sizes : Kmalloc(size)
             \/ \E o \in objs \ {u.context : u \in uarts} : Kfree(o)
             \/ \E a \in Stale : KfreeAgain(a)
             \/ stack_alloc
             \/ \E p \in stacks : stack_free(p)
             \/ \E r \in UartRegions : _chrd_open(r)
             \/ \E u \in uarts : _close(u)
    <3>1. phase = "up"
      BY <2>5 DEF Kmalloc, Kfree, KfreeAgain, stack_alloc, stack_free, _chrd_open, _close
    <3>2. QED
      BY <1>1, <2>5, <3>1, WorkStep
  <2>6. CASE Halted \/ UNCHANGED vars
    <3>1. UNCHANGED vars
      BY <2>6 DEF Halted
    <3>2. BootInv'
      BY <1>1, <3>1 DEF MemoryInv, BootInv, vars, uartVars, StackBlock, RootBlock, TablesBlock, BitsBlock
    <3>3. QED
      BY <1>1, <3>1, <3>2 DEF MemoryInv, vars, uartVars
  <2>7. QED
    BY <1>1, <2>1, <2>2, <2>3, <2>4, <2>5, <2>6 DEF Next
<1>2. QED
  BY <1>1, InitMemory, PTL DEF Spec

-----------------------------------------------------------------------------
(* What follows from it.                                                     *)

\* Before there is a heap, the same holds of none.
LEMMA NoHeapFacts ==
  /\ HeapInv(NoHeap, {}) /\ Marked(NoHeap) = {} /\ Managed(NoHeap) = {}
  /\ NoHeap.pages = {} /\ DOMAIN NoHeap.slab = {} /\ DOMAIN NoHeap.caches = {}
<1>1. /\ DOMAIN NoHeap = {"pages", "caches", "slab"} /\ NoHeap.pages = {}
      /\ NoHeap.caches = <<>> /\ NoHeap.slab = <<>>
  BY DEF NoHeap
<1>2. DOMAIN NoHeap.caches = {} /\ DOMAIN NoHeap.slab = {}
  BY <1>1
<1>3. Shape(NoHeap)
  <2>1. NoHeap.caches \in [{} -> OneCache] /\ NoHeap.slab \in [{} -> OneSlab]
    <3>1. <<>> \in [1 .. 0 -> OneCache] /\ <<>> \in [1 .. 0 -> OneSlab] /\ 1 .. 0 = {}
      OBVIOUS
    <3>2. QED
      BY <1>1, <3>1, Zenon
  <2>2. QED
    BY <1>1, <1>2, <2>1 DEF Shape
<1>4. Listed(NoHeap) /\ Marks(NoHeap, {}) /\ Counted(NoHeap) /\ PagesOnce(NoHeap, {})
  BY <1>2 DEF Listed, Marks, Counted, PagesOnce
<1>5. Managed(NoHeap) = {} /\ Marked(NoHeap) = {}
  BY <1>1, <1>2 DEF Managed, DescriptorsOf, SlabPagesOf, Marked
<1>6. QED
  BY <1>1, <1>2, <1>3, <1>4, <1>5 DEF HeapInv

\* The pages behind those taken at boot.
Behind == FirstPage(heap_begin) + 1 .. RamEnd - 1

LEMMA HeapFacts ==
  ASSUME MemoryInv
  PROVE  /\ HeapInv(heap, {}) /\ Out(heap, objs \cup MadeTables(mmu)) /\ objs \cap MadeTables(mmu) = {}
         /\ Managed(heap) \subseteq Behind /\ stacks \cup fifos \subseteq Behind
         /\ Managed(heap) \cap (stacks \cup fifos) = {} /\ stacks \cap fifos = {}
         /\ heap_begin \in HeapBegins
<1> USE DEF UartInv
<1>1. CASE phase \in {"devices", "up", "halted"}
  BY <1>1 DEF MemoryInv, Sound, Owners, PagesInv, Behind
<1>2. CASE phase \notin {"devices", "up", "halted"}
  <2>1. heap = NoHeap /\ objs = {} /\ stacks = {} /\ fifos = {} /\ heap_begin \in HeapBegins
    BY <1>2 DEF MemoryInv, BootInv
  <2>2. MadeTables(mmu) = {}
    <3>1. CASE mmu = NoMmu
      BY <3>1 DEF MadeTables, NoMmu
    <3>2. CASE mmu # NoMmu
      BY <1>2, <3>2 DEF MemoryInv, BootInv
    <3>3. QED
      BY <3>1, <3>2
  <2>3. Out(heap, {})
    BY <2>1, NoHeapFacts DEF Out
  <2>4. QED
    BY <2>1, <2>2, <2>3, NoHeapFacts
<1>3. QED
  BY <1>1, <1>2

\* What is taken at boot lies before that.
LEMMA BlockFacts ==
  ASSUME MemoryInv
  PROVE  /\ \A b \in blocks : b \subseteq heap_begin .. FirstPage(heap_begin) - 1
         /\ \A a, b \in blocks : a # b => a \cap b = {}
         /\ blocks \subseteq {StackBlock, RootBlock, TablesBlock, BitsBlock}
         /\ phase \notin {"stack", "tables"} => TablesBlock \in blocks
         /\ FirstPage(heap_begin) - 1 \in BitsBlock
<1> DEFINE h == heap_begin
           r == RootAt(h)
           t == TablesAt(h)
           b == BitmapsAt(h)
           f == FirstPage(h)
           n == BootTablePages(Cardinality(RamEntries))
<1>1. blocks \subseteq {StackBlock, RootBlock, TablesBlock, BitsBlock}
  <2>1. \/ blocks = {} \/ blocks = {StackBlock} \/ blocks = {StackBlock, RootBlock, TablesBlock}
        \/ blocks = {StackBlock, RootBlock, TablesBlock, BitsBlock}
    BY DEF MemoryInv, BootInv
  <2>2. QED
    BY <2>1
<1>2. phase \notin {"stack", "tables"} => TablesBlock \in blocks
  BY DEF MemoryInv, BootInv
<1>3. /\ h \in Nat /\ r \in Nat \ {0} /\ t \in Nat /\ b \in Nat /\ f \in Nat /\ n \in Nat
      /\ ROOT_PAGES \in Nat \ {0} /\ BITMAP_PAGES \in Nat \ {0}
      /\ t = h + r + ROOT_PAGES /\ b = t + n /\ f = b + BITMAP_PAGES
  BY BootAddresses, KernelMemoryAssumption DEF MemoryInv, BootInv
<1>4. /\ StackBlock = h .. h /\ RootBlock = h + r .. t - 1 /\ TablesBlock = t .. b - 1
      /\ BitsBlock = b .. f - 1
  BY <1>3 DEF StackBlock, RootBlock, TablesBlock, BitsBlock, BootBase
<1> HIDE DEF h, r, t, b, f, n
<1>5. h < h + r /\ h + r <= t /\ t <= b /\ b <= f - 1
  BY <1>3
<1>6. /\ \A x \in StackBlock : x = h
      /\ \A x \in RootBlock : x \in Nat /\ h < x /\ x < t
      /\ \A x \in TablesBlock : x \in Nat /\ t <= x /\ x < b
      /\ \A x \in BitsBlock : x \in Nat /\ b <= x /\ x < f
  BY <1>3, <1>4, <1>5
<1>7. ASSUME NEW x \in {StackBlock, RootBlock, TablesBlock, BitsBlock} PROVE x \subseteq h .. f - 1
  BY <1>3, <1>5, <1>6
<1>8. ASSUME NEW x \in {StackBlock, RootBlock, TablesBlock, BitsBlock},
             NEW y \in {StackBlock, RootBlock, TablesBlock, BitsBlock}, x # y, NEW p \in x, p \in y
      PROVE  FALSE
  BY <1>3, <1>5, <1>6, <1>8
<1>9. f - 1 \in BitsBlock
  BY <1>3, <1>4, <1>5
<1>10. QED
  BY <1>1, <1>2, <1>7, <1>8, <1>9 DEF h, f

\* The tables: of devices, or in the pages taken for them at boot.
LEMMA TableFacts ==
  ASSUME MemoryInv
  PROVE  /\ DOMAIN mmu.l1 = 0 .. L1_ENTRIES - 1
         /\ \A e, f \in DOMAIN mmu.l1 : e # f /\ mmu.l1[e] # NULL => mmu.l1[e] # mmu.l1[f]
         /\ MadeTables(mmu) \subseteq Tables
         /\ \A t \in Tables : t \in MadeTables(mmu) \/
              /\ \E i \in Nat : t = [mem |-> BootTable(TablesAt(heap_begin), i), size |-> L2_SIZE]
              /\ t.mem.page \in TablesBlock /\ TablesBlock \in blocks
<1>1. CASE phase \in {"stack", "tables"}
  <2>1. mmu = NoMmu
    BY <1>1 DEF MemoryInv, BootInv
  <2>2. DOMAIN mmu.l1 = 0 .. L1_ENTRIES - 1 /\ \A e \in DOMAIN mmu.l1 : mmu.l1[e] = NULL
    BY <2>1 DEF NoMmu
  <2>3. QED
    BY <2>2 DEF MadeTables, Tables
<1>2. CASE phase \notin {"stack", "tables"}
  <2>1. MmuShape(mmu) /\ TablesInv(heap_begin, mmu) /\ heap_begin \in HeapBegins
    BY <1>2 DEF MemoryInv, BootInv, Sound, MmuInv
  <2>2. DOMAIN mmu.l1 = 0 .. L1_ENTRIES - 1
    BY <2>1 DEF MmuShape
  <2>3. TablesBlock \in blocks
    BY <1>2, BlockFacts
  <2>4. ASSUME NEW t \in Tables, t \notin MadeTables(mmu)
        PROVE  /\ \E i \in Nat : t = [mem |-> BootTable(TablesAt(heap_begin), i), size |-> L2_SIZE]
               /\ t.mem.page \in TablesBlock
    <3>1. PICK e \in DOMAIN mmu.l1 : mmu.l1[e] # NULL /\ t = [mem |-> mmu.l1[e], size |-> L2_SIZE]
      BY DEF Tables
    <3>2. e \in RamEntries
      BY <2>4, <3>1 DEF MadeTables
    <3>3. mmu.l1[e].page \in TablesBlock
      BY <2>1, <3>2, RamTables DEF TablesBlock
    <3>4. mmu.l1[e] = BootTable(TablesAt(heap_begin), e - Lowest(RamEntries)) /\ e - Lowest(RamEntries) \in Nat
      BY <2>1, <3>2, RamEntriesFacts DEF TablesInv
    <3>5. t.mem = mmu.l1[e]
      BY <3>1
    <3>6. QED
      BY <3>1, <3>3, <3>4, <3>5
  <2>5. MadeTables(mmu) \subseteq Tables
    BY DEF MadeTables, Tables
  <2>6. QED
    BY <2>1, <2>2, <2>3, <2>4, <2>5 DEF TablesInv
<1>3. QED
  BY <1>1, <1>2

\* The chunks marked are of the slab's page.
LEMMA BitmapFacts ==
  ASSUME NEW h, HeapInv(h, {}), NEW s \in DOMAIN h.slab
  PROVE  /\ h.slab[s].bitmap \subseteq 0 .. PAGE_SIZE - 1
         /\ h.slab[s].allocated_chunks \in 0 .. PAGE_SIZE
<1> DEFINE B == h.slab[s].bitmap
<1>1. PICK c \in DOMAIN h.caches : \E l \in Lists : s \in In(h, c, l)
  BY DEF HeapInv, Listed
<1>2. c \in Pools
  BY ShapeFacts DEF HeapInv
<1>3. B \subseteq Chunks(c)
  BY <1>1 DEF HeapInv, Marks, Lists
<1>4. /\ CHUNKS_PER_SLAB(c) \in Nat /\ CHUNKS_PER_SLAB(c) <= PAGE_SIZE /\ PAGE_SIZE \in Nat
      /\ Chunks(c) = 0 .. CHUNKS_PER_SLAB(c) - 1
      /\ IsFiniteSet(Chunks(c)) /\ Cardinality(Chunks(c)) = CHUNKS_PER_SLAB(c)
  BY <1>2, ChunkFacts, MemCacheAssumption
<1> HIDE DEF B
<1>5. IsFiniteSet(B) /\ Cardinality(B) \in Nat /\ Cardinality(B) <= CHUNKS_PER_SLAB(c)
  BY <1>3, <1>4, FS_Subset, FS_CardinalityType
<1>6. h.slab[s].allocated_chunks = Cardinality(B)
  BY DEF HeapInv, Counted, B
<1>7. Cardinality(B) \in 0 .. PAGE_SIZE
  BY <1>4, <1>5
<1>8. B \subseteq 0 .. PAGE_SIZE - 1
  <2>1. 0 .. CHUNKS_PER_SLAB(c) - 1 \subseteq 0 .. PAGE_SIZE - 1
    BY <1>4
  <2>2. QED
    BY <1>3, <1>4, <2>1
<1>9. QED
  BY <1>6, <1>7, <1>8 DEF B

LEMMA HeapTyped ==
  ASSUME NEW h, HeapInv(h, {})
  PROVE  HeapOK(h)
<1>1. Shape(h)
  BY DEF HeapInv
<1>2. /\ \A c \in DOMAIN h.caches :
           h.caches[c] \in [free : Seq(Slab), partial : Seq(Slab), full : Seq(Slab)]
      /\ \A s \in DOMAIN h.slab : h.slab[s].page \in Ram \cup {NULL}
  BY <1>1, ShapeFacts DEF OneCache
<1>3. \A s \in DOMAIN h.slab : /\ h.slab[s].bitmap \subseteq 0 .. PAGE_SIZE - 1
                               /\ h.slab[s].allocated_chunks \in 0 .. PAGE_SIZE
  BY BitmapFacts
<1>4. QED
  BY <1>1, <1>2, <1>3 DEF HeapOK, Shape

LEMMA TypeOKFollows == MemoryInv => TypeOK
<1> SUFFICES ASSUME MemoryInv PROVE TypeOK
  OBVIOUS
<1>1. heap_begin \in HeapBegins /\ heap_begin \in Nat /\ heap_begin \in Ram /\ FirstPage(heap_begin) \in Ram
  BY BootAddresses DEF MemoryInv, BootInv
<1>2. boot \in Nat /\ phase \in {"stack", "tables", "page allocator", "devices", "up", "halted"}
  BY DEF MemoryInv, BootInv
<1>3. heap_begin .. FirstPage(heap_begin) - 1 \subseteq Ram /\ Behind \subseteq Ram
  <2> DEFINE f == FirstPage(heap_begin)
  <2>1. /\ PHYSICAL_MEMORY_BASE_ADDRESS \in Nat /\ PHYSICAL_MEMORY_LENGTH \in Nat
        /\ heap_begin \in Ram /\ f \in Ram
    BY <1>1, KernelMemoryAssumption
  <2> HIDE DEF f
  <2>2. heap_begin .. f - 1 \subseteq Ram /\ f + 1 .. RamEnd - 1 \subseteq Ram
    BY <2>1 DEF Ram, RamEnd
  <2>3. QED
    BY <2>2 DEF f, Behind
<1>4. blocks \subseteq SUBSET Ram
  BY <1>3, BlockFacts
<1>5. HeapOK(heap)
  BY HeapFacts, HeapTyped
<1>6. stacks \subseteq Ram /\ fifos \subseteq Ram
  BY <1>3, HeapFacts
<1>u. \A u \in uarts : u.device \in UartRegions /\ u.context \in objs /\ u.fifos \subseteq fifos
  BY DEF MemoryInv, UartInv
<1>7. /\ DOMAIN mmu.l1 = 0 .. L1_ENTRIES - 1
      /\ \A e \in DOMAIN mmu.l1 : mmu.l1[e] = NULL \/ mmu.l1[e] \in DOMAIN mmu.l2
      /\ \A t \in mmu.tlb : t.virt \in Virtual /\ Usable(t.page)
      /\ mapped \subseteq Regions
  <2>1. CASE phase \in {"stack", "tables"}
    <3>1. mmu = NoMmu /\ mapped = {}
      BY <2>1 DEF MemoryInv, BootInv
    <3>2. DOMAIN mmu.l1 = 0 .. L1_ENTRIES - 1 /\ (\A e \in DOMAIN mmu.l1 : mmu.l1[e] = NULL) /\ mmu.tlb = {}
      BY <3>1 DEF NoMmu
    <3>3. QED
      BY <3>1, <3>2
  <2>2. CASE phase \notin {"stack", "tables"}
    <3>1. /\ MmuInv(heap_begin, mmu, mapped)
      <4>1. CASE phase = "page allocator"
        BY <4>1 DEF MemoryInv, BootInv
      <4>2. CASE phase # "page allocator"
        BY <1>2, <2>2, <4>2 DEF MemoryInv, Sound
      <4>3. QED
        BY <4>1, <4>2
    <3>2. mapped \subseteq Regions /\ MmuShape(mmu) /\ mmu.tlb = Translations(mmu)
      BY <3>1 DEF MmuInv, MapInv
    <3>3. \A t \in Translations(mmu) : t.virt \in Virtual /\ Usable(t.page)
      BY DEF Translations
    <3>4. QED
      BY <3>2, <3>3 DEF MmuShape
  <2>3. QED
    BY <2>1, <2>2
<1>8. QED
  BY <1>1, <1>2, <1>4, <1>5, <1>6, <1>7, <1>u DEF TypeOK, Regions

\* The variables of the memory keep their types: the bitmap of a slab holds chunks of one page,
\* the count of chunks never exceeds a page's, a first-level entry leads to a table that exists.
THEOREM MemoryTypes == Spec => []TypeOK
BY MemoryInvariant, TypeOKFollows, PTL

LEMMA MapExactFollows == MemoryInv => MapExact
<1> SUFFICES ASSUME MemoryInv, phase \in {"up", "halted"} PROVE MapExact
  BY DEF MapExact
<1>1. MapInv(mmu, mapped)
  BY DEF MemoryInv, Sound, MmuInv
<1> DEFINE devices == UNION {Region(r) : r \in mapped}
<1>2. \A v : v \in devices <=> \E r \in mapped : v \in Region(r)
  OBVIOUS
<1> HIDE DEF devices
<1>3. ASSUME NEW v \in Virtual
      PROVE  IF v \in Ram THEN Entry(mmu, v) = SmallPage(v, "RAM")
             ELSE IF v \in devices THEN Entry(mmu, v) = SmallPage(v, "DEVICE")
             ELSE ~Usable(Entry(mmu, v))
  BY <1>1, <1>2 DEF MapInv
<1>4. mmu.tlb = Translations(mmu)
  BY <1>1 DEF MapInv
<1>5. QED
  BY <1>3, <1>4 DEF MapExact, devices

\* Memory is mapped at its own addresses; so are the devices of boot and of every open that got as
\* far as mapping its UART, whether it failed afterwards or not, until a close of any instance of
\* that UART; nothing else is accessible and no stale translation is left: for any devices, pools
\* and sequence of calls.
THEOREM MapIsExact == Spec => []MapExact
BY MemoryInvariant, MapExactFollows, PTL

\* The CPU can use a page of a device.
LEMMA DeviceUsable == \A v \in Virtual : Usable(SmallPage(v, "DEVICE"))
<1>1. Asked("DEVICE").access = "full"
  BY DEF Asked, AskedOfRam, AskedOfFlags
<1>2. ASSUME NEW v PROVE SmallPage(v, "DEVICE").access # "none"
  BY <1>1 DEF SmallPage
<1>3. QED
  BY <1>2, PageTablesAssumption DEF Usable

\* An open UART is mapped.
LEMMA OpenIsMapped ==
  ASSUME MemoryInv, NEW u \in uarts, NEW v \in Region(u.device), Usable(Entry(mmu, v))
  PROVE  /\ u.device \in mapped /\ v \in Virtual
         /\ phase \in {"up", "halted"}
<1>1. phase \in {"up", "halted"}
  BY DEF MemoryInv, BootInv
<1>2. MapInv(mmu, mapped) /\ mapped \subseteq Regions /\ u.device \in Regions
  BY <1>1 DEF MemoryInv, Sound, MmuInv, UartInv, Regions
<1>3. v \in Virtual /\ v \notin Ram /\ \A q \in Regions : q # u.device => v \notin Region(q)
  BY <1>2, KernelMemoryAssumption
<1>4. PICK r \in mapped : v \in Region(r)
  BY <1>2, <1>3 DEF MapInv
<1>5. QED
  BY <1>1, <1>2, <1>3, <1>4

\* Only a close takes a device from the tables, and only its own.
LEMMA OnlyCloseUnmaps ==
  ASSUME phase \in {"up", "halted"}, [Next]_vars, NEW r \in mapped, r \notin mapped'
  PROVE  \E w \in uarts \ uarts' : w.device = r
<1>1. CASE \E u \in uarts : _close(u)
  <2>1. PICK u \in uarts : mapped' = mapped \ {u.device} /\ uarts' = uarts \ {u}
    BY <1>1, Zenon DEF _close
  <2>2. QED
    BY <2>1
<1>2. CASE \E q \in UartRegions : _chrd_open(q)
  <2>1. mapped \subseteq mapped'
    BY <1>2 DEF _chrd_open, OpenFails
  <2>2. QED
    BY <2>1
<1>3. CASE boot_stack \/ TakeTables \/ get_free_page_setup \/ vm_map_device_regions
  BY <1>3 DEF boot_stack, TakeTables, get_free_page_setup, vm_map_device_regions
<1>4. CASE \/ \E size \in Sizes : Kmalloc(size)
           \/ \E o \in objs \ {u.context : u \in uarts} : Kfree(o)
           \/ \E a \in Stale : KfreeAgain(a)
           \/ stack_alloc
           \/ \E p \in stacks : stack_free(p)
           \/ Halted \/ UNCHANGED vars
  <2>1. mapped' = mapped
    BY <1>4, Zenon DEF Kmalloc, Kfree, KfreeAgain, stack_alloc, stack_free, Halted, vars
  <2>2. QED
    BY <2>1
<1>5. QED
  BY <1>1, <1>2, <1>3, <1>4 DEF Next

\* The registers of a UART that is open and mapped stay accessible in every step, failed opens,
\* allocations and closings of other devices among them, but the close of an instance of it.
THEOREM RegistersKept == Spec => RegistersStay
<1> DEFINE Kept == \A u \in uarts \cap uarts' : \A v \in Region(u.device) :
                     Usable(Entry(mmu, v)) /\ ~Usable(Entry(mmu', v)) =>
                       \E w \in uarts \ uarts' : w.device = u.device
<1>1. MemoryInv /\ MemoryInv' /\ [Next]_vars => Kept
  <2> SUFFICES ASSUME MemoryInv, MemoryInv', [Next]_vars,
                      NEW u \in uarts \cap uarts', NEW v \in Region(u.device),
                      Usable(Entry(mmu, v)), ~Usable(Entry(mmu', v))
               PROVE  \E w \in uarts \ uarts' : w.device = u.device
    OBVIOUS
  <2>1. u.device \in mapped /\ v \in Virtual /\ phase \in {"up", "halted"}
    BY OpenIsMapped
  <2>2. u.device \notin mapped'
    <3>1. phase' \in {"up", "halted"}
      BY DEF MemoryInv, BootInv
    <3>2. MapInv(mmu', mapped')
      BY <3>1 DEF MemoryInv, Sound, MmuInv
    <3>3. Usable(SmallPage(v, "DEVICE"))
      BY <2>1, DeviceUsable
    <3>4. QED
      BY <2>1, <3>2, <3>3 DEF MapInv
  <2>3. QED
    BY <2>1, <2>2, OnlyCloseUnmaps
<1>2. MemoryInv /\ MemoryInv' /\ [Next]_vars => [Kept]_vars
  BY <1>1
<1>3. QED
  BY <1>2, MemoryInvariant, PTL DEF Spec, RegistersStay, Kept

LEMMA PagesAccountedFollows == MemoryInv => PagesAccounted
<1> SUFFICES ASSUME MemoryInv, phase \in {"devices", "up", "halted"} PROVE PagesAccounted
  BY DEF PagesAccounted
<1> DEFINE before == UNION blocks
           m == CHOOSE p \in before : \A q \in before : q <= p
           first == 1 + m
           f == FirstPage(heap_begin)
<1>1. HeapInv(heap, {}) /\ PagesInv(heap_begin, heap, stacks \cup fifos) /\ heap_begin \in HeapBegins
  BY DEF MemoryInv, Sound
<1>2. f \in Ram /\ f \in Nat /\ RamEnd \in Nat /\ f <= RamEnd - 1 /\ heap_begin \in Nat
  BY <1>1, BootAddresses, KernelMemoryAssumption DEF Ram, RamEnd
<1>3. first = f
  <2>1. f - 1 \in before
    <3>1. f - 1 \in BitsBlock
      BY BlockFacts
    <3>2. BitsBlock \in blocks
      BY DEF MemoryInv, BootInv
    <3>3. QED
      BY <3>1, <3>2
  <2>2. \A q \in before : q \in heap_begin .. f - 1
    BY BlockFacts
  <2> HIDE DEF before, f
  <2>3. \A q \in before : q \in Nat /\ q <= f - 1
    BY <1>2, <2>2
  <2>4. m \in before /\ \A q \in before : q <= m
    BY <2>1, <2>3
  <2> HIDE DEF m
  <2>5. m = f - 1
    BY <1>2, <2>1, <2>3, <2>4
  <2>6. QED
    BY <1>2, <2>5
<1> HIDE DEF before, m, first, f
<1>4. SlabPages = SlabPagesOf(heap) /\ Descriptors = DescriptorsOf(heap)
  BY DEF SlabPages, SlabPagesOf, Descriptors, DescriptorsOf
<1>5. /\ heap.pages \cup Descriptors \cup SlabPages \cup stacks \cup fifos = f + 1 .. RamEnd - 1
  BY <1>1, <1>4 DEF PagesInv, Managed, f
<1>6. f .. RamEnd - 1 = {f} \cup heap.pages \cup Descriptors \cup SlabPages \cup stacks \cup fifos
  <2>1. f .. RamEnd - 1 = {f} \cup (f + 1 .. RamEnd - 1)
    BY <1>2
  <2>2. QED
    BY <1>5, <2>1
<1>7. f \notin heap.pages \cup Descriptors \cup SlabPages \cup stacks \cup fifos
  BY <1>2, <1>5
<1>8. PagesOnce(heap, {})
  BY <1>1 DEF HeapInv
<1>9. /\ \A s, t \in DOMAIN heap.slab :
            s # t /\ heap.slab[s].page # NULL => heap.slab[s].page # heap.slab[t].page
      /\ \A s \in DOMAIN heap.slab : (heap.slab[s].page = NULL) = (heap.slab[s].bitmap = {})
  <2>1. \A s \in DOMAIN heap.slab : heap.slab[s].page = NULL <=> heap.slab[s].bitmap = {}
    BY <1>8 DEF PagesOnce
  <2>2. QED
    BY <1>8, <2>1 DEF PagesOnce
<1>10. (Descriptors \cup SlabPages) \cap heap.pages = {} /\ Descriptors \cap SlabPages = {}
  BY <1>8 DEF PagesOnce, Descriptors, SlabPages
<1>11. QED
  BY <1>3, <1>6, <1>7, <1>9, <1>10 DEF PagesAccounted, first, m, before

\* No page is lost, however often caches grow and shrink, devices are mapped, threads come and
\* go, and allocations fail: each page is free or has exactly one use.
THEOREM NoPageLost == Spec => []PagesAccounted
BY MemoryInvariant, PagesAccountedFollows, PTL

-----------------------------------------------------------------------------
(* Who has what is apart.                                                    *)

\* A chunk that is out: its slab, its number, and that it is large enough.
LEMMA OutChunk ==
  ASSUME NEW h, HeapInv(h, {}), NEW out, Out(h, out), NEW o \in out
  PROVE  \E c \in DOMAIN h.caches : \E s \in DOMAIN h.slab : \E b \in h.slab[s].bitmap :
           /\ s \in SlabsOf(h, c) /\ c \in Pools /\ b \in Nat
           /\ o.mem.page = h.slab[s].page /\ o.mem.offset = b * chunk_size[c]
           /\ h.slab[s].page # NULL /\ o.size \in Nat /\ o.size <= chunk_size[c]
           /\ o.mem = [page |-> h.slab[s].page, offset |-> b * chunk_size[c]]
<1> DEFINE x == <<PoolOf(o.size), o.mem>>
<1>1. x \in Marked(h)
  BY OutAt
<1>2. PICK c \in DOMAIN h.caches : \E s \in SlabsOf(h, c) : x \in ChunksOf(h, c, s)
  BY <1>1, MarkedAt
<1>3. PICK s \in SlabsOf(h, c) : x \in ChunksOf(h, c, s)
  BY <1>2
<1>4. PICK b \in h.slab[s].bitmap : x = <<c, [page |-> h.slab[s].page, offset |-> b * chunk_size[c]]>>
  BY <1>3, ChunkAt
<1>5. PoolOf(o.size) = c /\ o.mem = [page |-> h.slab[s].page, offset |-> b * chunk_size[c]]
  BY <1>4
<1>6. /\ s \in DOMAIN h.slab /\ h.slab[s].page # NULL
  BY <1>3, <1>4, ListedSlab DEF HeapInv, PagesOnce
<1>7. o.size \in Nat /\ PoolFor(o.size) # {}
  BY DEF Out
<1>8. c \in PoolFor(o.size)
  BY <1>5, <1>7, PoolOfFacts
<1>9. o.size <= chunk_size[c] /\ c \in Pools
  <2>1. chunk_size[c] >= o.size /\ c \in Pools
    BY <1>8 DEF PoolFor
  <2>2. chunk_size[c] \in Nat
    BY <2>1, ChunkFacts
  <2>3. QED
    BY <1>7, <2>1, <2>2
<1>10. b \in Nat
  BY <1>6, ShapeFacts DEF HeapInv
<1>11. o.mem.page = h.slab[s].page /\ o.mem.offset = b * chunk_size[c]
  BY <1>5
<1>12. QED
  BY <1>3, <1>5, <1>6, <1>7, <1>9, <1>10, <1>11

\* The bytes of a chunk.
LEMMA ExtentAt ==
  ASSUME NEW o, NEW x, x \in Extent(o)
  PROVE  \E i \in 0 .. o.size - 1 : x.page = o.mem.page /\ x.offset = o.mem.offset + i
BY DEF Extent

LEMMA OutApart ==
  ASSUME NEW h, HeapInv(h, {}), NEW out, Out(h, out), NEW o \in out, NEW q \in out, o # q,
         NEW x, x \in Extent(o), x \in Extent(q)
  PROVE  FALSE
<1>1. PICK c \in DOMAIN h.caches : \E s \in DOMAIN h.slab : \E b \in h.slab[s].bitmap :
           /\ s \in SlabsOf(h, c) /\ c \in Pools /\ b \in Nat
           /\ o.mem.page = h.slab[s].page /\ o.mem.offset = b * chunk_size[c]
           /\ h.slab[s].page # NULL /\ o.size \in Nat /\ o.size <= chunk_size[c]
           /\ o.mem = [page |-> h.slab[s].page, offset |-> b * chunk_size[c]]
  BY OutChunk
<1>2. PICK s \in DOMAIN h.slab : \E b \in h.slab[s].bitmap :
           /\ s \in SlabsOf(h, c) /\ c \in Pools /\ b \in Nat
           /\ o.mem.page = h.slab[s].page /\ o.mem.offset = b * chunk_size[c]
           /\ h.slab[s].page # NULL /\ o.size \in Nat /\ o.size <= chunk_size[c]
           /\ o.mem = [page |-> h.slab[s].page, offset |-> b * chunk_size[c]]
  BY <1>1
<1>3. PICK b \in h.slab[s].bitmap :
           /\ s \in SlabsOf(h, c) /\ c \in Pools /\ b \in Nat
           /\ o.mem.page = h.slab[s].page /\ o.mem.offset = b * chunk_size[c]
           /\ h.slab[s].page # NULL /\ o.size \in Nat /\ o.size <= chunk_size[c]
           /\ o.mem = [page |-> h.slab[s].page, offset |-> b * chunk_size[c]]
  BY <1>2
<1>4. PICK d \in DOMAIN h.caches : \E t \in DOMAIN h.slab : \E a \in h.slab[t].bitmap :
           /\ t \in SlabsOf(h, d) /\ d \in Pools /\ a \in Nat
           /\ q.mem.page = h.slab[t].page /\ q.mem.offset = a * chunk_size[d]
           /\ h.slab[t].page # NULL /\ q.size \in Nat /\ q.size <= chunk_size[d]
           /\ q.mem = [page |-> h.slab[t].page, offset |-> a * chunk_size[d]]
  BY OutChunk
<1>5. PICK t \in DOMAIN h.slab : \E a \in h.slab[t].bitmap :
           /\ t \in SlabsOf(h, d) /\ d \in Pools /\ a \in Nat
           /\ q.mem.page = h.slab[t].page /\ q.mem.offset = a * chunk_size[d]
           /\ h.slab[t].page # NULL /\ q.size \in Nat /\ q.size <= chunk_size[d]
           /\ q.mem = [page |-> h.slab[t].page, offset |-> a * chunk_size[d]]
  BY <1>4
<1>6. PICK a \in h.slab[t].bitmap :
           /\ t \in SlabsOf(h, d) /\ d \in Pools /\ a \in Nat
           /\ q.mem.page = h.slab[t].page /\ q.mem.offset = a * chunk_size[d]
           /\ h.slab[t].page # NULL /\ q.size \in Nat /\ q.size <= chunk_size[d]
           /\ q.mem = [page |-> h.slab[t].page, offset |-> a * chunk_size[d]]
  BY <1>5
<1>7. PICK i \in 0 .. o.size - 1 : x.page = o.mem.page /\ x.offset = o.mem.offset + i
  BY ExtentAt
<1>8. PICK j \in 0 .. q.size - 1 : x.page = q.mem.page /\ x.offset = q.mem.offset + j
  BY ExtentAt
<1>9. s = t
  BY <1>3, <1>6, <1>7, <1>8 DEF HeapInv, PagesOnce
<1>10. c = d
  BY <1>3, <1>6, <1>9, SlabsAt DEF HeapInv, Listed
<1> DEFINE n == chunk_size[c]
<1>11. n \in Nat \ {0} /\ i \in 0 .. n - 1 /\ j \in 0 .. n - 1
  <2>1. n \in Nat \ {0}
    BY <1>3, ChunkFacts
  <2>2. o.size \in Nat /\ o.size <= n /\ q.size \in Nat /\ q.size <= n
    BY <1>3, <1>6, <1>10
  <2> HIDE DEF n
  <2>3. QED
    BY <2>1, <2>2
<1>12. b * n + i = a * n + j
  BY <1>3, <1>6, <1>7, <1>8, <1>10
<1> HIDE DEF n
<1>13. b = a
  <2>1. b \in Nat /\ a \in Nat
    BY <1>3, <1>6
  <2>2. QED
    BY <2>1, <1>11, <1>12, ChunkApart
<1>14. o.mem = q.mem
  BY <1>3, <1>6, <1>9, <1>10, <1>13
<1>15. QED
  BY <1>14 DEF Out

\* A chunk's page is one of a slab's.
LEMMA OutPage ==
  ASSUME NEW h, HeapInv(h, {}), NEW out, Out(h, out), NEW o \in out
  PROVE  o.mem.page \in SlabPagesOf(h) /\ o.mem.page \in Managed(h)
<1> DEFINE x == <<PoolOf(o.size), o.mem>>
<1>1. x \in Marked(h) /\ x[2] = o.mem
  BY OutAt
<1> HIDE DEF x
<1>2. QED
  BY <1>1, MarkedManaged

\* Two parts of memory that are apart from page to page or within one.
LEMMA PartsApart ==
  ASSUME MemoryInv, NEW o \in objs \cup Tables, NEW q \in objs \cup Tables, o # q,
         NEW x, x \in Extent(o), x \in Extent(q)
  PROVE  FALSE
<1> DEFINE out == objs \cup MadeTables(mmu)
           base == TablesAt(heap_begin)
<1>1. HeapInv(heap, {}) /\ Out(heap, out) /\ Managed(heap) \subseteq Behind /\ heap_begin \in HeapBegins
  BY HeapFacts
<1>2. base \in Nat /\ FirstPage(heap_begin) \in Nat
  BY <1>1, BootAddresses
<1>3. ASSUME NEW p \in objs \cup Tables, p \notin out
      PROVE  /\ \E i \in Nat : p = [mem |-> BootTable(base, i), size |-> L2_SIZE]
             /\ p.mem.page \in heap_begin .. FirstPage(heap_begin) - 1
  <2>1. p \in Tables /\ p \notin MadeTables(mmu)
    BY <1>3
  <2>2. /\ \E i \in Nat : p = [mem |-> BootTable(TablesAt(heap_begin), i), size |-> L2_SIZE]
        /\ p.mem.page \in TablesBlock /\ TablesBlock \in blocks
    BY <2>1, TableFacts
  <2>3. p.mem.page \in heap_begin .. FirstPage(heap_begin) - 1
    BY <2>2, BlockFacts
  <2>4. QED
    BY <2>2, <2>3
<1>4. ASSUME NEW p \in out PROVE p.mem.page \in Behind
  <2> HIDE DEF out
  <2>1. p.mem.page \in Managed(heap)
    BY <1>1, OutPage
  <2>2. QED
    BY <1>1, <2>1
<1> HIDE DEF out, base
<1>5. PICK i \in 0 .. o.size - 1 : x.page = o.mem.page /\ x.offset = o.mem.offset + i
  BY ExtentAt
<1>6. PICK j \in 0 .. q.size - 1 : x.page = q.mem.page /\ x.offset = q.mem.offset + j
  BY ExtentAt
<1>7. heap_begin \in Nat
  BY <1>1, BootAddresses
<1>8. \A p : p \in Behind => p \notin heap_begin .. FirstPage(heap_begin) - 1
  BY <1>2, <1>7, KernelMemoryAssumption DEF Behind, RamEnd
<1>9. CASE o \in out /\ q \in out
  BY <1>1, <1>9, OutApart
<1>10. CASE o \in out /\ q \notin out
  BY <1>3, <1>4, <1>5, <1>6, <1>8, <1>10
<1>11. CASE o \notin out /\ q \in out
  BY <1>3, <1>4, <1>5, <1>6, <1>8, <1>11
<1>12. CASE o \notin out /\ q \notin out
  <2>1. PICK a \in Nat : o = [mem |-> BootTable(base, a), size |-> L2_SIZE]
    BY <1>3, <1>12
  <2>2. PICK b \in Nat : q = [mem |-> BootTable(base, b), size |-> L2_SIZE]
    BY <1>3, <1>12
  <2>3. /\ o.mem = BootTable(base, a) /\ o.size = L2_SIZE /\ q.mem = BootTable(base, b) /\ q.size = L2_SIZE
    BY <2>1, <2>2
  <2>4. /\ i \in 0 .. L2_SIZE - 1 /\ j \in 0 .. L2_SIZE - 1
        /\ BootTable(base, a).page = BootTable(base, b).page
        /\ BootTable(base, a).offset + i = BootTable(base, b).offset + j
    BY <1>5, <1>6, <2>3
  <2>5. a = b
    BY <1>2, <2>4, BootTablesApart
  <2>6. QED
    BY <2>1, <2>2, <2>5
<1>13. QED
  BY <1>9, <1>10, <1>11, <1>12

LEMMA OneOwnerFollows == MemoryInv => OneOwner
<1> SUFFICES ASSUME MemoryInv PROVE OneOwner
  OBVIOUS
<1> DEFINE whole == blocks \cup {{p} : p \in heap.pages} \cup {{p} : p \in stacks \cup fifos}
                           \cup {{p} : p \in Descriptors}
           parts == objs \cup Tables
           in(S) == UNION {Units(p) : p \in S}
           begun == heap_begin .. FirstPage(heap_begin) - 1
<1>1. /\ HeapInv(heap, {}) /\ Out(heap, objs \cup MadeTables(mmu)) /\ heap_begin \in HeapBegins
      /\ Managed(heap) \subseteq Behind /\ stacks \cup fifos \subseteq Behind
      /\ Managed(heap) \cap (stacks \cup fifos) = {} /\ stacks \cap fifos = {}
  BY HeapFacts
<1>2. SlabPages = SlabPagesOf(heap) /\ Descriptors = DescriptorsOf(heap)
  BY DEF SlabPages, SlabPagesOf, Descriptors, DescriptorsOf
<1>3. /\ heap.pages \subseteq Behind /\ Descriptors \subseteq Behind /\ SlabPages \subseteq Behind
      /\ heap.pages \cap (stacks \cup fifos) = {} /\ Descriptors \cap (stacks \cup fifos) = {}
      /\ SlabPages \cap (stacks \cup fifos) = {}
  BY <1>1, <1>2 DEF Managed
<1>4. heap.pages \cap Descriptors = {} /\ SlabPages \cap heap.pages = {} /\ Descriptors \cap SlabPages = {}
  BY <1>1 DEF HeapInv, PagesOnce, Descriptors, SlabPages
<1>5. \A p : p \in Behind => p \notin begun
  <2>1. heap_begin \in Nat /\ FirstPage(heap_begin) \in Nat
    BY <1>1, BootAddresses
  <2>2. QED
    BY <2>1, KernelMemoryAssumption DEF Behind, RamEnd
<1>6. (\A b \in blocks : b \subseteq begun) /\ \A a, b \in blocks : a # b => a \cap b = {}
  BY BlockFacts
<1> HIDE DEF begun
<1>7. \A a \in whole : a \in blocks \/ \E p \in Behind : a = {p} /\ p \in heap.pages \cup stacks \cup fifos \cup Descriptors
  BY <1>1, <1>3
<1>8. ASSUME NEW a \in whole, NEW b \in whole, a # b PROVE a \cap b = {}
  <2>1. ASSUME NEW p, p \in a, p \in b PROVE FALSE
    <3>1. CASE a \in blocks /\ b \in blocks
      BY <1>6, <1>8, <2>1, <3>1
    <3>2. CASE a \notin blocks /\ b \notin blocks
      <4>1. PICK c : a = {c}
        BY <1>7, <1>8, <3>2
      <4>2. PICK d : b = {d}
        BY <1>7, <1>8, <3>2
      <4>3. QED
        BY <1>8, <2>1, <4>1, <4>2
    <3>3. CASE a \in blocks /\ b \notin blocks
      BY <1>5, <1>6, <1>7, <2>1, <3>3
    <3>4. CASE a \notin blocks /\ b \in blocks
      BY <1>5, <1>6, <1>7, <2>1, <3>4
    <3>5. QED
      BY <3>1, <3>2, <3>3, <3>4
  <2>2. QED
    BY <2>1
<1>9. ASSUME NEW o \in parts, NEW q \in parts, o # q PROVE Extent(o) \cap Extent(q) = {}
  BY <1>9, PartsApart
<1>10. ASSUME NEW o \in parts \ BootTables, NEW a \in whole PROVE Extent(o) \cap in(a) = {}
  <2>1. o \in objs \cup MadeTables(mmu)
    <3>1. CASE o \in Tables
      <4>1. ~\E b \in blocks : o.mem.page \in b
        BY <1>10, <3>1 DEF BootTables
      <4>2. QED
        BY <3>1, <4>1, TableFacts
    <3>2. CASE o \notin Tables
      BY <1>10, <3>2
    <3>3. QED
      BY <3>1, <3>2
  <2> DEFINE out == objs \cup MadeTables(mmu)
  <2>2. o \in out /\ Out(heap, out)
    BY <1>1, <2>1
  <2> HIDE DEF out
  <2>3. o.mem.page \in SlabPages
    BY <1>1, <1>2, <2>2, OutPage
  <2>4. o.mem.page \notin a
    BY <1>3, <1>4, <1>5, <1>6, <1>7, <2>3
  <2>5. \A x \in Extent(o) : x.page = o.mem.page
    BY ExtentAt
  <2>6. \A x \in in(a) : x.page \in a
    BY DEF Units
  <2>7. QED
    BY <2>4, <2>5, <2>6
<1>11. \A e, f \in DOMAIN mmu.l1 : e # f /\ mmu.l1[e] # NULL => mmu.l1[e] # mmu.l1[f]
  BY TableFacts
<1> HIDE DEF whole, parts, in
<1>12. /\ \A a, b \in whole : a # b => a \cap b = {}
       /\ \A o, q \in parts : o # q => Extent(o) \cap Extent(q) = {}
       /\ \A o \in parts \ BootTables : \A a \in whole : Extent(o) \cap in(a) = {}
  BY <1>8, <1>9, <1>10
<1>13. /\ heap.pages \cap (stacks \cup fifos) = {} /\ heap.pages \cap Descriptors = {}
       /\ (stacks \cup fifos) \cap Descriptors = {} /\ stacks \cap fifos = {}
       /\ \A u, w \in uarts : u # w => u.context # w.context /\ u.fifos \cap w.fifos = {}
  BY <1>1, <1>3, <1>4 DEF MemoryInv, UartInv
<1>14. QED
  BY <1>11, <1>12, <1>13 DEF OneOwner, whole, parts, in

\* No two of those the kernel gave memory to have a byte in common, for any pools, devices and
\* any sequence of calls, failed and repeated ones among them.
THEOREM OneOwnerEach == Spec => []OneOwner
BY MemoryInvariant, OneOwnerFollows, PTL

-----------------------------------------------------------------------------
(* The lists tell the truth.                                                 *)

\* Two lists with nothing in common, one after the other.
LEMMA Joined ==
  ASSUME NEW S, NEW q \in Seq(S), NEW r \in Seq(S)
  PROVE  /\ q \o r \in Seq(S) /\ Range(q \o r) = Range(q) \cup Range(r)
         /\ IsInjective(q) /\ IsInjective(r) /\ Range(q) \cap Range(r) = {} => IsInjective(q \o r)
<1> DEFINE p == q \o r
           m == Len(q)
           n == Len(r)
<1>1. m \in Nat /\ n \in Nat
  BY RangeOf
<1>2. /\ p \in Seq(S) /\ Len(p) = m + n
      /\ \A i \in 1 .. m + n : p[i] = IF i <= m THEN q[i] ELSE r[i - m]
  BY ConcatProperties
<1>3. /\ \A x : x \in Range(q) <=> \E i \in 1 .. m : q[i] = x
      /\ IsInjective(q) <=> \A i, j \in 1 .. m : q[i] = q[j] => i = j
  BY RangeOf
<1>4. /\ \A x : x \in Range(r) <=> \E i \in 1 .. n : r[i] = x
      /\ IsInjective(r) <=> \A i, j \in 1 .. n : r[i] = r[j] => i = j
  BY RangeOf
<1> HIDE DEF p, m, n
<1>5. /\ \A x : x \in Range(p) <=> \E i \in 1 .. m + n : p[i] = x
      /\ IsInjective(p) <=> \A i, j \in 1 .. m + n : p[i] = p[j] => i = j
  BY <1>2, RangeOf
<1>6. \A i \in 1 .. m + n : \/ i \in 1 .. m /\ p[i] = q[i]
                            \/ i - m \in 1 .. n /\ p[i] = r[i - m]
  BY <1>1, <1>2
<1>7. /\ \A i \in 1 .. m : i \in 1 .. m + n /\ p[i] = q[i]
      /\ \A i \in 1 .. n : i + m \in 1 .. m + n /\ p[i + m] = r[i]
  <2>1. \A i \in 1 .. n : i + m \in 1 .. m + n /\ ~(i + m <= m) /\ (i + m) - m = i
    BY <1>1
  <2>2. \A i \in 1 .. m : i \in 1 .. m + n /\ i <= m
    BY <1>1
  <2>3. QED
    BY <1>2, <2>1, <2>2
<1>8. Range(p) = Range(q) \cup Range(r)
  <2>1. ASSUME NEW x \in Range(p) PROVE x \in Range(q) \cup Range(r)
    BY <1>3, <1>4, <1>5, <1>6, <2>1
  <2>2. ASSUME NEW x \in Range(q) PROVE x \in Range(p)
    BY <1>3, <1>5, <1>7, <2>2
  <2>3. ASSUME NEW x \in Range(r) PROVE x \in Range(p)
    BY <1>4, <1>5, <1>7, <2>3
  <2>4. QED
    BY <2>1, <2>2, <2>3
<1>9. ASSUME IsInjective(q), IsInjective(r), Range(q) \cap Range(r) = {} PROVE IsInjective(p)
  <2>1. \A i \in 1 .. m, j \in 1 .. n : q[i] # r[j]
    BY <1>3, <1>4, <1>9
  <2>2. ASSUME NEW i \in 1 .. m + n, NEW j \in 1 .. m + n, p[i] = p[j] PROVE i = j
    <3>1. CASE i \in 1 .. m /\ p[i] = q[i] /\ j \in 1 .. m /\ p[j] = q[j]
      BY <1>3, <1>9, <2>2, <3>1
    <3>2. CASE i - m \in 1 .. n /\ p[i] = r[i - m] /\ j - m \in 1 .. n /\ p[j] = r[j - m]
      <4>1. i - m = j - m
        BY <1>4, <1>9, <2>2, <3>2
      <4>2. QED
        BY <1>1, <4>1
    <3>3. QED
      BY <1>6, <2>1, <2>2, <3>1, <3>2
  <2>3. QED
    BY <1>5, <2>2
<1>10. QED
  BY <1>2, <1>8, <1>9 DEF p

\* The three lists of a cache as one.
LEMMA ListsOf ==
  ASSUME NEW h, HeapInv(h, {}), NEW c \in DOMAIN h.caches
  PROVE  /\ IsInjective(h.caches[c].free \o h.caches[c].partial \o h.caches[c].full)
         /\ Range(h.caches[c].free \o h.caches[c].partial \o h.caches[c].full) = SlabsOf(h, c)
<1> DEFINE u == h.caches[c].free
           v == h.caches[c].partial
           w == h.caches[c].full
<1>1. u \in Seq(Slab) /\ v \in Seq(Slab) /\ w \in Seq(Slab)
  BY ShapeFacts DEF HeapInv
<1>2. In(h, c, "free") = Range(u) /\ In(h, c, "partial") = Range(v) /\ In(h, c, "full") = Range(w)
  BY DEF In
<1>3. IsInjective(u) /\ IsInjective(v) /\ IsInjective(w)
  BY DEF HeapInv, Listed, Lists
<1>4. \A l, m \in Lists : \A s \in In(h, c, l) : s \in In(h, c, m) => l = m
  BY DEF HeapInv, Listed
<1>5. /\ In(h, c, "free") \cap In(h, c, "partial") = {}
      /\ In(h, c, "free") \cap In(h, c, "full") = {}
      /\ In(h, c, "partial") \cap In(h, c, "full") = {}
  BY <1>4 DEF Lists
<1>6. SlabsOf(h, c) = (In(h, c, "free") \cup In(h, c, "partial")) \cup In(h, c, "full")
  <2>1. \A s : s \in SlabsOf(h, c) <=>
                 s \in In(h, c, "free") \/ s \in In(h, c, "partial") \/ s \in In(h, c, "full")
    BY SlabsAt DEF Lists
  <2>2. QED
    BY <2>1
<1> HIDE DEF u, v, w
<1>7. Range(u) \cap Range(v) = {} /\ (Range(u) \cup Range(v)) \cap Range(w) = {}
  BY <1>2, <1>5
<1> DEFINE x == u \o v
<1>8. x \in Seq(Slab) /\ Range(x) = Range(u) \cup Range(v) /\ IsInjective(x)
  BY <1>1, <1>3, <1>7, Joined
<1> HIDE DEF x
<1>9. Range(x) \cap Range(w) = {}
  BY <1>7, <1>8
<1>10. Range(x \o w) = Range(x) \cup Range(w) /\ IsInjective(x \o w)
  BY <1>1, <1>3, <1>8, <1>9, Joined
<1>11. Range(x \o w) = SlabsOf(h, c)
  BY <1>2, <1>6, <1>8, <1>10
<1>12. QED
  BY <1>10, <1>11 DEF u, v, w, x

\* The tables that are not where booting put them are chunks of kmalloc.
LEMMA MadeOnes == MemoryInv => Tables \ BootTables = MadeTables(mmu)
<1> SUFFICES ASSUME MemoryInv PROVE Tables \ BootTables = MadeTables(mmu)
  OBVIOUS
<1>1. HeapInv(heap, {}) /\ Out(heap, objs \cup MadeTables(mmu)) /\ Managed(heap) \subseteq Behind
      /\ heap_begin \in HeapBegins
  BY HeapFacts
<1>2. ASSUME NEW t \in Tables, t \notin BootTables PROVE t \in MadeTables(mmu)
  <2>1. ~\E b \in blocks : t.mem.page \in b
    BY <1>2 DEF BootTables
  <2>2. QED
    BY <2>1, TableFacts
<1>3. ASSUME NEW t \in MadeTables(mmu) PROVE t \in Tables /\ t \notin BootTables
  <2> DEFINE out == objs \cup MadeTables(mmu)
             begun == heap_begin .. FirstPage(heap_begin) - 1
  <2>1. t \in out
    OBVIOUS
  <2> HIDE DEF out
  <2>2. t.mem.page \in Behind
    BY <1>1, <2>1, OutPage DEF out
  <2>3. t.mem.page \notin begun
    <3>1. heap_begin \in Nat /\ FirstPage(heap_begin) \in Nat
      BY <1>1, BootAddresses
    <3>2. QED
      BY <2>2, <3>1, KernelMemoryAssumption DEF Behind, RamEnd
  <2>4. \A b \in blocks : b \subseteq begun
    BY BlockFacts
  <2> HIDE DEF begun
  <2>5. \A b \in blocks : t.mem.page \notin b
    BY <2>3, <2>4
  <2>6. t \in Tables
    BY TableFacts
  <2>7. QED
    BY <2>5, <2>6 DEF BootTables
<1>4. QED
  BY <1>2, <1>3

LEMMA ChunksAreObjectsFollows == MemoryInv => ChunksAreObjects
<1> SUFFICES ASSUME MemoryInv PROVE ChunksAreObjects
  OBVIOUS
<1> DEFINE lists(c) == heap.caches[c].free \o heap.caches[c].partial \o heap.caches[c].full
           chunks(c, s) == {<<c, [page |-> heap.slab[s].page, offset |-> b * chunk_size[c]]>> :
                              b \in heap.slab[s].bitmap}
           marked == UNION {UNION {chunks(c, s) : s \in Range(lists(c))} : c \in DOMAIN heap.caches}
           out    == objs \cup (Tables \ BootTables)
<1>1. HeapInv(heap, {}) /\ Out(heap, objs \cup MadeTables(mmu))
  BY HeapFacts
<1>2. Listed(heap) /\ Marks(heap, {}) /\ Counted(heap)
  BY <1>1 DEF HeapInv
<1>3. \A c \in DOMAIN heap.caches : IsInjective(lists(c)) /\ Range(lists(c)) = SlabsOf(heap, c)
  BY <1>1, ListsOf
<1>4. \A c, s : chunks(c, s) = ChunksOf(heap, c, s)
  BY DEF ChunksOf
<1> HIDE DEF lists, chunks
<1>5. marked = Marked(heap)
  <2>1. \A x : x \in marked <=> \E c \in DOMAIN heap.caches : \E s \in Range(lists(c)) : x \in chunks(c, s)
    OBVIOUS
  <2> HIDE DEF marked
  <2>2. \A x : x \in marked <=> x \in Marked(heap)
    BY <1>3, <1>4, <2>1, MarkedAt
  <2>3. QED
    BY <2>2
<1>6. out = objs \cup MadeTables(mmu)
  BY MadeOnes
<1>7. marked = {<<CHOOSE c \in PoolFor(o.size) : TRUE, o.mem>> : o \in out}
  BY <1>1, <1>5, <1>6 DEF Out, PoolOf
<1>8. \A c, d \in DOMAIN heap.caches : c # d => Range(lists(c)) \cap Range(lists(d)) = {}
  <2>1. ASSUME NEW c \in DOMAIN heap.caches, NEW d \in DOMAIN heap.caches, c # d,
               NEW s, s \in SlabsOf(heap, c), s \in SlabsOf(heap, d)
        PROVE  FALSE
    <3>1. PICK l \in Lists : s \in In(heap, c, l)
      BY <2>1, SlabsAt
    <3>2. PICK m \in Lists : s \in In(heap, d, m)
      BY <2>1, SlabsAt
    <3>3. QED
      BY <1>2, <2>1, <3>1, <3>2 DEF Listed
  <2>2. QED
    BY <1>3, <2>1
<1>9. UNION {Range(lists(c)) : c \in DOMAIN heap.caches} = DOMAIN heap.slab
  <2>1. \A c \in DOMAIN heap.caches : \A s \in SlabsOf(heap, c) : s \in DOMAIN heap.slab
    BY <1>2, ListedSlab
  <2>2. \A s \in DOMAIN heap.slab : \E c \in DOMAIN heap.caches : s \in SlabsOf(heap, c)
    BY <1>2, SlabsAt DEF Listed
  <2>3. \A s : s \in UNION {Range(lists(c)) : c \in DOMAIN heap.caches} <=>
                 \E c \in DOMAIN heap.caches : s \in Range(lists(c))
    OBVIOUS
  <2>4. QED
    BY <1>3, <2>1, <2>2, <2>3
<1>10. \A s \in DOMAIN heap.slab : heap.slab[s].allocated_chunks = Cardinality(heap.slab[s].bitmap)
  BY <1>2 DEF Counted
<1>11. ASSUME NEW c \in DOMAIN heap.caches
       PROVE  /\ \A s \in Range(heap.caches[c].free) : heap.slab[s].bitmap = {}
              /\ \A s \in Range(heap.caches[c].partial) : heap.slab[s].bitmap \notin {{}, Chunks(c)}
              /\ \A s \in Range(heap.caches[c].full) : heap.slab[s].bitmap = Chunks(c)
  BY <1>2 DEF Marks, In
<1> HIDE DEF marked, out
<1>12. QED
  BY <1>3, <1>7, <1>8, <1>9, <1>10, <1>11 DEF ChunksAreObjects, lists, chunks, marked, out

\* The lists and bitmaps of the caches agree with what the callers of kmalloc have, for any
\* pools and any sequence of calls: a chunk is marked exactly when it is an object or a table.
THEOREM ChunksAreObjectsAll == Spec => []ChunksAreObjects
BY MemoryInvariant, ChunksAreObjectsFollows, PTL

-----------------------------------------------------------------------------
(* When kmalloc fails.                                                       *)

\* There is room for the cache of a pool that has none.
LEMMA RoomForCache ==
  ASSUME NEW h, HeapInv(h, {}), Len(chunk_size) <= caches_total, NEW c \in Pools \ DOMAIN h.caches
  PROVE  Cardinality(DOMAIN h.caches) # caches_total
<1> DEFINE D == DOMAIN h.caches
           P == Pools \ {c}
           n == Len(chunk_size)
<1>1. D \subseteq P
  BY DEF HeapInv, Shape
<1>2. n \in Nat /\ Pools = 1 .. n /\ caches_total \in Nat
  BY MemCacheAssumption, LenProperties DEF Pools
<1> HIDE DEF n
<1>3. IsFiniteSet(Pools) /\ Cardinality(Pools) = n
  BY <1>2, FS_Interval
<1>4. IsFiniteSet(P) /\ Cardinality(P) = n - 1
  BY <1>3, FS_RemoveElement
<1> HIDE DEF D, P
<1>5. Cardinality(D) <= n - 1 /\ Cardinality(D) \in Nat
  BY <1>1, <1>4, FS_Subset, FS_CardinalityType
<1>6. QED
  BY <1>2, <1>5 DEF D, n

LEMMA KmallocFails ==
  ASSUME MemoryInv, Len(chunk_size) <= caches_total, NEW size \in Sizes, PoolFor(size) # {},
         Kmalloc(size), objs' = objs
  PROVE  Full(heap', size)
<1> DEFINE k == kmalloc(heap, size, TRUE)
           n == [mem |-> k.mem, size |-> size]
           out == objs \cup MadeTables(mmu)
<1>1. HeapInv(heap, {}) /\ Out(heap, out)
  BY HeapFacts
<1>2. Mallocs(heap, k, size) /\ FailsRightly(heap, k, size)
  BY <1>1, KmallocSpec
<1>3. heap' = k.heap /\ objs' = IF k.mem = NULL THEN objs ELSE objs \cup {n}
  BY DEF Kmalloc
<1>4. n.mem = k.mem /\ n.size = size
  OBVIOUS
<1> HIDE DEF k, n
<1>5. k.mem = NULL
  <2>1. ASSUME k.mem # NULL PROVE FALSE
    <3>1. n \in out
      BY <1>3, <2>1
    <3>2. \A x \in Marked(heap) : x[2] # k.mem
      BY <1>2, <2>1 DEF Mallocs
    <3> HIDE DEF out
    <3>3. <<PoolOf(n.size), n.mem>> \in Marked(heap) /\ <<PoolOf(n.size), n.mem>>[2] = n.mem
      BY <1>1, <3>1, OutAt
    <3>4. QED
      BY <1>4, <3>2, <3>3
  <2>2. QED
    BY <2>1
<1>6. PoolOf(size) \in Pools
  BY PoolOfFacts
<1>7. ~(PoolOf(size) \notin DOMAIN heap.caches /\ Cardinality(DOMAIN heap.caches) = caches_total)
  BY <1>1, <1>6, RoomForCache
<1>8. QED
  BY <1>2, <1>3, <1>5, <1>7 DEF FailsRightly

\* When the root page has room for the caches of all pools, and every size that is asked for has
\* a pool, kmalloc answers NULL only when its cache has no chunk left and no page is free.
THEOREM FailsRight ==
  ASSUME Len(chunk_size) <= caches_total, \A size \in Sizes : PoolFor(size) # {}
  PROVE  Spec => FailsOnlyWhenFull
<1>1. MemoryInv =>
        \A size \in Sizes :
          objs' = objs /\ Kmalloc(size) =>
            LET c == CHOOSE i \in PoolFor(size) : TRUE
            IN  heap'.pages = {} /\ (c \in DOMAIN heap'.caches => heap'.caches[c].partial = <<>>)
  <2> SUFFICES ASSUME MemoryInv, NEW size \in Sizes, objs' = objs, Kmalloc(size)
               PROVE  LET c == CHOOSE i \in PoolFor(size) : TRUE
                      IN  heap'.pages = {} /\ (c \in DOMAIN heap'.caches => heap'.caches[c].partial = <<>>)
    OBVIOUS
  <2>1. Full(heap', size)
    BY KmallocFails
  <2>2. QED
    BY <2>1 DEF Full, PoolOf
<1>2. QED
  BY <1>1, MemoryInvariant, PTL DEF FailsOnlyWhenFull

-----------------------------------------------------------------------------
(* Descriptors: the words of every format read back.  A field holds the number whose bits   *)
(* were put there (FieldTwo ...), so what matters is that no other part of a word sets a bit *)
(* of the field, which is Clear, checked for the three ways to lay the fields out.           *)

\* What a bit of a number is, without powers.
Bit(v, i) == IF i = 0 THEN v % 2 = 1 ELSE IF i = 1 THEN (v \div 2) % 2 = 1
             ELSE IF i = 2 THEN (v \div 4) % 2 = 1 ELSE (v \div 8) % 2 = 1

\* Those are the bits that Bits takes of its number.
LEMMA BitIs == ASSUME NEW v \in Nat, NEW i \in 0 .. 3 PROVE (v \div 2^i) % 2 = 1 <=> Bit(v, i)
<1>1. 2^0 = 1 /\ 2^1 = 2 /\ 2^2 = 4 /\ 2^3 = 8
  OBVIOUS
<1>2. v \div 1 = v
  OBVIOUS
<1>3. i = 0 \/ i = 1 \/ i = 2 \/ i = 3
  OBVIOUS
<1>4. QED
  BY <1>1, <1>2, <1>3 DEF Bit

\* The bits of a number, put at lo.
LEMMA BitsAt ==
  ASSUME NEW lo \in Nat, NEW w \in 1 .. 4, NEW v \in Nat
  PROVE  \A p : p \in Bits(lo, w, v) <=> \E i \in 0 .. w - 1 : p = lo + i /\ Bit(v, i)
<1>1. ASSUME NEW i \in 0 .. w - 1 PROVE (v \div 2^i) % 2 = 1 <=> Bit(v, i)
  <2>1. i \in 0 .. 3
    OBVIOUS
  <2>2. QED
    BY <2>1, BitIs, Zenon
<1>2. \A p : p \in Bits(lo, w, v) <=> \E i \in 0 .. w - 1 : p = lo + i /\ (v \div 2^i) % 2 = 1
  BY Zenon DEF Bits
<1>3. QED
  BY <1>1, <1>2, Zenon

\* Numbers of one bit, two, three and four.
LEMMA BitsOne ==
  ASSUME NEW lo \in Nat, NEW v \in Nat
  PROVE  \A p : p \in Bits(lo, 1, v) <=> p = lo /\ Bit(v, 0)
BY BitsAt

\* Two bits: C and B, AP.
LEMMA BitsTwo ==
  ASSUME NEW lo \in Nat, NEW v \in Nat
  PROVE  \A p : p \in Bits(lo, 2, v) <=> (p = lo /\ Bit(v, 0)) \/ (p = lo + 1 /\ Bit(v, 1))
BY BitsAt

\* Three bits: TEX.
LEMMA BitsThree ==
  ASSUME NEW lo \in Nat, NEW v \in Nat
  PROVE  \A p : p \in Bits(lo, 3, v) <=> \/ p = lo /\ Bit(v, 0)
                                         \/ p = lo + 1 /\ Bit(v, 1)
                                         \/ p = lo + 2 /\ Bit(v, 2)
BY BitsAt

\* Four bits: the domain.
LEMMA BitsFour ==
  ASSUME NEW lo \in Nat, NEW v \in Nat
  PROVE  \A p : p \in Bits(lo, 4, v) <=> \/ p = lo /\ Bit(v, 0)
                                         \/ p = lo + 1 /\ Bit(v, 1)
                                         \/ p = lo + 2 /\ Bit(v, 2)
                                         \/ p = lo + 3 /\ Bit(v, 3)
BY BitsAt

\* What a field of a word adds up to.
Weight(word, p, n) == IF p \in word THEN n ELSE 0

LEMMA FieldSum ==
  ASSUME NEW word, NEW lo \in Nat, NEW w \in 1 .. 4
  PROVE  FieldOf(word, lo, w) =
           LET s1 == Weight(word, lo, 1)
               s2 == s1 + Weight(word, lo + 1, 2)
               s3 == s2 + Weight(word, lo + 2, 4)
               s4 == s3 + Weight(word, lo + 3, 8)
           IN  IF w = 1 THEN s1 ELSE IF w = 2 THEN s2 ELSE IF w = 3 THEN s3 ELSE s4
<1> DEFINE s1 == Weight(word, lo, 1)
           s2 == s1 + Weight(word, lo + 1, 2)
           s3 == s2 + Weight(word, lo + 2, 4)
           s4 == s3 + Weight(word, lo + 3, 8)
           next(g, i) == IF i = 0 THEN 0 ELSE g[i - 1] + (IF lo + i - 1 \in word THEN 2^(i - 1) ELSE 0)
           Sums(g) == g = [i \in 0 .. w |-> next(g, i)]
           add(i) == IF lo + i - 1 \in word THEN 2^(i - 1) ELSE 0
           f == [i \in 0 .. w |-> IF i = 0 THEN 0 ELSE IF i = 1 THEN s1 ELSE IF i = 2 THEN s2
                                  ELSE IF i = 3 THEN s3 ELSE s4]
           value == CHOOSE g : Sums(g)
<1>1. 2^0 = 1 /\ 2^1 = 2 /\ 2^2 = 4 /\ 2^3 = 8
  OBVIOUS
<1>2. /\ add(1) = Weight(word, lo, 1) /\ add(2) = Weight(word, lo + 1, 2)
      /\ add(3) = Weight(word, lo + 2, 4) /\ add(4) = Weight(word, lo + 3, 8)
  <2>1. lo + 1 - 1 = lo /\ lo + 2 - 1 = lo + 1 /\ lo + 3 - 1 = lo + 2 /\ lo + 4 - 1 = lo + 3
    OBVIOUS
  <2>2. 2^(1 - 1) = 1 /\ 2^(2 - 1) = 2 /\ 2^(3 - 1) = 4 /\ 2^(4 - 1) = 8
    OBVIOUS
  <2>3. QED
    BY <2>1, <2>2 DEF Weight
<1>3. s1 \in Nat /\ s2 \in Nat /\ s3 \in Nat /\ s4 \in Nat
  BY DEF Weight
<1>4. \A g, i : next(g, i) = IF i = 0 THEN 0 ELSE g[i - 1] + add(i)
  OBVIOUS
<1>5. FieldOf(word, lo, w) = value[w]
  BY DEF FieldOf
<1> HIDE DEF add, next
<1>6. Sums(f)
  <2>1. ASSUME NEW i \in 0 .. w PROVE f[i] = next(f, i)
    <3>1. i = 0 \/ i = 1 \/ i = 2 \/ i = 3 \/ i = 4
      OBVIOUS
    <3>2. i # 0 => f[i] = f[i - 1] + add(i)
      BY <1>2, <1>3, <3>1
    <3>3. QED
      BY <1>4, <3>2
  <2>2. QED
    BY <2>1
<1> HIDE DEF f
<1>7. Sums(value)
  BY <1>6
<1> HIDE DEF value
<1>8. \A i \in 0 .. w : value[i] = IF i = 0 THEN 0 ELSE value[i - 1] + add(i)
  BY <1>4, <1>7
<1> HIDE DEF Sums
<1>9. value[0] = 0 /\ value[1] = value[0] + add(1)
  BY <1>8
<1>10. /\ w >= 2 => value[2] = value[1] + add(2)
       /\ w >= 3 => value[3] = value[2] + add(3)
       /\ w >= 4 => value[4] = value[3] + add(4)
  BY <1>8
<1>11. value[1] = s1
  BY <1>2, <1>3, <1>9
<1>12. (w >= 2 => value[2] = s2) /\ (w >= 3 => value[3] = s3) /\ (w >= 4 => value[4] = s4)
  BY <1>2, <1>10, <1>11
<1>13. w = 1 \/ w = 2 \/ w = 3 \/ w = 4
  OBVIOUS
<1> HIDE DEF s1, s2, s3, s4
<1>14. value[w] = IF w = 1 THEN s1 ELSE IF w = 2 THEN s2 ELSE IF w = 3 THEN s3 ELSE s4
  BY <1>11, <1>12, <1>13
<1>15. QED
  BY <1>5, <1>14 DEF s1, s2, s3, s4

\* A number whose bits are those of a word from lo on is what the word's field holds.
LEMMA FieldTwo ==
  ASSUME NEW word, NEW lo \in Nat, NEW v \in 0 .. 3,
         lo \in word <=> Bit(v, 0), lo + 1 \in word <=> Bit(v, 1)
  PROVE  FieldOf(word, lo, 2) = v
<1>1. FieldOf(word, lo, 2) = Weight(word, lo, 1) + Weight(word, lo + 1, 2)
  BY FieldSum
<1>2. Weight(word, lo, 1) = (IF Bit(v, 0) THEN 1 ELSE 0) /\ Weight(word, lo + 1, 2) = (IF Bit(v, 1) THEN 2 ELSE 0)
  BY DEF Weight
<1>3. QED
  BY <1>1, <1>2 DEF Bit

\* The same of one bit: APX.
LEMMA FieldOne ==
  ASSUME NEW word, NEW lo \in Nat, NEW v \in 0 .. 1, lo \in word <=> Bit(v, 0)
  PROVE  FieldOf(word, lo, 1) = v
<1>1. FieldOf(word, lo, 1) = Weight(word, lo, 1)
  BY FieldSum
<1>2. QED
  BY <1>1 DEF Weight, Bit

\* The same of three: TEX.
LEMMA FieldThree ==
  ASSUME NEW word, NEW lo \in Nat, NEW v \in 0 .. 7,
         lo \in word <=> Bit(v, 0), lo + 1 \in word <=> Bit(v, 1), lo + 2 \in word <=> Bit(v, 2)
  PROVE  FieldOf(word, lo, 3) = v
<1>1. FieldOf(word, lo, 3) = Weight(word, lo, 1) + Weight(word, lo + 1, 2) + Weight(word, lo + 2, 4)
  BY FieldSum
<1>2. /\ Weight(word, lo, 1) = (IF Bit(v, 0) THEN 1 ELSE 0)
      /\ Weight(word, lo + 1, 2) = (IF Bit(v, 1) THEN 2 ELSE 0)
      /\ Weight(word, lo + 2, 4) = (IF Bit(v, 2) THEN 4 ELSE 0)
  BY DEF Weight
<1>3. v = 0 \/ v = 1 \/ v = 2 \/ v = 3 \/ v = 4 \/ v = 5 \/ v = 6 \/ v = 7
  OBVIOUS
<1>4. QED
  BY <1>1, <1>2, <1>3 DEF Bit

\* The same of four: the domain.
LEMMA FieldFour ==
  ASSUME NEW word, NEW lo \in Nat, NEW v \in 0 .. 15,
         lo \in word <=> Bit(v, 0), lo + 1 \in word <=> Bit(v, 1),
         lo + 2 \in word <=> Bit(v, 2), lo + 3 \in word <=> Bit(v, 3)
  PROVE  FieldOf(word, lo, 4) = v
<1>1. FieldOf(word, lo, 4) = Weight(word, lo, 1) + Weight(word, lo + 1, 2) + Weight(word, lo + 2, 4)
                             + Weight(word, lo + 3, 8)
  BY FieldSum
<1>2. /\ Weight(word, lo, 1) = (IF Bit(v, 0) THEN 1 ELSE 0)
      /\ Weight(word, lo + 1, 2) = (IF Bit(v, 1) THEN 2 ELSE 0)
      /\ Weight(word, lo + 2, 4) = (IF Bit(v, 2) THEN 4 ELSE 0)
      /\ Weight(word, lo + 3, 8) = (IF Bit(v, 3) THEN 8 ELSE 0)
  BY DEF Weight
<1>3. v = (IF Bit(v, 0) THEN 1 ELSE 0) + (IF Bit(v, 1) THEN 2 ELSE 0)
          + (IF Bit(v, 2) THEN 4 ELSE 0) + (IF Bit(v, 3) THEN 8 ELSE 0)
  <2>1. \/ v = 0 \/ v = 1 \/ v = 2 \/ v = 3 \/ v = 4 \/ v = 5 \/ v = 6 \/ v = 7
        \/ v = 8 \/ v = 9 \/ v = 10 \/ v = 11 \/ v = 12 \/ v = 13 \/ v = 14 \/ v = 15
    OBVIOUS
  <2>2. QED
    BY <2>1 DEF Bit
<1>4. QED
  BY <1>1, <1>2, <1>3

-----------------------------------------------------------------------------
\* What the kernel can ask of the attributes, and the numbers they become.
Request(a) == a.memtype \in MemTypes /\ a.access \in Accesses /\ a.nG \in BOOLEAN /\ a.XN \in BOOLEAN
IsShared(a) == a.memtype.is.type = "normal" /\ a.memtype.is.shared

\* The kinds of memory types, one by one.
LEMMA TypeCases ==
  ASSUME NEW m \in MemTypes
  PROVE  \/ m.split = FALSE /\ m.is = StronglyOrdered
         \/ m.split = FALSE /\ \E s \in BOOLEAN : m.is = Device(s)
         \/ m.split = FALSE /\ \E p \in Policies, s \in BOOLEAN : m.is = Uniform(p, s)
         \/ m.split = TRUE /\ \E o \in Policies, i \in Policies, s \in BOOLEAN :
              m.is = [type |-> "normal", outer |-> o, inner |-> i, shared |-> s]
BY DEF MemTypes

\* The MMU takes the number of a policy for that policy.
LEMMA PolicyReads ==
  ASSUME NEW p \in Policies
  PROVE  Policy(p) \in 0 .. 3 /\ ReadPolicy(Policy(p)) = p
BY DEF Policies, Policy, ReadPolicy

\* The MMU takes the numbers of a memory type for that type.
TypeReads(m) ==
  /\ TexCB(m)[1] \in 0 .. 7 /\ TexCB(m)[2] \in 0 .. 3
  /\ ReadMemory(TexCB(m)[1], TexCB(m)[2], m.is.type = "normal" /\ m.is.shared) = m.is

\* It is so of every MEMTYPE.
LEMMA TypesRead ==
  ASSUME NEW m \in MemTypes
  PROVE  TypeReads(m)
<1>1. CASE m.split = FALSE /\ m.is = StronglyOrdered
  BY <1>1 DEF TypeReads, TexCB, ReadMemory, StronglyOrdered
<1>2. CASE m.split = FALSE /\ \E s \in BOOLEAN : m.is = Device(s)
  <2>1. PICK s \in BOOLEAN : m.is = Device(s)
    BY <1>2
  <2>2. m.is.type = "device" /\ m.is.shared = s
    BY <2>1 DEF Device
  <2>3. CASE s = TRUE
    <3>1. TexCB(m) = <<0, 1>> /\ m.is = [type |-> "device", shared |-> TRUE]
      BY <1>2, <2>1, <2>2, <2>3 DEF TexCB, Device
    <3>2. QED
      BY <2>2, <3>1 DEF TypeReads, ReadMemory
  <2>4. CASE s = FALSE
    <3>1. TexCB(m) = <<2, 0>> /\ m.is = [type |-> "device", shared |-> FALSE]
      BY <1>2, <2>1, <2>2, <2>4 DEF TexCB, Device
    <3>2. QED
      BY <2>2, <3>1 DEF TypeReads, ReadMemory
  <2>5. QED
    BY <2>3, <2>4
<1>3. CASE m.split = FALSE /\ \E p \in Policies, s \in BOOLEAN : m.is = Uniform(p, s)
  <2>1. PICK p \in Policies, s \in BOOLEAN : m.is = Uniform(p, s)
    BY <1>3
  <2>2. (m.is.type = "normal" /\ m.is.shared) = s
    BY <2>1 DEF Uniform
  <2>3. \/ p = "nocacheable" /\ TexCB(m) = <<1, 0>>
        \/ p = "writeback_writeallocate" /\ TexCB(m) = <<1, 3>>
        \/ p = "writethrough" /\ TexCB(m) = <<0, 2>>
        \/ p = "writeback" /\ TexCB(m) = <<0, 3>>
    BY <1>3, <2>1 DEF TexCB, Uniform, Policies
  <2>4. ReadPolicy(2) = "writethrough" /\ ReadPolicy(3) = "writeback"
    BY DEF ReadPolicy
  <2>5. ReadMemory(TexCB(m)[1], TexCB(m)[2], s) = Uniform(p, s)
    BY <2>3, <2>4 DEF ReadMemory
  <2>6. TexCB(m)[1] \in 0 .. 7 /\ TexCB(m)[2] \in 0 .. 3
    BY <2>3
  <2>7. QED
    BY <2>1, <2>2, <2>5, <2>6 DEF TypeReads
<1>4. CASE m.split = TRUE /\ \E o \in Policies, i \in Policies, s \in BOOLEAN :
              m.is = [type |-> "normal", outer |-> o, inner |-> i, shared |-> s]
  <2>1. PICK o \in Policies, i \in Policies, s \in BOOLEAN :
              m.is = [type |-> "normal", outer |-> o, inner |-> i, shared |-> s]
    BY <1>4
  <2>2. (m.is.type = "normal" /\ m.is.shared) = s
    BY <2>1
  <2>3. TexCB(m) = <<4 + Policy(o), Policy(i)>>
    BY <1>4, <2>1 DEF TexCB
  <2>4. /\ Policy(o) \in 0 .. 3 /\ ReadPolicy(Policy(o)) = o
        /\ Policy(i) \in 0 .. 3 /\ ReadPolicy(Policy(i)) = i
    BY PolicyReads
  <2>5. TexCB(m)[1] >= 4 /\ TexCB(m)[1] \in 0 .. 7 /\ TexCB(m)[2] \in 0 .. 3
    BY <2>3, <2>4
  <2>6. TexCB(m)[1] - 4 = Policy(o) /\ TexCB(m)[2] = Policy(i)
    BY <2>3, <2>4
  <2>7. ReadMemory(TexCB(m)[1], TexCB(m)[2], s) =
          [type |-> "normal", outer |-> ReadPolicy(TexCB(m)[1] - 4), inner |-> ReadPolicy(TexCB(m)[2]),
           shared |-> s]
    BY <2>5 DEF ReadMemory
  <2>8. QED
    BY <2>1, <2>2, <2>4, <2>5, <2>6, <2>7 DEF TypeReads
<1>5. QED
  BY <1>1, <1>2, <1>3, <1>4, TypeCases, Zenon

\* The same of a permission.
LEMMA AccessReads ==
  ASSUME NEW a \in Accesses
  PROVE  /\ Permission(a)[1] \in 0 .. 1 /\ Permission(a)[2] \in 0 .. 3
         /\ ReadAccess(4 * Permission(a)[1] + Permission(a)[2]) = a
<1>1. \/ a = "none" /\ Permission(a) = <<0, 0>>
      \/ a = "privileged_full" /\ Permission(a) = <<0, 1>>
      \/ a = "privileged_full_user_readonly" /\ Permission(a) = <<0, 2>>
      \/ a = "full" /\ Permission(a) = <<0, 3>>
      \/ a = "privileged_readonly" /\ Permission(a) = <<1, 1>>
      \/ a = "readonly" /\ Permission(a) = <<1, 2>>
  BY DEF Accesses, Permission
<1>2. QED
  BY <1>1 DEF ReadAccess

-----------------------------------------------------------------------------
\* The numbers of a request.
Tex(a) == TexCB(a.memtype)[1]
CB(a) == TexCB(a.memtype)[2]
APX(a) == Permission(a.access)[1]
AP(a) == Permission(a.access)[2]

\* They fit their fields.
LEMMA RequestNumbers ==
  ASSUME NEW a, Request(a)
  PROVE  Tex(a) \in 0 .. 7 /\ CB(a) \in 0 .. 3 /\ APX(a) \in 0 .. 1 /\ AP(a) \in 0 .. 3
<1>1. TypeReads(a.memtype)
  BY TypesRead DEF Request
<1>2. a.access \in Accesses
  BY DEF Request
<1>3. Permission(a.access)[1] \in 0 .. 1 /\ Permission(a.access)[2] \in 0 .. 3
  BY <1>2, AccessReads, Zenon
<1>4. QED
  BY <1>1, <1>3, Zenon DEF TypeReads, Tex, CB, APX, AP

\* A word has a request's attributes in the fields that begin there.
Carries(w, tex, s, apx, ap, xn, ng, a) ==
  /\ tex \in w <=> Bit(Tex(a), 0)
  /\ tex + 1 \in w <=> Bit(Tex(a), 1)
  /\ tex + 2 \in w <=> Bit(Tex(a), 2)
  /\ 2 \in w <=> Bit(CB(a), 0)
  /\ 3 \in w <=> Bit(CB(a), 1)
  /\ apx \in w <=> Bit(APX(a), 0)
  /\ ap \in w <=> Bit(AP(a), 0)
  /\ ap + 1 \in w <=> Bit(AP(a), 1)
  /\ s \in w <=> IsShared(a)
  /\ xn \in w <=> a.XN
  /\ ng \in w <=> a.nG

\* What the MMU should read.
Wanted(a) == [memory |-> a.memtype.is, access |-> a.access, XN |-> a.XN, nG |-> a.nG]

\* Then the MMU reads what was asked for.
LEMMA AttributesRead ==
  ASSUME NEW a, Request(a), NEW w, NEW tex \in Nat, NEW s \in Nat, NEW apx \in Nat, NEW ap \in Nat,
         NEW xn \in Nat, NEW ng \in Nat, Carries(w, tex, s, apx, ap, xn, ng, a)
  PROVE  ReadAttributes(w, tex, s, apx, ap, xn, ng) = Wanted(a)
<1>1. Tex(a) \in 0 .. 7 /\ CB(a) \in 0 .. 3 /\ APX(a) \in 0 .. 1 /\ AP(a) \in 0 .. 3
  BY RequestNumbers
<1>2. FieldOf(w, tex, 3) = Tex(a)
  BY <1>1, FieldThree DEF Carries
<1>3. FieldOf(w, 2, 2) = CB(a)
  <2>1. 2 + 1 = 3
    OBVIOUS
  <2>2. QED
    BY <1>1, <2>1, FieldTwo DEF Carries
<1>4. FieldOf(w, apx, 1) = APX(a)
  BY <1>1, FieldOne DEF Carries
<1>5. FieldOf(w, ap, 2) = AP(a)
  BY <1>1, FieldTwo DEF Carries
<1>6. (s \in w) = (a.memtype.is.type = "normal" /\ a.memtype.is.shared)
  <2>1. s \in w <=> (a.memtype.is.type = "normal" /\ a.memtype.is.shared)
    BY Zenon DEF Carries, IsShared
  <2>2. QED
    BY <2>1
<1>7. ReadMemory(Tex(a), CB(a), s \in w) = a.memtype.is
  <2>1. TypeReads(a.memtype)
    BY TypesRead DEF Request
  <2>2. ReadMemory(Tex(a), CB(a), a.memtype.is.type = "normal" /\ a.memtype.is.shared) = a.memtype.is
    BY <2>1, Zenon DEF TypeReads, Tex, CB
  <2>3. QED
    BY <1>6, <2>2, Zenon
<1>8. ReadAccess(4 * APX(a) + AP(a)) = a.access
  BY AccessReads, Zenon DEF Request, APX, AP
<1>9. (xn \in w) = a.XN /\ (ng \in w) = a.nG
  <2>1. (xn \in w <=> a.XN) /\ (ng \in w <=> a.nG) /\ a.XN \in BOOLEAN /\ a.nG \in BOOLEAN
    BY Zenon DEF Carries, Request
  <2>2. QED
    BY <2>1
<1>10. QED
  BY <1>2, <1>3, <1>4, <1>5, <1>7, <1>8, <1>9, Zenon DEF ReadAttributes, Wanted

-----------------------------------------------------------------------------
\* A bit that the attributes of a request set, with the fields there.
Sets(p, tex, s, apx, ap, xn, ng, a) ==
  \/ p = tex /\ Bit(Tex(a), 0)
  \/ p = tex + 1 /\ Bit(Tex(a), 1)
  \/ p = tex + 2 /\ Bit(Tex(a), 2)
  \/ p = 2 /\ Bit(CB(a), 0)
  \/ p = 3 /\ Bit(CB(a), 1)
  \/ p = apx /\ Bit(APX(a), 0)
  \/ p = ap /\ Bit(AP(a), 0)
  \/ p = ap + 1 /\ Bit(AP(a), 1)
  \/ p = s /\ IsShared(a)
  \/ p = xn /\ a.XN
  \/ p = ng /\ a.nG

\* The part of a word that is made of the attributes.
Attributes(f, a) == MEMTYPE(f, a.memtype) \cup ACCESS(f, a.access) \cup Flag(f.nG, a.nG) \cup Flag(f.XN, a.XN)

\* Its bits are those that MEMTYPE, ACCESS and the flags set.
LEMMA AttributeBits ==
  ASSUME NEW f, NEW a, Request(a), f.B = 2, f.TEX \in Nat, f.S \in Nat, f.APX \in Nat, f.AP \in Nat,
         f.XN \in Nat, f.nG \in Nat
  PROVE  \A p : p \in Attributes(f, a) <=> Sets(p, f.TEX, f.S, f.APX, f.AP, f.XN, f.nG, a)
<1>1. Tex(a) \in Nat /\ CB(a) \in Nat /\ APX(a) \in Nat /\ AP(a) \in Nat
  BY RequestNumbers
<1>2. \A p : p \in Bits(f.TEX, 3, Tex(a)) <=>
         \/ p = f.TEX /\ Bit(Tex(a), 0)
         \/ p = f.TEX + 1 /\ Bit(Tex(a), 1)
         \/ p = f.TEX + 2 /\ Bit(Tex(a), 2)
  BY <1>1, BitsThree, Zenon
<1>3. \A p : p \in Bits(f.B, 2, CB(a)) <=> (p = 2 /\ Bit(CB(a), 0)) \/ (p = 3 /\ Bit(CB(a), 1))
  <2>1. f.B \in Nat /\ f.B + 1 = 3
    OBVIOUS
  <2>2. QED
    BY <1>1, <2>1, BitsTwo
<1>4. \A p : p \in Bits(f.APX, 1, APX(a)) <=> p = f.APX /\ Bit(APX(a), 0)
  BY <1>1, BitsOne, Zenon
<1>5. \A p : p \in Bits(f.AP, 2, AP(a)) <=> (p = f.AP /\ Bit(AP(a), 0)) \/ (p = f.AP + 1 /\ Bit(AP(a), 1))
  BY <1>1, BitsTwo, Zenon
<1>6. \A p, lo, b : p \in Flag(lo, b) <=> p = lo /\ b
  BY Zenon DEF Flag
<1>7. \A p : p \in MEMTYPE(f, a.memtype) <=>
         \/ p \in Bits(f.TEX, 3, Tex(a))
         \/ p \in Bits(f.B, 2, CB(a))
         \/ p = f.S /\ IsShared(a)
  BY <1>6, Zenon DEF MEMTYPE, Tex, CB, IsShared
<1>8. \A p : p \in ACCESS(f, a.access) <=> p \in Bits(f.APX, 1, APX(a)) \/ p \in Bits(f.AP, 2, AP(a))
  BY Zenon DEF ACCESS, APX, AP
<1>9. \A p : p \in Attributes(f, a) <=>
         \/ p \in MEMTYPE(f, a.memtype)
         \/ p \in ACCESS(f, a.access)
         \/ p = f.nG /\ a.nG
         \/ p = f.XN /\ a.XN
  BY <1>6 DEF Attributes
<1>10. TAKE p
<1>11. p \in MEMTYPE(f, a.memtype) <=>
         \/ p = f.TEX /\ Bit(Tex(a), 0)
         \/ p = f.TEX + 1 /\ Bit(Tex(a), 1)
         \/ p = f.TEX + 2 /\ Bit(Tex(a), 2)
         \/ p = 2 /\ Bit(CB(a), 0)
         \/ p = 3 /\ Bit(CB(a), 1)
         \/ p = f.S /\ IsShared(a)
  BY <1>2, <1>3, <1>7, Zenon
<1>12. p \in ACCESS(f, a.access) <=>
         \/ p = f.APX /\ Bit(APX(a), 0)
         \/ p = f.AP /\ Bit(AP(a), 0)
         \/ p = f.AP + 1 /\ Bit(AP(a), 1)
  BY <1>4, <1>5, <1>8, Zenon
<1>13. QED
  BY <1>9, <1>11, <1>12, Zenon DEF Sets

-----------------------------------------------------------------------------
\* The bits that the two flags set of a format that has them.
Flagged(f, a, p) == "PXN" \in DOMAIN f /\ ((p = f.PXN /\ a.PXN) \/ (p = f.NS /\ a.NS))

\* The bits of a word that is built with attributes, and of one without.
LEMMA BuildBits ==
  ASSUME NEW f, NEW phy, NEW a, "TEX" \in DOMAIN f
  PROVE  \A p : p \in Build(f, phy, a) <=>
           \/ p \in f.BITS
           \/ p \in BASEADDR(f, phy)
           \/ p \in Attributes(f, a)
           \/ "DOM" \in DOMAIN f /\ p \in Bits(f.DOM, 4, a.domain)
           \/ Flagged(f, a, p)
BY DEF Build, Attributes, Flag, Flagged

\* The same of a word without attributes.
LEMMA BuildTableBits ==
  ASSUME NEW f, NEW phy, NEW a, "TEX" \notin DOMAIN f
  PROVE  \A p : p \in Build(f, phy, a) <=>
           \/ p \in f.BITS
           \/ p \in BASEADDR(f, phy)
           \/ "DOM" \in DOMAIN f /\ p \in Bits(f.DOM, 4, a.domain)
           \/ Flagged(f, a, p)
BY DEF Build, Flag, Flagged

\* Address bits below 32 stay where they are.
LEMMA PlainAddress ==
  ASSUME NEW f, NEW phy, f.BASE \subseteq 0 .. 31
  PROVE  \A p : p \in BASEADDR(f, phy) <=> p \in f.BASE /\ p \in phy
BY DEF BASEADDR

\* Those of a supersection.
LEMMA LongAddress ==
  ASSUME NEW f, NEW phy, f.BASE = 24 .. 39
  PROVE  \A p : p \in BASEADDR(f, phy) <=>
           \/ p \in 24 .. 31 /\ p \in phy
           \/ p \in 20 .. 23 /\ p + 12 \in phy
           \/ p \in 5 .. 8 /\ p + 31 \in phy
<1>1. ASSUME NEW p, p \in BASEADDR(f, phy)
      PROVE  \/ p \in 24 .. 31 /\ p \in phy
             \/ p \in 20 .. 23 /\ p + 12 \in phy
             \/ p \in 5 .. 8 /\ p + 31 \in phy
  <2>1. PICK b \in phy \cap f.BASE : p = IF b > 35 THEN b - 31 ELSE IF b > 31 THEN b - 12 ELSE b
    BY <1>1 DEF BASEADDR
  <2>2. b \in 24 .. 39 /\ b \in phy
    OBVIOUS
  <2>3. CASE b > 35
    <3>1. p \in 5 .. 8 /\ p + 31 = b
      BY <2>1, <2>2, <2>3
    <3>2. QED
      BY <2>2, <3>1
  <2>4. CASE b > 31 /\ ~(b > 35)
    <3>1. p \in 20 .. 23 /\ p + 12 = b
      BY <2>1, <2>2, <2>4
    <3>2. QED
      BY <2>2, <3>1
  <2>5. CASE ~(b > 31)
    BY <2>1, <2>2, <2>5
  <2>6. QED
    BY <2>3, <2>4, <2>5
<1>2. \A b \in 24 .. 39 : b \in phy =>
        (IF b > 35 THEN b - 31 ELSE IF b > 31 THEN b - 12 ELSE b) \in BASEADDR(f, phy)
  BY DEF BASEADDR
<1>3. ASSUME NEW p, p \in 24 .. 31 /\ p \in phy PROVE p \in BASEADDR(f, phy)
  BY <1>2, <1>3
<1>4. ASSUME NEW p, p \in 20 .. 23 /\ p + 12 \in phy PROVE p \in BASEADDR(f, phy)
  <2>1. p + 12 \in 24 .. 39 /\ p + 12 > 31 /\ ~(p + 12 > 35) /\ p + 12 - 12 = p
    BY <1>4
  <2>2. QED
    BY <1>2, <1>4, <2>1
<1>5. ASSUME NEW p, p \in 5 .. 8 /\ p + 31 \in phy PROVE p \in BASEADDR(f, phy)
  <2>1. p + 31 \in 24 .. 39 /\ p + 31 > 35 /\ p + 31 - 31 = p
    BY <1>5
  <2>2. QED
    BY <1>2, <1>5, <2>1
<1>6. QED
  BY <1>1, <1>3, <1>4, <1>5, Zenon

-----------------------------------------------------------------------------
\* A word has the attributes of a request when nothing else is in their fields.
Clear(others, tex, s, apx, ap, xn, ng) ==
  /\ tex \notin others /\ tex + 1 \notin others /\ tex + 2 \notin others
  /\ 2 \notin others /\ 3 \notin others
  /\ apx \notin others /\ ap \notin others /\ ap + 1 \notin others
  /\ s \notin others /\ xn \notin others /\ ng \notin others

\* A word has the bits `others' and those of a request's attributes, with the fields there.
Made(w, others, tex, s, apx, ap, xn, ng, a) ==
  \A p : p \in w <=> p \in others \/ Sets(p, tex, s, apx, ap, xn, ng, a)

\* Three ways to lay the fields out: those of sections, of large pages and of small pages.
LEMMA SectionCarries ==
  ASSUME NEW a, NEW w, NEW others, Clear(others, 12, 16, 15, 10, 4, 17),
         Made(w, others, 12, 16, 15, 10, 4, 17, a)
  PROVE  Carries(w, 12, 16, 15, 10, 4, 17, a)
BY DEF Clear, Made, Sets, Carries

\* A large page: XN and TEX above the permission.
LEMMA LargeCarries ==
  ASSUME NEW a, NEW w, NEW others, Clear(others, 12, 10, 9, 4, 15, 11),
         Made(w, others, 12, 10, 9, 4, 15, 11, a)
  PROVE  Carries(w, 12, 10, 9, 4, 15, 11, a)
BY DEF Clear, Made, Sets, Carries

\* A small page: XN is bit 0, TEX begins at 6.
LEMMA SmallCarries ==
  ASSUME NEW a, NEW w, NEW others, Clear(others, 6, 10, 9, 4, 0, 11),
         Made(w, others, 6, 10, 9, 4, 0, 11, a)
  PROVE  Carries(w, 6, 10, 9, 4, 0, 11, a)
BY DEF Clear, Made, Sets, Carries

-----------------------------------------------------------------------------
\* What the MMU must find in a word with attributes.
ReadsAs(level, kind, w, address, a) ==
  /\ w \subseteq 0 .. 31
  /\ Kind(level, w) = kind
  /\ ReadAddress(level, w) = address
  /\ Read(level, w) = Wanted(a)

\* A section: besides the attributes, its mark, its address, a domain and a few flags.
LEMMA SectionReadsAs ==
  ASSUME NEW phy, NEW a, Request(a), NEW d \in 0 .. 15, NEW E \in SUBSET {0, 19}, NEW w,
         Made(w, {1} \cup (phy \cap 20 .. 31) \cup Bits(5, 4, d) \cup E, 12, 16, 15, 10, 4, 17, a)
  PROVE  /\ ReadsAs(1, "section", w, phy \cap 20 .. 31, a)
         /\ FieldOf(w, 5, 4) = d
         /\ (0 \in w <=> 0 \in E) /\ (19 \in w <=> 19 \in E)
<1> DEFINE others == {1} \cup (phy \cap 20 .. 31) \cup Bits(5, 4, d) \cup E
<1>1. \A p : p \in Bits(5, 4, d) <=>
         \/ p = 5 /\ Bit(d, 0)
         \/ p = 6 /\ Bit(d, 1)
         \/ p = 7 /\ Bit(d, 2)
         \/ p = 8 /\ Bit(d, 3)
  <2>1. 5 \in Nat /\ d \in Nat /\ 5 + 1 = 6 /\ 5 + 2 = 7 /\ 5 + 3 = 8
    OBVIOUS
  <2>2. QED
    BY <2>1, BitsFour
<1>2. \A p : p \in others <=> \/ p = 1 \/ p \in E
                              \/ p \in 20 .. 31 /\ p \in phy
                              \/ p = 5 /\ Bit(d, 0)
                              \/ p = 6 /\ Bit(d, 1)
                              \/ p = 7 /\ Bit(d, 2)
                              \/ p = 8 /\ Bit(d, 3)
  BY <1>1, Zenon
<1>0. Made(w, others, 12, 16, 15, 10, 4, 17, a)
  OBVIOUS
<1>3. \A p : p \in w <=> p \in others \/ Sets(p, 12, 16, 15, 10, 4, 17, a)
  BY <1>0, Zenon DEF Made
<1> HIDE DEF others
<1>4. Clear(others, 12, 16, 15, 10, 4, 17)
  BY <1>2 DEF Clear
<1>5. Carries(w, 12, 16, 15, 10, 4, 17, a)
  BY <1>0, <1>4, SectionCarries, Zenon
<1>6. ReadAttributes(w, 12, 16, 15, 10, 4, 17) = Wanted(a)
  BY <1>5, AttributesRead
<1>7. \A p : Sets(p, 12, 16, 15, 10, 4, 17, a) => p \in 2 .. 4 \/ p \in 10 .. 17
  BY DEF Sets
<1>8. \A p : p \in w => p \in 0 .. 31
  <2>1. ASSUME NEW p \in others PROVE p \in 0 .. 31
    <3>1. p \in E => p = 0 \/ p = 19
      OBVIOUS
    <3>2. QED
      BY <1>2, <3>1
  <2>2. QED
    BY <1>3, <1>7, <2>1
<1>9. 1 \in w /\ 18 \notin w
  BY <1>2, <1>3, <1>7
<1>10. Kind(1, w) = "section"
  BY <1>9 DEF Kind
<1>11. w \cap 20 .. 31 = phy \cap 20 .. 31
  <2>1. \A p \in 20 .. 31 : p \in w <=> p \in phy
    BY <1>2, <1>3, <1>7
  <2>2. QED
    BY <2>1
<1>12. ReadAddress(1, w) = phy \cap 20 .. 31
  BY <1>10, <1>11 DEF ReadAddress
<1>13. Read(1, w) = Wanted(a)
  BY <1>6, <1>10 DEF Read
<1>14. FieldOf(w, 5, 4) = d
  <2>1. (5 \in w <=> Bit(d, 0)) /\ (6 \in w <=> Bit(d, 1)) /\ (7 \in w <=> Bit(d, 2)) /\ (8 \in w <=> Bit(d, 3))
    BY <1>2, <1>3, <1>7
  <2>2. 5 \in Nat /\ 5 + 1 = 6 /\ 5 + 2 = 7 /\ 5 + 3 = 8
    OBVIOUS
  <2>3. QED
    BY <2>1, <2>2, FieldFour
<1>15. (0 \in w <=> 0 \in E) /\ (19 \in w <=> 19 \in E)
  BY <1>2, <1>3, <1>7
<1>16. QED
  BY <1>8, <1>10, <1>12, <1>13, <1>14, <1>15 DEF ReadsAs

\* A supersection: its address comes apart, and there is no domain.
LEMMA SupersectionReadsAs ==
  ASSUME NEW phy, NEW a, Request(a), NEW f, f.BASE = 24 .. 39, NEW E \in SUBSET {0, 19}, NEW w,
         Made(w, {1, 18} \cup BASEADDR(f, phy) \cup E, 12, 16, 15, 10, 4, 17, a)
  PROVE  /\ ReadsAs(1, "supersection", w, phy \cap 24 .. 39, a)
         /\ (0 \in w <=> 0 \in E) /\ (19 \in w <=> 19 \in E)
<1> DEFINE others == {1, 18} \cup BASEADDR(f, phy) \cup E
<1>1. \A p : p \in BASEADDR(f, phy) <=>
           \/ p \in 24 .. 31 /\ p \in phy
           \/ p \in 20 .. 23 /\ p + 12 \in phy
           \/ p \in 5 .. 8 /\ p + 31 \in phy
  BY LongAddress, Zenon
<1>2. \A p : p \in others <=> \/ p = 1 \/ p = 18 \/ p \in E
                              \/ p \in 24 .. 31 /\ p \in phy
                              \/ p \in 20 .. 23 /\ p + 12 \in phy
                              \/ p \in 5 .. 8 /\ p + 31 \in phy
  BY <1>1, Zenon
<1>0. Made(w, others, 12, 16, 15, 10, 4, 17, a)
  OBVIOUS
<1>3. \A p : p \in w <=> p \in others \/ Sets(p, 12, 16, 15, 10, 4, 17, a)
  BY <1>0, Zenon DEF Made
<1> HIDE DEF others
<1>4. Clear(others, 12, 16, 15, 10, 4, 17)
  BY <1>2 DEF Clear
<1>5. Carries(w, 12, 16, 15, 10, 4, 17, a)
  BY <1>0, <1>4, SectionCarries, Zenon
<1>6. ReadAttributes(w, 12, 16, 15, 10, 4, 17) = Wanted(a)
  BY <1>5, AttributesRead
<1>7. \A p : Sets(p, 12, 16, 15, 10, 4, 17, a) => p \in 2 .. 4 \/ p \in 10 .. 17
  BY DEF Sets
<1>8. \A p : p \in w => p \in 0 .. 31
  <2>1. ASSUME NEW p \in others PROVE p \in 0 .. 31
    <3>1. p \in E => p = 0 \/ p = 19
      OBVIOUS
    <3>2. QED
      BY <1>2, <3>1
  <2>2. QED
    BY <1>3, <1>7, <2>1
<1>9. 1 \in w /\ 18 \in w
  BY <1>2, <1>3
<1>10. Kind(1, w) = "supersection"
  BY <1>9 DEF Kind
<1>11. /\ \A p \in 24 .. 31 : p \in w <=> p \in phy
       /\ \A p \in 20 .. 23 : p \in w <=> p + 12 \in phy
       /\ \A p \in 5 .. 8 : p \in w <=> p + 31 \in phy
  BY <1>2, <1>3, <1>7
<1>12. (w \cap 24 .. 31) \cup {b + 12 : b \in w \cap 20 .. 23} \cup {b + 31 : b \in w \cap 5 .. 8}
         = phy \cap 24 .. 39
  <2>1. ASSUME NEW n \in phy \cap 24 .. 39
        PROVE  n \in (w \cap 24 .. 31) \cup {b + 12 : b \in w \cap 20 .. 23} \cup {b + 31 : b \in w \cap 5 .. 8}
    <3>1. n \in 24 .. 31 \/ n \in 32 .. 35 \/ n \in 36 .. 39
      OBVIOUS
    <3>2. CASE n \in 24 .. 31
      BY <1>11, <3>2
    <3>3. CASE n \in 32 .. 35
      <4>1. n - 12 \in 20 .. 23 /\ n - 12 + 12 = n
        BY <3>3
      <4>2. n - 12 \in w
        BY <1>11, <4>1
      <4>3. QED
        BY <4>1, <4>2
    <3>4. CASE n \in 36 .. 39
      <4>1. n - 31 \in 5 .. 8 /\ n - 31 + 31 = n
        BY <3>4
      <4>2. n - 31 \in w
        BY <1>11, <4>1
      <4>3. QED
        BY <4>1, <4>2
    <3>5. QED
      BY <3>1, <3>2, <3>3, <3>4
  <2>2. ASSUME NEW n \in (w \cap 24 .. 31) \cup {b + 12 : b \in w \cap 20 .. 23} \cup {b + 31 : b \in w \cap 5 .. 8}
        PROVE  n \in phy \cap 24 .. 39
    <3>1. CASE n \in w \cap 24 .. 31
      BY <1>11, <3>1
    <3>2. CASE n \in {b + 12 : b \in w \cap 20 .. 23}
      BY <1>11, <3>2
    <3>3. CASE n \in {b + 31 : b \in w \cap 5 .. 8}
      BY <1>11, <3>3
    <3>4. QED
      BY <3>1, <3>2, <3>3
  <2>3. QED
    BY <2>1, <2>2, Zenon
<1>13. ReadAddress(1, w) = phy \cap 24 .. 39
  BY <1>10, <1>12 DEF ReadAddress
<1>14. Read(1, w) = Wanted(a)
  BY <1>6, <1>10 DEF Read
<1>15. (0 \in w <=> 0 \in E) /\ (19 \in w <=> 19 \in E)
  BY <1>2, <1>3, <1>7
<1>16. QED
  BY <1>8, <1>10, <1>13, <1>14, <1>15 DEF ReadsAs

\* A large page.
LEMMA LargePageReadsAs ==
  ASSUME NEW phy, NEW a, Request(a), NEW w,
         Made(w, {0} \cup (phy \cap 16 .. 31), 12, 10, 9, 4, 15, 11, a)
  PROVE  ReadsAs(2, "large page", w, phy \cap 16 .. 31, a)
<1> DEFINE others == {0} \cup (phy \cap 16 .. 31)
<1>1. \A p : p \in others <=> p = 0 \/ (p \in 16 .. 31 /\ p \in phy)
  BY Zenon
<1>0. Made(w, others, 12, 10, 9, 4, 15, 11, a)
  OBVIOUS
<1>2. \A p : p \in w <=> p \in others \/ Sets(p, 12, 10, 9, 4, 15, 11, a)
  BY <1>0, Zenon DEF Made
<1> HIDE DEF others
<1>3. Clear(others, 12, 10, 9, 4, 15, 11)
  BY <1>1 DEF Clear
<1>4. Carries(w, 12, 10, 9, 4, 15, 11, a)
  BY <1>0, <1>3, LargeCarries, Zenon
<1>5. ReadAttributes(w, 12, 10, 9, 4, 15, 11) = Wanted(a)
  BY <1>4, AttributesRead
<1>6. \A p : Sets(p, 12, 10, 9, 4, 15, 11, a) => p \in 2 .. 15
  BY DEF Sets
<1>7. \A p : p \in w => p \in 0 .. 31
  BY <1>1, <1>2, <1>6
<1>8. 0 \in w /\ 1 \notin w
  BY <1>1, <1>2, <1>6
<1>9. Kind(2, w) = "large page"
  BY <1>8 DEF Kind
<1>10. w \cap 16 .. 31 = phy \cap 16 .. 31
  <2>1. \A p \in 16 .. 31 : p \in w <=> p \in phy
    BY <1>1, <1>2, <1>6
  <2>2. QED
    BY <2>1
<1>11. ReadAddress(2, w) = phy \cap 16 .. 31
  BY <1>9, <1>10 DEF ReadAddress
<1>12. Read(2, w) = Wanted(a)
  BY <1>5, <1>9 DEF Read
<1>13. QED
  BY <1>7, <1>9, <1>11, <1>12 DEF ReadsAs

\* A small page: bit 0 is its XN, so bit 1 alone tells what it is.
LEMMA SmallPageReadsAs ==
  ASSUME NEW phy, NEW a, Request(a), NEW w,
         Made(w, {1} \cup (phy \cap 12 .. 31), 6, 10, 9, 4, 0, 11, a)
  PROVE  ReadsAs(2, "small page", w, phy \cap 12 .. 31, a)
<1> DEFINE others == {1} \cup (phy \cap 12 .. 31)
<1>1. \A p : p \in others <=> p = 1 \/ (p \in 12 .. 31 /\ p \in phy)
  BY Zenon
<1>0. Made(w, others, 6, 10, 9, 4, 0, 11, a)
  OBVIOUS
<1>2. \A p : p \in w <=> p \in others \/ Sets(p, 6, 10, 9, 4, 0, 11, a)
  BY <1>0, Zenon DEF Made
<1> HIDE DEF others
<1>3. Clear(others, 6, 10, 9, 4, 0, 11)
  BY <1>1 DEF Clear
<1>4. Carries(w, 6, 10, 9, 4, 0, 11, a)
  BY <1>0, <1>3, SmallCarries, Zenon
<1>5. ReadAttributes(w, 6, 10, 9, 4, 0, 11) = Wanted(a)
  BY <1>4, AttributesRead
<1>6. \A p : Sets(p, 6, 10, 9, 4, 0, 11, a) => p = 0 \/ p \in 2 .. 11
  BY DEF Sets
<1>7. \A p : p \in w => p \in 0 .. 31
  BY <1>1, <1>2, <1>6
<1>8. 1 \in w
  BY <1>1, <1>2
<1>9. Kind(2, w) = "small page"
  <2>1. w \cap {0, 1} # {}
    BY <1>8
  <2>2. 2 # 1
    OBVIOUS
  <2>3. QED
    BY <1>8, <2>1, <2>2, Zenon DEF Kind
<1>10. w \cap 12 .. 31 = phy \cap 12 .. 31
  <2>1. \A p \in 12 .. 31 : p \in w <=> p \in phy
    BY <1>1, <1>2, <1>6
  <2>2. QED
    BY <2>1
<1>11. ReadAddress(2, w) = phy \cap 12 .. 31
  BY <1>9, <1>10 DEF ReadAddress
<1>12. Read(2, w) = Wanted(a)
  BY <1>5, <1>9 DEF Read
<1>13. QED
  BY <1>7, <1>9, <1>11, <1>12 DEF ReadsAs

\* A pointer to a second-level table.
TableWord(w, phy, d, E) == w = {0} \cup (phy \cap 10 .. 31) \cup Bits(5, 4, d) \cup E

\* Its mark, its address, a domain and two flags are read back.
LEMMA TableReadsAs ==
  ASSUME NEW phy, NEW d \in 0 .. 15, NEW E \in SUBSET {2, 3}, NEW w,
         TableWord(w, phy, d, E)
  PROVE  /\ w \subseteq 0 .. 31 /\ Kind(1, w) = "table"
         /\ ReadAddress(1, w) = phy \cap 10 .. 31
         /\ FieldOf(w, 5, 4) = d
         /\ (2 \in w <=> 2 \in E) /\ (3 \in w <=> 3 \in E)
<1>1. \A p : p \in Bits(5, 4, d) <=>
         \/ p = 5 /\ Bit(d, 0)
         \/ p = 6 /\ Bit(d, 1)
         \/ p = 7 /\ Bit(d, 2)
         \/ p = 8 /\ Bit(d, 3)
  <2>1. 5 \in Nat /\ d \in Nat /\ 5 + 1 = 6 /\ 5 + 2 = 7 /\ 5 + 3 = 8
    OBVIOUS
  <2>2. QED
    BY <2>1, BitsFour
<1>2. \A p : p \in w <=> \/ p = 0 \/ p \in E
                         \/ p \in 10 .. 31 /\ p \in phy
                         \/ p = 5 /\ Bit(d, 0)
                         \/ p = 6 /\ Bit(d, 1)
                         \/ p = 7 /\ Bit(d, 2)
                         \/ p = 8 /\ Bit(d, 3)
  BY <1>1, Zenon DEF TableWord
<1>3. \A p \in E : p = 2 \/ p = 3
  OBVIOUS
<1>4. ASSUME NEW p \in w PROVE p \in 0 .. 31
  <2>1. p = 0 \/ p \in E \/ p \in 10 .. 31 \/ p = 5 \/ p = 6 \/ p = 7 \/ p = 8
    BY <1>2, Zenon
  <2>2. p \in E => p = 2 \/ p = 3
    BY <1>3, Zenon
  <2>3. QED
    BY <2>1, <2>2
<1>5. 0 \in w /\ 1 \notin w
  BY <1>2, <1>3
<1>6. Kind(1, w) = "table"
  BY <1>5 DEF Kind
<1>7. w \cap 10 .. 31 = phy \cap 10 .. 31
  <2>1. \A p \in 10 .. 31 : p \in w <=> p \in phy
    BY <1>2, <1>3
  <2>2. QED
    BY <2>1
<1>8. ReadAddress(1, w) = phy \cap 10 .. 31
  BY <1>6, <1>7 DEF ReadAddress
<1>9. FieldOf(w, 5, 4) = d
  <2>1. (5 \in w <=> Bit(d, 0)) /\ (6 \in w <=> Bit(d, 1)) /\ (7 \in w <=> Bit(d, 2)) /\ (8 \in w <=> Bit(d, 3))
    BY <1>2, <1>3
  <2>2. 5 \in Nat /\ 5 + 1 = 6 /\ 5 + 2 = 7 /\ 5 + 3 = 8
    OBVIOUS
  <2>3. QED
    BY <2>1, <2>2, FieldFour
<1>10. (2 \in w <=> 2 \in E) /\ (3 \in w <=> 3 \in E)
  BY <1>2
<1>11. QED
  BY <1>4, <1>6, <1>8, <1>9, <1>10

-----------------------------------------------------------------------------
\* All that can be asked for: any domain, any flags.
Whole(a) == Request(a) /\ a.domain \in 0 .. 15 /\ a.PXN \in BOOLEAN /\ a.NS \in BOOLEAN

\* Those flags when the format has them at i and j.
FlagSet(f, a, i, j) == {p \in {i, j} : Flagged(f, a, p)}

\* They are the bits of the set.
LEMMA FlagBits ==
  ASSUME NEW f, NEW a, NEW i, NEW j, "PXN" \in DOMAIN f => f.PXN = i /\ f.NS = j
  PROVE  /\ FlagSet(f, a, i, j) \in SUBSET {i, j}
         /\ \A p : p \in FlagSet(f, a, i, j) <=> Flagged(f, a, p)
BY DEF FlagSet, Flagged

\* Both sections read back, with any word that can be asked for.
LEMMA SectionsRead ==
  ASSUME NEW phy, NEW a, Whole(a), NEW f, NEW x, x.f = f, x.kind = "section", x.level = 1,
         "TEX" \in DOMAIN f, "DOM" \in DOMAIN f,
         f.BITS = {1}, f.BASE = 20 .. 31, f.XN = 4, f.S = 16, f.nG = 17, f.AP = 10,
         f.APX = 15, f.DOM = 5, f.B = 2, f.TEX = 12,
         "PXN" \in DOMAIN f => f.PXN = 0 /\ f.NS = 19
  PROVE  ReadsBack(x, phy, a, Build(f, phy, a))
<1> DEFINE w == Build(f, phy, a)
           E == FlagSet(f, a, 0, 19)
<1>1. \A p : p \in Attributes(f, a) <=> Sets(p, 12, 16, 15, 10, 4, 17, a)
  BY AttributeBits DEF Whole
<1>2. \A p : p \in BASEADDR(f, phy) <=> p \in phy \cap 20 .. 31
  BY PlainAddress
<1>3. /\ E \in SUBSET {0, 19}
      /\ \A p : p \in E <=> Flagged(f, a, p)
  BY FlagBits
<1>4. Made(w, {1} \cup (phy \cap 20 .. 31) \cup Bits(5, 4, a.domain) \cup E, 12, 16, 15, 10, 4, 17, a)
  BY <1>1, <1>2, <1>3, BuildBits DEF Made
<1>5. Request(a) /\ a.domain \in 0 .. 15
  BY DEF Whole
<1> HIDE DEF w, E
<1>6. /\ ReadsAs(1, "section", w, phy \cap 20 .. 31, a)
      /\ FieldOf(w, 5, 4) = a.domain
      /\ (0 \in w <=> 0 \in E) /\ (19 \in w <=> 19 \in E)
  BY <1>3, <1>4, <1>5, SectionReadsAs, Zenon
<1>7. "PXN" \in DOMAIN f => (0 \in w) = a.PXN /\ (19 \in w) = a.NS
  BY <1>3, <1>6 DEF Whole, Flagged
<1>8. QED
  BY <1>6, <1>7 DEF ReadsBack, ReadsAs, Wanted, w

\* Both supersections do.
LEMMA SupersectionsRead ==
  ASSUME NEW phy, NEW a, Whole(a), NEW f, NEW x, x.f = f, x.kind = "supersection", x.level = 1,
         "TEX" \in DOMAIN f, "DOM" \notin DOMAIN f,
         f.BITS = {1, 18}, f.BASE = 24 .. 39, f.XN = 4, f.S = 16, f.nG = 17, f.AP = 10,
         f.APX = 15, f.B = 2, f.TEX = 12,
         "PXN" \in DOMAIN f => f.PXN = 0 /\ f.NS = 19
  PROVE  ReadsBack(x, phy, a, Build(f, phy, a))
<1> DEFINE w == Build(f, phy, a)
           E == FlagSet(f, a, 0, 19)
<1>1. \A p : p \in Attributes(f, a) <=> Sets(p, 12, 16, 15, 10, 4, 17, a)
  BY AttributeBits DEF Whole
<1>2. /\ E \in SUBSET {0, 19}
      /\ \A p : p \in E <=> Flagged(f, a, p)
  BY FlagBits
<1>3. Made(w, {1, 18} \cup BASEADDR(f, phy) \cup E, 12, 16, 15, 10, 4, 17, a)
  BY <1>1, <1>2, BuildBits DEF Made
<1>4. Request(a)
  BY DEF Whole
<1> HIDE DEF w, E
<1>5. /\ ReadsAs(1, "supersection", w, phy \cap 24 .. 39, a)
      /\ (0 \in w <=> 0 \in E) /\ (19 \in w <=> 19 \in E)
  BY <1>2, <1>3, <1>4, SupersectionReadsAs, Zenon
<1>6. "PXN" \in DOMAIN f => (0 \in w) = a.PXN /\ (19 \in w) = a.NS
  BY <1>2, <1>5 DEF Whole, Flagged
<1>7. QED
  BY <1>5, <1>6 DEF ReadsBack, ReadsAs, Wanted, w

\* What is found in a large page of either format.
LEMMA LargePagesRead ==
  ASSUME NEW phy, NEW a, Request(a), NEW f, "TEX" \in DOMAIN f, "DOM" \notin DOMAIN f, "PXN" \notin DOMAIN f,
         f.BITS = {0}, f.BASE = 16 .. 31, f.XN = 15, f.S = 10, f.nG = 11, f.AP = 4,
         f.APX = 9, f.B = 2, f.TEX = 12
  PROVE  ReadsAs(2, "large page", Build(f, phy, a), phy \cap f.BASE, a)
<1> DEFINE w == Build(f, phy, a)
<1>1. \A p : p \in Attributes(f, a) <=> Sets(p, 12, 10, 9, 4, 15, 11, a)
  BY AttributeBits
<1>2. \A p : p \in BASEADDR(f, phy) <=> p \in phy \cap 16 .. 31
  BY PlainAddress
<1>3. Made(w, {0} \cup (phy \cap 16 .. 31), 12, 10, 9, 4, 15, 11, a)
  BY <1>1, <1>2, BuildBits DEF Made, Flagged
<1> HIDE DEF w
<1>4. ReadsAs(2, "large page", w, phy \cap 16 .. 31, a)
  BY <1>3, LargePageReadsAs, Zenon
<1>5. QED
  BY <1>4, Zenon DEF w

\* What is found in a small page of either format.
LEMMA SmallPagesRead ==
  ASSUME NEW phy, NEW a, Request(a), NEW f, "TEX" \in DOMAIN f, "DOM" \notin DOMAIN f, "PXN" \notin DOMAIN f,
         f.BITS = {1}, f.BASE = 12 .. 31, f.XN = 0, f.S = 10, f.nG = 11, f.AP = 4,
         f.APX = 9, f.B = 2, f.TEX = 6
  PROVE  ReadsAs(2, "small page", Build(f, phy, a), phy \cap f.BASE, a)
<1> DEFINE w == Build(f, phy, a)
<1>1. \A p : p \in Attributes(f, a) <=> Sets(p, 6, 10, 9, 4, 0, 11, a)
  BY AttributeBits
<1>2. \A p : p \in BASEADDR(f, phy) <=> p \in phy \cap 12 .. 31
  BY PlainAddress
<1>3. Made(w, {1} \cup (phy \cap 12 .. 31), 6, 10, 9, 4, 0, 11, a)
  BY <1>1, <1>2, BuildBits DEF Made, Flagged
<1> HIDE DEF w
<1>4. ReadsAs(2, "small page", w, phy \cap 12 .. 31, a)
  BY <1>3, SmallPageReadsAs, Zenon
<1>5. QED
  BY <1>4, Zenon DEF w

\* A page reads back as what was found in it.
LEMMA PagesRead ==
  ASSUME NEW phy, NEW a, NEW x, NEW w, ReadsAs(x.level, x.kind, w, phy \cap x.f.BASE, a),
         "DOM" \notin DOMAIN x.f, "PXN" \notin DOMAIN x.f
  PROVE  ReadsBack(x, phy, a, w)
BY Zenon DEF ReadsBack, ReadsAs, Wanted

\* Both pointers to a second-level table read back.
LEMMA TablesRead ==
  ASSUME NEW phy, NEW a, Whole(a), NEW f, NEW x, x.f = f, x.kind = "table", x.level = 1,
         "TEX" \notin DOMAIN f, "DOM" \in DOMAIN f,
         f.BITS = {0}, f.BASE = 10 .. 31, f.DOM = 5,
         "PXN" \in DOMAIN f => f.PXN = 2 /\ f.NS = 3
  PROVE  ReadsBack(x, phy, a, Build(f, phy, a))
<1> DEFINE w == Build(f, phy, a)
           E == FlagSet(f, a, 2, 3)
<1>1. \A p : p \in BASEADDR(f, phy) <=> p \in phy \cap 10 .. 31
  BY PlainAddress
<1>2. /\ E \in SUBSET {2, 3}
      /\ \A p : p \in E <=> Flagged(f, a, p)
  BY FlagBits
<1>3. TableWord(w, phy, a.domain, E)
  <2>1. \A p : p \in w <=> p \in {0} \cup (phy \cap 10 .. 31) \cup Bits(5, 4, a.domain) \cup E
    BY <1>1, <1>2, BuildTableBits
  <2> HIDE DEF w, E
  <2>2. QED
    BY <2>1, Zenon DEF TableWord
<1>4. a.domain \in 0 .. 15
  BY DEF Whole
<1> HIDE DEF w, E
<1>5. /\ w \subseteq 0 .. 31 /\ Kind(1, w) = "table"
      /\ ReadAddress(1, w) = phy \cap 10 .. 31
      /\ FieldOf(w, 5, 4) = a.domain
      /\ (2 \in w <=> 2 \in E) /\ (3 \in w <=> 3 \in E)
  BY <1>2, <1>3, <1>4, TableReadsAs, Zenon
<1>6. "PXN" \in DOMAIN f => (2 \in w) = a.PXN /\ (3 \in w) = a.NS
  BY <1>2, <1>5 DEF Whole, Flagged
<1>7. QED
  BY <1>5, <1>6 DEF ReadsBack, w

\* What is asked of the build functions of any format is what the MMU does: a word of that format,
\* for any physical address, memory type, permission, domain and flags, is of its kind and reads as
\* that address and those attributes, although their fields share the word.
THEOREM WordsReadBack ==
  ASSUME NEW x \in Formats, NEW phy, NEW a, Whole(a)
  PROVE  ReadsBack(x, phy, a, Build(x.f, phy, a))
<1>0. Request(a)
  BY DEF Whole
<1>1. CASE x = [kind |-> "section", level |-> 1, f |-> VMSAv7_section]
  BY <1>1, SectionsRead DEF VMSAv7_section
<1>2. CASE x = [kind |-> "section", level |-> 1, f |-> VMSAv6_section]
  BY <1>2, SectionsRead DEF VMSAv6_section
<1>3. CASE x = [kind |-> "supersection", level |-> 1, f |-> VMSAv7_supersection]
  BY <1>3, SupersectionsRead DEF VMSAv7_supersection
<1>4. CASE x = [kind |-> "supersection", level |-> 1, f |-> VMSAv6_supersection]
  BY <1>4, SupersectionsRead DEF VMSAv6_supersection
<1>5. CASE x = [kind |-> "table", level |-> 1, f |-> VMSAv7_pagetable]
  BY <1>5, TablesRead DEF VMSAv7_pagetable
<1>6. CASE x = [kind |-> "table", level |-> 1, f |-> VMSAv6_coarse_pt]
  BY <1>6, TablesRead DEF VMSAv6_coarse_pt
<1>7. CASE x = [kind |-> "large page", level |-> 2, f |-> VMSAv7_largepage]
  <2>1. x.kind = "large page" /\ x.level = 2 /\ x.f = VMSAv7_largepage
    BY <1>7, Zenon
  <2>2. ReadsAs(2, "large page", Build(VMSAv7_largepage, phy, a), phy \cap VMSAv7_largepage.BASE, a)
    BY <1>0, LargePagesRead DEF VMSAv7_largepage
  <2>3. "DOM" \notin DOMAIN VMSAv7_largepage /\ "PXN" \notin DOMAIN VMSAv7_largepage
    BY DEF VMSAv7_largepage
  <2>4. QED
    BY <2>1, <2>2, <2>3, PagesRead, Zenon
<1>8. CASE x = [kind |-> "large page", level |-> 2, f |-> VMSAv6_largepage]
  <2>1. x.kind = "large page" /\ x.level = 2 /\ x.f = VMSAv6_largepage
    BY <1>8, Zenon
  <2>2. ReadsAs(2, "large page", Build(VMSAv6_largepage, phy, a), phy \cap VMSAv6_largepage.BASE, a)
    BY <1>0, LargePagesRead DEF VMSAv6_largepage
  <2>3. "DOM" \notin DOMAIN VMSAv6_largepage /\ "PXN" \notin DOMAIN VMSAv6_largepage
    BY DEF VMSAv6_largepage
  <2>4. QED
    BY <2>1, <2>2, <2>3, PagesRead, Zenon
<1>9. CASE x = [kind |-> "small page", level |-> 2, f |-> VMSAv7_smallpage]
  <2>1. x.kind = "small page" /\ x.level = 2 /\ x.f = VMSAv7_smallpage
    BY <1>9, Zenon
  <2>2. ReadsAs(2, "small page", Build(VMSAv7_smallpage, phy, a), phy \cap VMSAv7_smallpage.BASE, a)
    BY <1>0, SmallPagesRead DEF VMSAv7_smallpage
  <2>3. "DOM" \notin DOMAIN VMSAv7_smallpage /\ "PXN" \notin DOMAIN VMSAv7_smallpage
    BY DEF VMSAv7_smallpage
  <2>4. QED
    BY <2>1, <2>2, <2>3, PagesRead, Zenon
<1>10. CASE x = [kind |-> "small page", level |-> 2, f |-> VMSAv6_extendedsmallpage]
  <2>1. x.kind = "small page" /\ x.level = 2 /\ x.f = VMSAv6_extendedsmallpage
    BY <1>10, Zenon
  <2>2. ReadsAs(2, "small page", Build(VMSAv6_extendedsmallpage, phy, a), phy \cap VMSAv6_extendedsmallpage.BASE, a)
    BY <1>0, SmallPagesRead DEF VMSAv6_extendedsmallpage
  <2>3. "DOM" \notin DOMAIN VMSAv6_extendedsmallpage /\ "PXN" \notin DOMAIN VMSAv6_extendedsmallpage
    BY DEF VMSAv6_extendedsmallpage
  <2>4. QED
    BY <2>1, <2>2, <2>3, PagesRead, Zenon
<1>11. QED
  BY <1>1, <1>2, <1>3, <1>4, <1>5, <1>6, <1>7, <1>8, <1>9, <1>10, Zenon DEF Formats

\* A memory type that names no policy twice.
LEMMA PlainTypes ==
  /\ [split |-> FALSE, is |-> StronglyOrdered] \in MemTypes
  /\ \A s \in BOOLEAN : [split |-> FALSE, is |-> Device(s)] \in MemTypes
  /\ \A p \in Policies, s \in BOOLEAN : [split |-> FALSE, is |-> Uniform(p, s)] \in MemTypes
<1> DEFINE devices == {Device(s) : s \in BOOLEAN}
           policies == {Uniform(p, s) : p \in Policies, s \in BOOLEAN}
           types == {StronglyOrdered} \cup devices \cup policies
           plain(t) == [split |-> FALSE, is |-> t]
           doubled == {[split |-> TRUE, is |-> [type |-> "normal", outer |-> o, inner |-> i, shared |-> s]] :
                       o \in Policies, i \in Policies, s \in BOOLEAN}
<1>1. MemTypes = {plain(t) : t \in types} \cup doubled
  BY DEF MemTypes
<1>2. \A s \in BOOLEAN : Device(s) \in devices
  OBVIOUS
<1>3. \A p \in Policies, s \in BOOLEAN : Uniform(p, s) \in policies
  OBVIOUS
<1> HIDE DEF devices, policies, doubled
<1>4. /\ StronglyOrdered \in types
      /\ \A s \in BOOLEAN : Device(s) \in types
      /\ \A p \in Policies, s \in BOOLEAN : Uniform(p, s) \in types
  BY <1>2, <1>3
<1> HIDE DEF types
<1>5. \A t \in types : plain(t) \in MemTypes
  BY <1>1
<1>6. QED
  BY <1>4, <1>5

\* What the kernel asks for of a small page is read back too.
LEMMA AskedReadsBack ==
  ASSUME NEW flags \in {"RAM", "DEVICE", "NOACCESS"}
  PROVE  LET r == Read(2, Build(VMSAv7_smallpage, {}, Asked(flags)))
         IN  SmallPage(0, flags) = [phy |-> 0, type |-> r.memory.type, access |-> r.access, xn |-> r.XN]
<1> DEFINE a == Asked(flags)
           r == Read(2, Build(VMSAv7_smallpage, {}, a))
<1>1. Request(a)
  <2>1. a.access \in Accesses /\ a.nG \in BOOLEAN /\ a.XN \in BOOLEAN
    BY DEF Asked, AskedOfRam, AskedOfFlags, Accesses
  <2>2. a.memtype.is \in {StronglyOrdered, Device(TRUE), Uniform("writeback", TRUE)}
    BY DEF Asked, AskedOfRam, AskedOfFlags
  <2>3. a.memtype = [split |-> FALSE, is |-> a.memtype.is]
    BY DEF Asked, AskedOfRam, AskedOfFlags
  <2> HIDE DEF a
  <2>4. /\ [split |-> FALSE, is |-> StronglyOrdered] \in MemTypes
        /\ [split |-> FALSE, is |-> Device(TRUE)] \in MemTypes
        /\ [split |-> FALSE, is |-> Uniform("writeback", TRUE)] \in MemTypes
    <3>1. "writeback" \in Policies
      BY DEF Policies
    <3>2. QED
      BY <3>1, PlainTypes
  <2>5. a.memtype \in MemTypes
    BY <2>2, <2>3, <2>4
  <2>6. QED
    BY <2>1, <2>5, Zenon DEF Request
<1> HIDE DEF a
<1>2. ReadsAs(2, "small page", Build(VMSAv7_smallpage, {}, a), {} \cap VMSAv7_smallpage.BASE, a)
  BY <1>1, SmallPagesRead DEF VMSAv7_smallpage
<1>3. r = Wanted(a)
  BY <1>2, Zenon DEF ReadsAs
<1> HIDE DEF r
<1>4. r.memory.type = a.memtype.is.type /\ r.access = a.access /\ r.XN = a.XN
  BY <1>3 DEF Wanted
<1>5. SmallPage(0, flags) = [phy |-> 0, type |-> a.memtype.is.type, access |-> a.access, xn |-> a.XN]
  BY Zenon DEF SmallPage, a
<1>6. QED
  BY <1>4, <1>5, Zenon DEF r, a

\* What a driver or the kernel asks for is what the MMU does: no word of any format is misread, and
\* the small pages of init_page_tables and vm_map have the type, permission and XN of their flags.
THEOREM DescriptorsRead == Spec => []DescriptorsReadBack
<1>1. Misread = {}
  <2>1. ASSUME NEW x \in Formats, NEW phy, NEW a \in ArgumentsOf(x.f)
        PROVE  ReadsBack(x, phy, a, Build(x.f, phy, a))
    <3>1. a \in Arguments
      BY Zenon DEF ArgumentsOf
    <3>2. Whole(a)
      BY <3>1 DEF Arguments, Whole, Request
    <3>3. QED
      BY <3>2, WordsReadBack, Zenon
  <2>2. QED
    BY <2>1, Zenon DEF Misread
<1>2. DescriptorsReadBack
  BY <1>1, AskedReadsBack, Zenon DEF DescriptorsReadBack
<1>3. QED
  BY <1>2, PTL
=============================================================================
