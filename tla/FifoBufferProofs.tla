-------------------------- MODULE FifoBufferProofs --------------------------
(***************************************************************************)
(* A ring of any size, filled and emptied by fifo_buffer_putb and          *)
(* fifo_buffer_getb, is a queue.                                           *)
(***************************************************************************)
EXTENDS FifoBuffer, SequenceTheorems, TLAPS

\* The places of n bytes from r on: the one after them is free, and Advance goes to the next.
LEMMA Places ==
  ASSUME NEW r \in 0 .. sz - 1
  PROVE  /\ \A n \in 0 .. sz : Wrap(r + n) \in 0 .. sz - 1
         /\ \A n \in 0 .. sz - 1 :
              /\ Advance(Wrap(r + n)) = Wrap(r + (n + 1))
              /\ \A i \in 1 .. n : Wrap(r + i - 1) # Wrap(r + n)
         /\ Advance(r) \in 0 .. sz - 1
         /\ \A n \in 1 .. sz : Wrap(Advance(r) + (n - 1)) = Wrap(r + n)
BY FifoAssumption DEF Wrap, Advance

\* fifo_buffer_create makes a ring whose counts and indices agree, with nothing in it.
LEMMA CreateEmpty ==
  ASSUME NEW f \in fifo_buffer_create
  PROVE  WellFormed(f) /\ Contents(f) = <<>>
<1>1. f \in Ring /\ f.ri = 0 /\ f.wi = 0 /\ f.rsz = 0 /\ f.wsz = sz
  BY FifoAssumption DEF fifo_buffer_create, Ring
<1>2. WellFormed(f)
  BY <1>1, FifoAssumption DEF WellFormed, Wrap
<1>3. Contents(f) = <<>>
  BY <1>1 DEF Contents
<1>4. QED
  BY <1>2, <1>3

\* The bytes to be read are in the ring.
LEMMA ContentsIsSeq ==
  ASSUME NEW f, WellFormed(f)
  PROVE  /\ Contents(f) \in Seq(Byte)
         /\ Len(Contents(f)) = f.rsz
         /\ \A i \in 1 .. f.rsz : /\ Contents(f)[i] = f.bp[Wrap(f.ri + i - 1)]
                                  /\ Wrap(f.ri + i - 1) \in 0 .. sz - 1
<1>1. f.bp \in [0 .. sz - 1 -> Byte] /\ f.ri \in 0 .. sz - 1 /\ f.rsz \in 0 .. sz
  BY DEF WellFormed, Ring
<1>2. \A i \in 1 .. f.rsz : Wrap(f.ri + i - 1) \in 0 .. sz - 1
  BY <1>1, FifoAssumption DEF Wrap
<1>3. Contents(f) \in [1 .. f.rsz -> Byte] /\ f.rsz \in Nat
  BY <1>1, <1>2, FifoAssumption DEF Contents
<1>4. Contents(f) \in Seq(Byte)
  BY <1>3, SeqDef
<1>5. Len(Contents(f)) = f.rsz
  BY <1>3, <1>4, LenProperties
<1>6. QED
  BY <1>2, <1>4, <1>5 DEF Contents

\* A byte that is put becomes the last one to be read (fifo_buffer_putb).
LEMMA PutAppends ==
  ASSUME NEW f, WellFormed(f), NEW x \in Byte, f.wsz > 0
  PROVE  /\ WellFormed(fifo_buffer_putb(f, x))
         /\ Contents(fifo_buffer_putb(f, x)) = Append(Contents(f), x)
<1> DEFINE g == fifo_buffer_putb(f, x)
           r == f.ri
           n == f.rsz
           s == Append(Contents(f), x)
<1>1. /\ f.bp \in [0 .. sz - 1 -> Byte] /\ r \in 0 .. sz - 1 /\ n \in 0 .. sz - 1
      /\ f.wsz - 1 \in 0 .. sz /\ f.wsz = sz - n /\ f.wi = Wrap(r + n)
  BY FifoAssumption DEF WellFormed, Ring
<1>2. /\ g.bp = [f.bp EXCEPT ![f.wi] = x] /\ g.ri = r /\ g.wi = Advance(f.wi)
      /\ g.rsz = n + 1 /\ g.wsz = f.wsz - 1
  BY DEF fifo_buffer_putb
<1>3. /\ Wrap(r + n) \in 0 .. sz - 1
      /\ Advance(Wrap(r + n)) = Wrap(r + (n + 1))
      /\ Wrap(r + (n + 1)) \in 0 .. sz - 1
      /\ \A i \in 1 .. n : Wrap(r + i - 1) # Wrap(r + n)
  <2> HIDE DEF r, n
  <2>1. n \in 0 .. sz /\ n + 1 \in 0 .. sz
    BY <1>1, FifoAssumption
  <2>2. QED
    BY <1>1, <2>1, Places
<1>4. WellFormed(g)
  <2>1. [f.bp EXCEPT ![f.wi] = x] \in [0 .. sz - 1 -> Byte]
    BY <1>1
  <2>2. n + 1 \in 0 .. sz /\ (n + 1) + (f.wsz - 1) = sz
    BY <1>1, FifoAssumption
  <2>3. g \in Ring
    BY <1>1, <1>3, <2>1, <2>2 DEF Ring, fifo_buffer_putb
  <2> HIDE DEF g
  <2>4. QED
    BY <1>1, <1>2, <1>3, <2>2, <2>3 DEF WellFormed
<1>5. /\ s \in Seq(Byte) /\ Len(s) = n + 1 /\ s[n + 1] = x
      /\ \A i \in 1 .. n : s[i] = f.bp[Wrap(r + i - 1)] /\ Wrap(r + i - 1) \in 0 .. sz - 1
  BY ContentsIsSeq, AppendProperties
<1>6. /\ Contents(g) \in Seq(Byte) /\ Len(Contents(g)) = n + 1
      /\ \A i \in 1 .. n + 1 : Contents(g)[i] = g.bp[Wrap(r + i - 1)]
  <2> HIDE DEF g, r, n
  <2>1. /\ Contents(g) \in Seq(Byte) /\ Len(Contents(g)) = g.rsz
        /\ \A i \in 1 .. g.rsz : Contents(g)[i] = g.bp[Wrap(g.ri + i - 1)]
    BY <1>4, ContentsIsSeq, Zenon
  <2>2. g.rsz = n + 1 /\ g.ri = r
    BY <1>2
  <2>3. QED
    BY <2>1, <2>2, Zenon
<1> HIDE DEF g, r, n, s
<1>7. ASSUME NEW i \in 1 .. n + 1 PROVE Contents(g)[i] = s[i]
  <2>1. CASE i = n + 1
    <3>1. r + i - 1 = r + n
      BY <1>1, <2>1, FifoAssumption
    <3>2. g.bp[Wrap(r + n)] = x
      BY <1>1, <1>2, <1>3
    <3>3. Contents(g)[i] = x
      BY <1>6, <3>1, <3>2
    <3>4. QED
      BY <1>5, <2>1, <3>3
  <2>2. CASE i \in 1 .. n
    <3>1. Wrap(r + i - 1) # f.wi /\ Wrap(r + i - 1) \in 0 .. sz - 1
      BY <1>1, <1>3, <1>5, <2>2
    <3>2. g.bp[Wrap(r + i - 1)] = f.bp[Wrap(r + i - 1)]
      BY <1>1, <1>2, <3>1
    <3>3. QED
      BY <1>5, <1>6, <2>2, <3>2
  <2>3. i = n + 1 \/ i \in 1 .. n
    BY <1>1, FifoAssumption
  <2>4. QED
    BY <2>1, <2>2, <2>3
<1>8. Contents(g) = s
  BY <1>5, <1>6, <1>7, SeqEqual
<1>9. QED
  BY <1>4, <1>8 DEF g, s

\* The next byte is the first of those that were put, and goes (fifo_buffer_getb).
LEMMA GetTakesHead ==
  ASSUME NEW f, WellFormed(f), f.rsz > 0
  PROVE  /\ WellFormed(fifo_buffer_getb(f))
         /\ Contents(f) # <<>>
         /\ NextByte(f) \in Byte
         /\ NextByte(f) = Head(Contents(f))
         /\ Contents(fifo_buffer_getb(f)) = Tail(Contents(f))
<1> DEFINE g == fifo_buffer_getb(f)
           r == f.ri
           n == f.rsz
           c == Contents(f)
<1>1. /\ f.bp \in [0 .. sz - 1 -> Byte] /\ r \in 0 .. sz - 1 /\ n \in 1 .. sz
      /\ f.wi \in 0 .. sz - 1 /\ f.wsz = sz - n /\ f.wi = Wrap(r + n)
  BY FifoAssumption DEF WellFormed, Ring
<1>2. /\ g.bp = f.bp /\ g.ri = Advance(r) /\ g.wi = f.wi
      /\ g.rsz = n - 1 /\ g.wsz = f.wsz + 1
  BY DEF fifo_buffer_getb
<1>3. /\ Advance(r) \in 0 .. sz - 1
      /\ \A k \in 1 .. sz : Wrap(Advance(r) + (k - 1)) = Wrap(r + k)
  BY <1>1, Places
<1>4. WellFormed(g)
  <2>1. n - 1 \in 0 .. sz /\ f.wsz + 1 \in 0 .. sz /\ (n - 1) + (f.wsz + 1) = sz
    <3>1. sz \in Nat /\ n \in 1 .. sz /\ f.wsz = sz - n
      BY <1>1, FifoAssumption, Zenon
    <3> HIDE DEF n
    <3>2. QED
      BY <3>1
  <2>2. g \in Ring
    BY <1>1, <1>3, <2>1 DEF Ring, fifo_buffer_getb
  <2>3. Wrap(Advance(r) + (n - 1)) = Wrap(r + n)
    BY <1>1, <1>3
  <2> HIDE DEF g
  <2>4. QED
    BY <1>1, <1>2, <2>1, <2>2, <2>3 DEF WellFormed
<1>5. /\ c \in Seq(Byte) /\ Len(c) = n
      /\ \A i \in 1 .. n : c[i] = f.bp[Wrap(r + i - 1)]
  BY ContentsIsSeq
<1>6. /\ Contents(g) \in Seq(Byte) /\ Len(Contents(g)) = n - 1
      /\ \A i \in 1 .. n - 1 : Contents(g)[i] = f.bp[Wrap(Advance(r) + i - 1)]
  <2> HIDE DEF g, r, n
  <2>1. QED
    BY <1>2, <1>4, ContentsIsSeq
<1> HIDE DEF g, c
<1>7. c # <<>>
  BY <1>1, <1>5, FifoAssumption
<1>8. NextByte(f) \in Byte /\ NextByte(f) = Head(c)
  <2>1. Head(c) = c[1] /\ c[1] = f.bp[Wrap(r + 1 - 1)]
    BY <1>1, <1>5, <1>7, FifoAssumption
  <2>2. Wrap(r + 1 - 1) = r
    BY <1>1, FifoAssumption DEF Wrap
  <2>3. QED
    BY <1>1, <2>1, <2>2 DEF NextByte
<1> HIDE DEF r, n
<1>9. /\ Tail(c) \in Seq(Byte) /\ Len(Tail(c)) = n - 1
      /\ \A i \in 1 .. n - 1 : Tail(c)[i] = c[i + 1]
  BY <1>5, <1>7, HeadTailProperties
<1>10. ASSUME NEW i \in 1 .. n - 1 PROVE Contents(g)[i] = Tail(c)[i]
  <2>1. /\ i + 1 \in 1 .. n /\ i \in 1 .. sz
        /\ Advance(r) + i - 1 = Advance(r) + (i - 1) /\ r + (i + 1) - 1 = r + i
    BY <1>1, <1>3, FifoAssumption
  <2>2. Wrap(Advance(r) + i - 1) = Wrap(r + (i + 1) - 1)
    BY <1>3, <2>1
  <2>3. QED
    BY <1>5, <1>6, <1>9, <2>1, <2>2
<1>11. Contents(g) = Tail(c)
  BY <1>6, <1>9, <1>10, SeqEqual
<1>12. QED
  BY <1>4, <1>7, <1>8, <1>11 DEF g, c
=============================================================================
