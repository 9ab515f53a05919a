----------------------------- MODULE PageProofs -----------------------------
(***************************************************************************)
(* The page allocator hands out disjoint blocks, takes each back at the    *)
(* order it left with, and finds a page while there is one: for heaps of   *)
(* any size in which every order has room for its bits (Room).             *)
(*                                                                         *)
(* The bits are looked at from the pages: At(o, p) is the place of the bit *)
(* of the block of 2^o pages that page p lies in.  PageInv says what is    *)
(* set for the blocks that are out, TreeInv also that nothing else is.     *)
(***************************************************************************)
EXTENDS Page2, FiniteSetTheorems, WellFoundedInduction, TLAPS

-----------------------------------------------------------------------------
(* Numbers.                                                                  *)

\* A non-empty set of naturals has a least element.
LEMMA LeastNatural ==
  ASSUME NEW S \in SUBSET Nat, S # {}
  PROVE  \E x \in S : \A y \in S : x <= y
<1>1. PICK x \in S : \A y \in S : <<y, x>> \notin OpToRel(<, Nat)
  BY NatLessThanWellFounded, WFMin
<1>2. \A y \in S : ~(y < x)
  BY <1>1 DEF OpToRel
<1>3. QED
  BY <1>2

\* Induction from a to b, over a set.
LEMMA Climb ==
  ASSUME NEW a \in Nat, NEW b \in Nat, NEW P,
         a \in P, \A k \in a .. b - 1 : k \in P => k + 1 \in P
  PROVE  \A k \in a .. b : k \in P
<1> DEFINE S == {k \in a .. b : k \notin P}
<1>1. S \subseteq Nat
  OBVIOUS
<1>2. ASSUME S # {} PROVE FALSE
  <2>1. PICK x \in S : \A y \in S : x <= y
    <3> HIDE DEF S
    <3> QED
      BY <1>1, <1>2, LeastNatural
  <2>2. x \in a .. b /\ x \notin P /\ x # a
    BY <2>1
  <2>3. x - 1 \in a .. b - 1 /\ x - 1 \in a .. b /\ (x - 1) + 1 = x
    BY <2>2
  <2>4. x - 1 \notin S
    <3> HIDE DEF S
    <3> QED
      BY <1>1, <2>1, <2>3
  <2>5. x - 1 \in P
    BY <2>3, <2>4
  <2>6. QED
    BY <2>2, <2>3, <2>5
<1>3. QED
  BY <1>2

\* BIT is what its definition says.
LEMMA Powers ==
  /\ BIT \in [0 .. 30 -> Nat \ {0}]
  /\ BIT[0] = 1
  /\ \A o \in 0 .. 29 : BIT[o + 1] = 2 * BIT[o]
<1> DEFINE Powering(f, k) == /\ f \in [0 .. k -> Nat \ {0}] /\ f[0] = 1
                             /\ \A j \in 1 .. k : f[j] = 2 * f[j - 1]
           P == {k \in 0 .. 30 : \E f : Powering(f, k)}
<1>1. 0 \in P
  <2>1. Powering([j \in 0 .. 0 |-> 1], 0)
    OBVIOUS
  <2> HIDE DEF Powering
  <2>2. \E f : Powering(f, 0)
    BY <2>1
  <2>3. QED
    BY <2>2
<1>2. ASSUME NEW k \in 0 .. 30 - 1, k \in P PROVE k + 1 \in P
  <2>1. PICK f : Powering(f, k)
    BY <1>2
  <2> DEFINE g == [j \in 0 .. k + 1 |-> IF j = k + 1 THEN 2 * f[k] ELSE f[j]]
  <2>2. g \in [0 .. k + 1 -> Nat \ {0}] /\ g[0] = 1
    <3>1. k \in Nat /\ f[k] \in Nat \ {0} /\ f[0] = 1
      BY <2>1
    <3>2. ASSUME NEW j \in 0 .. k + 1 PROVE (IF j = k + 1 THEN 2 * f[k] ELSE f[j]) \in Nat \ {0}
      <4>1. CASE j = k + 1
        BY <3>1, <4>1
      <4>2. CASE j \in 0 .. k
        <5>1. f[j] \in Nat \ {0}
          BY <2>1, <4>2
        <5>2. QED
          BY <3>1, <4>2, <5>1
      <4>3. QED
        BY <4>1, <4>2
    <3>3. g \in [0 .. k + 1 -> Nat \ {0}]
      BY <3>2, Zenon
    <3>4. g[0] = 1
      <4>1. 0 \in 0 .. k + 1 /\ 0 # k + 1
        OBVIOUS
      <4>2. QED
        BY <3>1, <4>1, Zenon
    <3>5. QED
      BY <3>3, <3>4
  <2>3. ASSUME NEW j \in 1 .. k + 1 PROVE g[j] = 2 * g[j - 1]
    <3>1. CASE j = k + 1
      BY <2>1, <3>1
    <3>2. CASE j \in 1 .. k
      BY <2>1, <3>2
    <3>3. QED
      BY <3>1, <3>2
  <2>4. Powering(g, k + 1)
    BY <2>2, <2>3
  <2> HIDE DEF Powering
  <2>5. k + 1 \in 0 .. 30 /\ \E h : Powering(h, k + 1)
    BY <2>4
  <2>6. QED
    BY <2>5
<1>3. 30 \in P
  <2> HIDE DEF P
  <2> QED
    BY <1>1, <1>2, Climb
<1>4. PICK f : Powering(f, 30)
  BY <1>3
<1> DEFINE F(g) == [order \in 0 .. 30 |-> IF order = 0 THEN 1 ELSE 2 * g[order - 1]]
           bit == CHOOSE g : g = F(g)
<1>5. f = F(f)
  <2>1. \A o \in 0 .. 30 : f[o] = F(f)[o]
    BY <1>4
  <2>2. QED
    BY <1>4, <2>1
<1>6. bit = F(bit)
  <2> HIDE DEF F
  <2> QED
    BY <1>5
<1>7. BIT = [order \in 0 .. 30 |-> bit[order]]
  BY DEF BIT
<1> HIDE DEF bit
<1>8. /\ bit = [order \in 0 .. 30 |-> bit[order]]
      /\ \A o \in 0 .. 30 : bit[o] = IF o = 0 THEN 1 ELSE 2 * bit[o - 1]
  BY <1>6
<1> DEFINE Q == {o \in 0 .. 30 : bit[o] \in Nat \ {0}}
<1>9. 0 \in Q
  BY <1>8
<1>10. ASSUME NEW o \in 0 .. 30 - 1, o \in Q PROVE o + 1 \in Q
  <2>1. bit[o + 1] = 2 * bit[o]
    BY <1>8
  <2>2. QED
    BY <1>10, <2>1
<1>11. \A o \in 0 .. 30 : o \in Q
  <2> HIDE DEF Q
  <2> QED
    BY <1>9, <1>10, Climb
<1>12. \A o \in 0 .. 29 : bit[o + 1] = 2 * bit[o]
  BY <1>8
<1>13. \A o \in 0 .. 30 : BIT[o] = bit[o]
  BY <1>7
<1>14. bit[0] = 1
  BY <1>8
<1>15. BIT \in [0 .. 30 -> Nat \ {0}]
  <2>1. \A o \in 0 .. 30 : bit[o] \in Nat \ {0}
    BY <1>11, Zenon
  <2>2. QED
    BY <1>7, <2>1
<1>16. BIT[0] = 1
  BY <1>13, <1>14
<1>17. \A o \in 0 .. 29 : BIT[o + 1] = 2 * BIT[o]
  BY <1>12, <1>13
<1>18. QED
  BY <1>15, <1>16, <1>17

\* What division leaves.
LEMMA DivMod ==
  ASSUME NEW x \in Nat, NEW d \in Nat \ {0}
  PROVE  /\ x \div d \in Nat /\ x % d \in 0 .. d - 1
         /\ x = d * (x \div d) + (x % d)
  OBVIOUS

LEMMA DivUnique ==
  ASSUME NEW x \in Nat, NEW d \in Nat \ {0}, NEW q \in Nat, d * q <= x, x < d * q + d
  PROVE  x \div d = q
<1>1. x - d * q \in 0 .. d - 1 /\ x = d * q + (x - d * q)
  OBVIOUS
<1>2. QED
  BY <1>1

\* Halving a quotient doubles the divisor.
LEMMA Halved ==
  ASSUME NEW x \in Nat, NEW d \in Nat \ {0}
  PROVE  (x \div d) \div 2 = x \div (2 * d)
<1> DEFINE q == x \div d
           h == q \div 2
<1>1. q \in Nat /\ d * q <= x /\ x < d * q + d
  BY DivMod
<1> HIDE DEF q
<1>2. h \in Nat /\ (q = 2 * h \/ q = 2 * h + 1)
  BY <1>1
<1> HIDE DEF h
<1>3. d * h \in Nat /\ d * (2 * h) = 2 * (d * h) /\ d * (2 * h + 1) = 2 * (d * h) + d
  BY <1>2
<1>4. 2 * (d * h) <= x /\ x < 2 * (d * h) + 2 * d
  BY <1>1, <1>2, <1>3
<1>5. (2 * d) * h = 2 * (d * h) /\ 2 * d \in Nat \ {0}
  BY <1>2
<1>6. x \div (2 * d) = h
  BY <1>2, <1>4, <1>5, DivUnique
<1>7. QED
  BY <1>6 DEF h, q

\* A block counts if it begins below m, whole or not.
LEMMA BelowCeiling ==
  ASSUME NEW m \in Nat, NEW d \in Nat \ {0}, NEW x \in Nat
  PROVE  x < m \div d + (IF m % d = 0 THEN 0 ELSE 1) <=> d * x < m
<1> DEFINE q == m \div d
           r == m % d
<1>1. q \in Nat /\ r \in 0 .. d - 1 /\ m = d * q + r
  BY DivMod
<1> HIDE DEF q, r
<1>2. CASE x < q
  <2>1. q - x - 1 \in Nat
    BY <1>1, <1>2
  <2>2. d * q = d * x + d * (q - x - 1) + d /\ d * (q - x - 1) \in Nat /\ d * x \in Nat
    BY <1>1, <2>1
  <2>3. d * x < m
    BY <1>1, <2>2
  <2>4. QED
    BY <1>1, <1>2, <2>3 DEF q, r
<1>3. CASE x = q
  BY <1>1, <1>3 DEF q, r
<1>4. CASE x > q
  <2>1. x - q - 1 \in Nat
    BY <1>1, <1>4
  <2>2. d * x = d * q + d * (x - q - 1) + d /\ d * (x - q - 1) \in Nat /\ d * q \in Nat
    BY <1>1, <2>1
  <2>3. ~(d * x < m)
    BY <1>1, <2>2
  <2>4. QED
    BY <1>1, <1>4, <2>3 DEF q, r
<1>5. QED
  BY <1>1, <1>2, <1>3, <1>4

-----------------------------------------------------------------------------
(* Blocks and their pages.                                                   *)

\* The block of order o that page p is in, by its number.
Of(o, p) == p \div BIT[o]

LEMMA OfNat ==
  ASSUME NEW o \in 0 .. 30, NEW p \in Nat
  PROVE  /\ BIT[o] \in Nat \ {0} /\ Of(o, p) \in Nat
         /\ BIT[o] * Of(o, p) <= p /\ p < BIT[o] * Of(o, p) + BIT[o]
<1> DEFINE d == BIT[o]
<1>1. d \in Nat \ {0}
  BY Powers
<1> HIDE DEF d
<1>2. p \div d \in Nat /\ d * (p \div d) <= p /\ p < d * (p \div d) + d
  BY <1>1, DivMod
<1>3. QED
  BY <1>1, <1>2 DEF Of, d

LEMMA OfUp ==
  ASSUME NEW o \in 0 .. 29, NEW p \in Nat
  PROVE  Of(o + 1, p) = Of(o, p) \div 2
<1>1. BIT[o] \in Nat \ {0} /\ BIT[o + 1] = 2 * BIT[o]
  BY Powers
<1>2. QED
  BY <1>1, Halved DEF Of

LEMMA OfFirst ==
  ASSUME NEW o \in 0 .. 30, NEW x \in Nat
  PROVE  x * BIT[o] \in Nat /\ Of(o, x * BIT[o]) = x
<1>1. BIT[o] \in Nat \ {0}
  BY Powers
<1> DEFINE d == BIT[o]
<1> HIDE DEF d
<1>2. d \in Nat \ {0}
  BY <1>1 DEF d
<1>3. x * d \in Nat /\ d * x = x * d
  BY <1>2
<1>4. (x * d) \div d = x
  BY <1>2, <1>3, DivUnique
<1>5. QED
  BY <1>3, <1>4 DEF Of, d

\* The pages of a block are those that are in it.
LEMMA PagesIn ==
  ASSUME NEW o \in 0 .. 30, NEW g \in Nat, g = Of(o, g) * BIT[o]
  PROVE  \A p : p \in g .. g + BIT[o] - 1 <=> p \in Nat /\ Of(o, p) = Of(o, g)
<1> DEFINE d == BIT[o]
           x == Of(o, g)
<1>1. d \in Nat \ {0} /\ x \in Nat /\ g = d * x
  <2>1. d \in Nat \ {0} /\ x \in Nat /\ g = x * d
    BY OfNat
  <2>2. QED
    BY <2>1
<1> HIDE DEF d, x
<1>2. ASSUME NEW p \in g .. g + d - 1 PROVE p \in Nat /\ Of(o, p) = x
  <2>1. p \in Nat /\ d * x <= p /\ p < d * x + d
    BY <1>1
  <2>2. QED
    BY <1>1, <2>1, DivUnique DEF Of, d
<1>3. ASSUME NEW p \in Nat, Of(o, p) = x PROVE p \in g .. g + d - 1
  <2>1. d * x <= p /\ p < d * x + d
    BY <1>3, OfNat DEF d
  <2>2. QED
    BY <1>1, <2>1
<1>4. QED
  BY <1>2, <1>3 DEF d, x

\* The ancestors of a block are the blocks its pages are in.
LEMMA AncestorOf ==
  ASSUME NEW t \in 0 .. 30, NEW p \in Nat
  PROVE  \A o \in t .. 30 : Ancestor(t, Of(t, p), o) = Of(o, p)
<1> DEFINE P == {o \in t .. 30 : Ancestor(t, Of(t, p), o) = Of(o, p)}
<1>1. t \in P
  <2>1. Of(t, p) \in Nat
    BY OfNat
  <2>2. t - t = 0 /\ BIT[0] = 1
    BY Powers
  <2>3. Of(t, p) \div 1 = Of(t, p)
    BY <2>1
  <2>4. Ancestor(t, Of(t, p), t) = Of(t, p)
    BY <2>2, <2>3 DEF Ancestor
  <2>5. QED
    BY <2>4
<1>2. ASSUME NEW o \in t .. 30 - 1, o \in P PROVE o + 1 \in P
  <2>1. o \in 0 .. 29 /\ o + 1 \in t .. 30 /\ o - t \in 0 .. 29 /\ (o + 1) - t = (o - t) + 1
    OBVIOUS
  <2>2. Of(t, p) \in Nat
    BY OfNat
  <2>3. BIT[o - t] \in Nat \ {0} /\ BIT[(o + 1) - t] = 2 * BIT[o - t]
    BY <2>1, Powers
  <2>4. Of(t, p) \div BIT[(o + 1) - t] = (Of(t, p) \div BIT[o - t]) \div 2
    BY <2>2, <2>3, Halved
  <2>5. Ancestor(t, Of(t, p), o + 1) = Ancestor(t, Of(t, p), o) \div 2
    BY <2>4 DEF Ancestor
  <2>6. Ancestor(t, Of(t, p), o) = Of(o, p)
    BY <1>2
  <2>7. Of(o + 1, p) = Of(o, p) \div 2
    BY <2>1, OfUp
  <2>8. QED
    BY <2>1, <2>5, <2>6, <2>7
<1>3. \A o \in t .. 30 : o \in P
  <2> HIDE DEF P
  <2>1. t \in Nat /\ 30 \in Nat
    OBVIOUS
  <2> QED
    BY <1>1, <1>2, <2>1, Climb
<1>4. QED
  BY <1>3

\* Two pages in one block are in one block of every higher order.
LEMMA Together ==
  ASSUME NEW t \in 0 .. 30, NEW o \in t .. 30, NEW p \in Nat, NEW q \in Nat,
         Of(t, p) = Of(t, q)
  PROVE  Of(o, p) = Of(o, q)
<1>1. Ancestor(t, Of(t, p), o) = Of(o, p) /\ Ancestor(t, Of(t, q), o) = Of(o, q)
  BY AncestorOf
<1>2. QED
  BY <1>1

-----------------------------------------------------------------------------
(* The bitmaps of a heap of m pages.                                         *)

LEMMA OrdersOf ==
  ASSUME NEW m \in Nat \ {0}
  PROVE  top(m) \in 0 .. 30 /\ Orders(m) = 0 .. top(m)
<1>1. 0 \in Orders(m) /\ Orders(m) \subseteq 0 .. 30
  BY Powers DEF Orders
<1>2. \E o \in Orders(m) : \A p \in Orders(m) : p <= o
  <2> DEFINE S == {30 - o : o \in Orders(m)}
  <2>1. S \in SUBSET Nat /\ S # {}
    BY <1>1
  <2>2. PICK x \in S : \A y \in S : x <= y
    <3> HIDE DEF S
    <3> QED
      BY <2>1, LeastNatural
  <2>3. PICK o \in Orders(m) : x = 30 - o
    BY <2>2
  <2>4. ASSUME NEW p \in Orders(m) PROVE p <= o
    <3>1. 30 - p \in S
      OBVIOUS
    <3>2. x <= 30 - p
      <4> HIDE DEF S
      <4> QED
        BY <2>2, <3>1
    <3>3. QED
      BY <1>1, <2>3, <3>2
  <2>5. QED
    BY <2>4
<1>3. top(m) \in Orders(m) /\ \A p \in Orders(m) : p <= top(m)
  BY <1>2 DEF top
<1>4. top(m) \in 0 .. 30
  BY <1>1, <1>3
<1>5. ASSUME NEW o \in 0 .. top(m), o \notin Orders(m) PROVE FALSE
  <2> DEFINE P == {k \in 0 .. 30 : ~(BIT[k] <= m)}
  <2>1. o \in P
    BY <1>4, <1>5 DEF Orders
  <2>2. ASSUME NEW k \in o .. top(m) - 1, k \in P PROVE k + 1 \in P
    <3>1. k \in 0 .. 29 /\ k + 1 \in 0 .. 30
      BY <1>4
    <3>2. BIT[k] \in Nat /\ BIT[k + 1] = 2 * BIT[k] /\ ~(BIT[k] <= m)
      BY <2>2, <3>1, Powers
    <3>3. ~(BIT[k + 1] <= m)
      BY <3>2
    <3>4. QED
      BY <3>1, <3>3
  <2>3. o \in Nat /\ top(m) \in Nat /\ top(m) \in o .. top(m)
    BY <1>4
  <2>4. top(m) \in P
    <3> HIDE DEF P
    <3> QED
      BY <2>1, <2>2, <2>3, Climb
  <2>5. BIT[top(m)] <= m
    BY <1>3 DEF Orders
  <2>6. QED
    BY <2>4, <2>5
<1>6. Orders(m) \subseteq 0 .. top(m)
  BY <1>1, <1>3, <1>4
<1>7. QED
  BY <1>4, <1>5, <1>6

LEMMA OrderFacts ==
  ASSUME NEW m \in Nat \ {0}, NEW o \in Orders(m)
  PROVE  /\ o \in 0 .. 30 /\ o \in 0 .. top(m) /\ top(m) \in 0 .. 30
         /\ BIT[o] \in Nat \ {0} /\ BIT[o] <= m
         /\ \A p \in o .. top(m) : p \in Orders(m)
         /\ \A p \in 0 .. o : p \in Orders(m)
<1>0. top(m) \in 0 .. 30
  BY OrdersOf
<1>1. Orders(m) = 0 .. top(m)
  BY OrdersOf
<1>2. BIT[o] <= m
  BY DEF Orders
<1>3. o \in 0 .. top(m)
  BY <1>1, Zenon
<1>4. o \in 0 .. 30
  BY <1>0, <1>3
<1>5. BIT[o] \in Nat \ {0}
  BY <1>4, Powers
<1>6. \A p \in o .. top(m) : p \in 0 .. top(m)
  BY <1>0, <1>3
<1>7. \A p \in 0 .. o : p \in 0 .. top(m)
  <2>1. o <= top(m) /\ o \in Int /\ top(m) \in Int
    BY <1>0, <1>3
  <2>2. QED
    BY <2>1
<1>8. QED
  BY <1>0, <1>1, <1>2, <1>3, <1>4, <1>5, <1>6, <1>7, Zenon

\* What the layout of the bitmaps takes for granted: an order's words hold all of its bits, the
\* one of a last, incomplete block too (_determine_buddy_order_size, buddy_order_bits).
Room(m) == \A o \in Orders(m) : buddy_order_bits(m, o) <= _determine_buddy_order_size(m, o)

\* The place of a bit among the bits of its order.
At(o, p) == <<o, Of(o, p)>>

LEMMA BitsOf ==
  ASSUME NEW m \in Nat \ {0}, NEW o \in Orders(m)
  PROVE  /\ buddy_order_bits(m, o) \in Nat
         /\ \A x \in Nat : x < buddy_order_bits(m, o) <=> BIT[o] * x < m
         /\ \A p \in 0 .. m - 1 : Of(o, p) \in 0 .. buddy_order_bits(m, o) - 1
<1> DEFINE d == BIT[o]
<1>1. d \in Nat \ {0} /\ o \in 0 .. 30
  BY OrderFacts
<1>2. buddy_order_bits(m, o) = m \div d + (IF m % d = 0 THEN 0 ELSE 1)
  BY DEF buddy_order_bits
<1> HIDE DEF d
<1>3. m \div d \in Nat
  BY <1>1, DivMod
<1>4. buddy_order_bits(m, o) \in Nat
  BY <1>2, <1>3
<1>5. ASSUME NEW x \in Nat PROVE x < buddy_order_bits(m, o) <=> d * x < m
  BY <1>1, <1>2, BelowCeiling
<1>6. ASSUME NEW p \in 0 .. m - 1 PROVE Of(o, p) \in 0 .. buddy_order_bits(m, o) - 1
  <2>1. Of(o, p) \in Nat /\ d * Of(o, p) <= p
    <3>1. p \in Nat
      OBVIOUS
    <3>2. QED
      BY <1>1, <3>1, OfNat DEF d
  <2>2. d * Of(o, p) < m
    BY <1>1, <2>1
  <2>3. Of(o, p) < buddy_order_bits(m, o)
    BY <1>5, <2>1, <2>2
  <2>4. QED
    BY <1>4, <2>1, <2>3
<1>7. QED
  BY <1>4, <1>5, <1>6 DEF d

LEMMA SizeEven ==
  ASSUME NEW m \in Nat \ {0}, NEW o \in Orders(m)
  PROVE  \E j \in Nat : _determine_buddy_order_size(m, o) = 2 * j
<1> DEFINE d == BIT[o]
           k == (m \div d + WORD_T_BITS - 1) \div WORD_T_BITS
<1>1. d \in Nat \ {0} /\ WORD_T_BITS \in Nat \ {0} /\ WORD_T_BITS % 2 = 0
  BY OrderFacts, BuddyAssumption
<1>2. _determine_buddy_order_size(m, o) = k * WORD_T_BITS
  BY DEF _determine_buddy_order_size
<1> HIDE DEF d
<1>3. m \div d \in Nat
  BY <1>1, DivMod
<1>4. k \in Nat
  <2>1. m \div d + WORD_T_BITS - 1 \in Nat
    BY <1>1, <1>3
  <2>2. QED
    BY <1>1, <2>1, DivMod
<1> HIDE DEF k
<1>5. PICK w \in Nat : WORD_T_BITS = 2 * w
  BY <1>1
<1>6. k * (2 * w) = 2 * (k * w) /\ k * w \in Nat
  BY <1>4
<1>7. QED
  BY <1>2, <1>5, <1>6

\* The other half of a block's parent.
Buddy(x) == IF x % 2 = 0 THEN x + 1 ELSE x - 1

LEMMA BuddyFacts ==
  ASSUME NEW x \in Nat
  PROVE  /\ Buddy(x) \in Nat /\ Buddy(x) # x /\ Buddy(x) \div 2 = x \div 2
         /\ \A y \in Nat : y \div 2 = x \div 2 => y = x \/ y = Buddy(x)
         /\ {2 * (x \div 2), 2 * (x \div 2) + 1} = {x, Buddy(x)}
<1>1. CASE x % 2 = 0
  BY <1>1 DEF Buddy
<1>2. CASE x % 2 # 0
  BY <1>2 DEF Buddy
<1>3. QED
  BY <1>1, <1>2

\* With room, a bit is where its order and number say, and so is its twin.
LEMMA Placed ==
  ASSUME NEW m \in Nat \ {0}, Room(m), NEW o \in Orders(m), NEW x \in Nat,
         x < buddy_order_bits(m, o)
  PROVE  /\ Place(m, o, x) = <<o, x>> /\ x < _determine_buddy_order_size(m, o)
         /\ Twins(m, o, x) = {<<o, x>>, <<o, Buddy(x)>>}
         /\ Buddy(x) < _determine_buddy_order_size(m, o)
<1>1. PICK j \in Nat : _determine_buddy_order_size(m, o) = 2 * j
  BY SizeEven
<1>2. buddy_order_bits(m, o) \in Nat /\ buddy_order_bits(m, o) <= 2 * j
  BY <1>1, BitsOf DEF Room
<1>3. x < 2 * j
  BY <1>2
<1>4. Place(m, o, x) = <<o, x>>
  BY <1>1, <1>3 DEF Place
<1>5. x \div 2 \in Nat /\ x \div 2 < j
  BY <1>3
<1>6. 2 * (x \div 2) < 2 * j /\ 2 * (x \div 2) + 1 < 2 * j
  BY <1>5
<1>7. /\ Place(m, o, 2 * (x \div 2)) = <<o, 2 * (x \div 2)>>
      /\ Place(m, o, 2 * (x \div 2) + 1) = <<o, 2 * (x \div 2) + 1>>
  BY <1>1, <1>6 DEF Place
<1>8. {2 * (x \div 2), 2 * (x \div 2) + 1} = {x, Buddy(x)}
  BY BuddyFacts
<1>9. Twins(m, o, x) = {<<o, y>> : y \in {2 * (x \div 2), 2 * (x \div 2) + 1}}
  BY <1>7 DEF Twins
<1>10. Twins(m, o, x) = {<<o, x>>, <<o, Buddy(x)>>}
  BY <1>8, <1>9
<1>11. Buddy(x) < 2 * j
  BY <1>6, <1>8
<1>12. QED
  BY <1>1, <1>3, <1>4, <1>10, <1>11

\* The ancestors of the block of order t that page g is in.
LEMMA AncestorFacts ==
  ASSUME NEW m \in Nat \ {0}, Room(m), NEW t \in Orders(m), NEW g \in 0 .. m - 1
  PROVE  \A o \in t .. top(m) :
           /\ o \in Orders(m) /\ Ancestor(t, Of(t, g), o) = Of(o, g)
           /\ Place(m, o, Of(o, g)) = At(o, g)
           /\ Twins(m, o, Of(o, g)) = {At(o, g), <<o, Buddy(Of(o, g))>>}
<1> SUFFICES ASSUME NEW o \in t .. top(m)
             PROVE  /\ o \in Orders(m) /\ Ancestor(t, Of(t, g), o) = Of(o, g)
                    /\ Place(m, o, Of(o, g)) = At(o, g)
                    /\ Twins(m, o, Of(o, g)) = {At(o, g), <<o, Buddy(Of(o, g))>>}
  OBVIOUS
<1>1. o \in Orders(m) /\ t \in 0 .. 30 /\ o \in t .. 30 /\ g \in Nat
  <2>1. o \in Orders(m) /\ t \in 0 .. 30 /\ top(m) \in 0 .. 30
    BY OrderFacts
  <2>2. QED
    BY <2>1
<1>2. Ancestor(t, Of(t, g), o) = Of(o, g)
  BY <1>1, AncestorOf
<1>3. Of(o, g) \in 0 .. buddy_order_bits(m, o) - 1 /\ buddy_order_bits(m, o) \in Nat
  BY <1>1, BitsOf
<1>4. Of(o, g) \in Nat /\ Of(o, g) < buddy_order_bits(m, o)
  BY <1>3
<1>5. Place(m, o, Of(o, g)) = At(o, g) /\ Twins(m, o, Of(o, g)) = {At(o, g), <<o, Buddy(Of(o, g))>>}
  BY <1>1, <1>4, Placed DEF At
<1>6. QED
  BY <1>1, <1>2, <1>5

\* The blocks of order t and more that page g is in, as places.
Above(m, t, g) == {At(o, g) : o \in t .. top(m)}

LEMMA AncestorPlaces ==
  ASSUME NEW m \in Nat \ {0}, Room(m), NEW t \in Orders(m), NEW g \in 0 .. m - 1
  PROVE  Ancestors(m, t, Of(t, g)) = Above(m, t, g)
<1>1. {p \in Orders(m) : p >= t} = t .. top(m)
  <2>1. Orders(m) = 0 .. top(m) /\ t \in 0 .. top(m) /\ top(m) \in 0 .. 30
    BY OrdersOf, OrderFacts
  <2>2. QED
    BY <2>1
<1>2. \A o \in t .. top(m) : Place(m, o, Ancestor(t, Of(t, g), o)) = At(o, g)
  BY AncestorFacts
<1>3. QED
  BY <1>1, <1>2 DEF Ancestors, Above

LEMMA SetDirty ==
  ASSUME NEW m \in Nat \ {0}, Room(m), NEW t \in Orders(m), NEW g \in 0 .. m - 1, NEW bits
  PROVE  /\ buddy_set_dirty(m, bits, t, Of(t, g)) = bits \cup Above(m, t, g)
         /\ buddy_clear_saturated(m, bits, t, Of(t, g)) = bits \ Above(m, t, g)
BY AncestorPlaces DEF buddy_set_dirty, buddy_clear_saturated

\* How far the two loops that stop go: to the order above one whose buddy has a clean bit, or
\* a bit that is set.
Cleared(m, bits, t, g) ==
  {o \in t .. top(m) : \A p \in t .. o - 1 : <<p, Buddy(Of(p, g))>> \notin bits}
Filled(m, bits, t, g) ==
  {o \in t .. top(m) : \A p \in t .. o - 1 : <<p, Buddy(Of(p, g))>> \in bits}

LEMMA BuddyApart ==
  ASSUME NEW m \in Nat \ {0}, NEW t \in Orders(m), NEW g \in 0 .. m - 1, NEW p \in t .. top(m)
  PROVE  \A q \in t .. p : <<p, Buddy(Of(p, g))>> # At(q, g)
<1>1. p \in 0 .. 30 /\ g \in Nat
  <2>1. t \in 0 .. 30 /\ top(m) \in 0 .. 30
    BY OrderFacts
  <2>2. QED
    BY <2>1
<1>2. Of(p, g) \in Nat
  BY <1>1, OfNat
<1>3. Buddy(Of(p, g)) # Of(p, g)
  BY <1>2, BuddyFacts
<1>4. QED
  BY <1>3 DEF At

LEMMA ClearDirty ==
  ASSUME NEW m \in Nat \ {0}, Room(m), NEW t \in Orders(m), NEW g \in 0 .. m - 1, NEW bits
  PROVE  buddy_clear_dirty(m, bits, t, Of(t, g))
           = bits \ {At(o, g) : o \in Cleared(m, bits, t, g)}
<1> DEFINE place(o)  == Place(m, o, Ancestor(t, Of(t, g), o))
           left(o)   == bits \ {place(p) : p \in t .. o}
           goesTo(o) == \A p \in t .. o - 1 :
                          Twins(m, p, Ancestor(t, Of(t, g), p)) \cap left(p) = {}
<1>1. buddy_clear_dirty(m, bits, t, Of(t, g))
        = bits \ {place(o) : o \in {p \in t .. top(m) : goesTo(p)}}
  BY DEF buddy_clear_dirty
<1>2. \A o \in t .. top(m) : place(o) = At(o, g)
  BY AncestorFacts
<1>3. t \in Int /\ top(m) \in Int
  BY OrderFacts
<1>4. ASSUME NEW p \in t .. top(m)
      PROVE  Twins(m, p, Ancestor(t, Of(t, g), p)) \cap left(p) = {}
               <=> <<p, Buddy(Of(p, g))>> \notin bits
  <2>1. Twins(m, p, Ancestor(t, Of(t, g), p)) = {At(p, g), <<p, Buddy(Of(p, g))>>}
    BY AncestorFacts
  <2>2. \A q \in t .. p : q \in t .. top(m)
    BY <1>3
  <2>3. left(p) = bits \ {At(q, g) : q \in t .. p}
    BY <1>2, <2>2
  <2>4. At(p, g) \notin left(p)
    <3>1. p \in t .. p
      BY <1>3
    <3>2. QED
      BY <2>3, <3>1
  <2>5. <<p, Buddy(Of(p, g))>> \notin {At(q, g) : q \in t .. p}
    BY BuddyApart
  <2> HIDE DEF left
  <2>6. QED
    BY <2>1, <2>3, <2>4, <2>5
<1>5. ASSUME NEW o \in t .. top(m)
      PROVE  goesTo(o) <=> o \in Cleared(m, bits, t, g)
  <2>1. \A p \in t .. o - 1 : p \in t .. top(m)
    BY <1>3
  <2> HIDE DEF left
  <2>2. QED
    BY <1>4, <2>1 DEF Cleared
<1> HIDE DEF goesTo, place
<1>6. {p \in t .. top(m) : goesTo(p)} = Cleared(m, bits, t, g)
  BY <1>5 DEF Cleared
<1>7. \A o \in Cleared(m, bits, t, g) : place(o) = At(o, g)
  BY <1>2 DEF Cleared
<1>8. QED
  BY <1>1, <1>6, <1>7

LEMMA SetSaturated ==
  ASSUME NEW m \in Nat \ {0}, Room(m), NEW t \in Orders(m), NEW g \in 0 .. m - 1, NEW bits
  PROVE  buddy_set_saturated(m, bits, t, Of(t, g))
           = bits \cup {At(o, g) : o \in Filled(m, bits, t, g)}
<1> DEFINE place(o)  == Place(m, o, Ancestor(t, Of(t, g), o))
           full(o)   == bits \cup {place(p) : p \in t .. o}
           goesTo(o) == \A p \in t .. o - 1 : Twins(m, p, Ancestor(t, Of(t, g), p)) \subseteq full(p)
<1>1. buddy_set_saturated(m, bits, t, Of(t, g))
        = bits \cup {place(o) : o \in {p \in t .. top(m) : goesTo(p)}}
  BY DEF buddy_set_saturated
<1>2. \A o \in t .. top(m) : place(o) = At(o, g)
  BY AncestorFacts
<1>3. t \in Int /\ top(m) \in Int
  BY OrderFacts
<1>4. ASSUME NEW p \in t .. top(m)
      PROVE  Twins(m, p, Ancestor(t, Of(t, g), p)) \subseteq full(p)
               <=> <<p, Buddy(Of(p, g))>> \in bits
  <2>1. Twins(m, p, Ancestor(t, Of(t, g), p)) = {At(p, g), <<p, Buddy(Of(p, g))>>}
    BY AncestorFacts
  <2>2. \A q \in t .. p : q \in t .. top(m)
    BY <1>3
  <2>3. full(p) = bits \cup {At(q, g) : q \in t .. p}
    BY <1>2, <2>2
  <2>4. At(p, g) \in full(p)
    <3>1. p \in t .. p
      BY <1>3
    <3>2. QED
      BY <2>3, <3>1
  <2>5. <<p, Buddy(Of(p, g))>> \notin {At(q, g) : q \in t .. p}
    BY BuddyApart
  <2> HIDE DEF full
  <2>6. QED
    BY <2>1, <2>3, <2>4, <2>5
<1>5. ASSUME NEW o \in t .. top(m)
      PROVE  goesTo(o) <=> o \in Filled(m, bits, t, g)
  <2>1. \A p \in t .. o - 1 : p \in t .. top(m)
    BY <1>3
  <2> HIDE DEF full
  <2>2. QED
    BY <1>4, <2>1 DEF Filled
<1> HIDE DEF goesTo, place
<1>6. {p \in t .. top(m) : goesTo(p)} = Filled(m, bits, t, g)
  BY <1>5 DEF Filled
<1>7. \A o \in Filled(m, bits, t, g) : place(o) = At(o, g)
  BY <1>2 DEF Filled
<1>8. QED
  BY <1>1, <1>6, <1>7

-----------------------------------------------------------------------------
(* The invariant.                                                            *)

Pages == 0 .. n - 1

\* Page p lies in block b.
In(p, b) == Of(b.order, p) = Of(b.order, b.page)

\* A block begins in the heap, where its order can have one.
BlocksPlaced ==
  \A b \in blocks :
    b \in [page : Pages, order : Orders(n)] /\ b.page = Of(b.order, b.page) * BIT[b.order]

\* Only bits of blocks that begin in the heap are set.
BitsPlaced == dirty \cup saturated \subseteq {At(o, p) : o \in Orders(n), p \in Pages}

\* A block that is out has both of its bits set, and no dirty one below them.
Owned == \A b \in blocks : At(b.order, b.page) \in dirty \cap saturated
Undivided ==
  \A b \in blocks : \A p \in Pages :
    b.order > 0 /\ In(p, b) => At(b.order - 1, p) \notin dirty

\* What is dirty is dirty all the way up.
DirtyUp ==
  \A o \in Orders(n), p \in Pages :
    o < top(n) /\ At(o, p) \in dirty => At(o + 1, p) \in dirty

Taken == UNION {PagesOf(b) : b \in blocks}

\* The counter counts the pages that are out.
Counted == IsFiniteSet(Taken) /\ total_pages_allocated = Cardinality(Taken)

PageInv ==
  /\ order_0_bits \in Sizes
  /\ BlocksPlaced /\ BitsPlaced /\ Owned /\ Undivided /\ DirtyUp /\ Counted

LEMMA HeapFacts ==
  ASSUME order_0_bits \in Sizes
  PROVE  n \in Nat \ {0} /\ Pages \subseteq Nat /\ 0 \in Pages
BY PageAssumption DEF n, Pages

\* get_free_pages and free_pages, in the terms of the invariant.
Takes(t, g) ==
  /\ t \in Orders(n) /\ g \in Pages /\ g = Of(t, g) * BIT[t]
  /\ \A o \in t .. top(n) : At(o, g) \notin saturated
  /\ At(t, g) \notin dirty
  /\ saturated' = saturated \cup {At(o, g) : o \in Filled(n, saturated, t, g)}
  /\ dirty' = dirty \cup Above(n, t, g)
  /\ total_pages_allocated' = total_pages_allocated + BIT[t]
  /\ blocks' = blocks \cup {[page |-> g, order |-> t]}
  /\ UNCHANGED order_0_bits

Gives(b) ==
  /\ b \in blocks
  /\ saturated' = saturated \ Above(n, b.order, b.page)
  /\ dirty' = dirty \ {At(o, b.page) : o \in Cleared(n, dirty, b.order, b.page)}
  /\ total_pages_allocated' = total_pages_allocated - BIT[b.order]
  /\ blocks' = blocks \ {b}
  /\ UNCHANGED order_0_bits

LEMMA PagesOrder ==
  ASSUME NEW pages \in Requests
  PROVE  _pages_order(pages) \in 0 .. 30
<1> DEFINE S == {o \in 0 .. 30 : BIT[o] >= pages}
<1>1. pages \in 0 .. BIT[30]
  BY PageAssumption
<1>2. \A o \in 0 .. 30 : BIT[o] \in Nat
  BY Powers
<1>3. 30 \in S /\ S \subseteq Nat
  BY <1>1, <1>2
<1>4. PICK o \in S : \A p \in S : o <= p
  <2> HIDE DEF S
  <2> QED
    BY <1>3, LeastNatural
<1>5. \A p \in 0 .. o - 1 : BIT[p] < pages
  <2> SUFFICES ASSUME NEW p \in 0 .. o - 1 PROVE BIT[p] < pages
    OBVIOUS
  <2>1. p \in 0 .. 30 /\ ~(o <= p)
    BY <1>4
  <2>2. p \notin S
    <3> HIDE DEF S
    <3> QED
      BY <1>4, <2>1
  <2>3. QED
    BY <1>1, <1>2, <2>1, <2>2
<1>6. o \in 0 .. 30 /\ BIT[o] >= pages
  BY <1>4
<1>7. \E q \in 0 .. 30 : BIT[q] >= pages /\ \A p \in 0 .. q - 1 : BIT[p] < pages
  BY <1>5, <1>6
<1>8. QED
  BY <1>7 DEF _pages_order

LEMMA Got ==
  ASSUME PageInv, Room(n), NEW pages \in Requests, get_free_pages(pages)
  PROVE  \E t \in 0 .. 30, g \in Nat : Takes(t, g)
<1> DEFINE t == _pages_order(pages)
           bit == buddy_search_unsaturated(n, dirty, saturated, t)
           found == {b \in 0 .. buddy_order_bits(n, t) - 1 : Found(n, dirty, saturated, t, b)}
           g == bit * BIT[t]
<1>1. n \in Nat \ {0} /\ Pages \subseteq Nat
  BY HeapFacts DEF PageInv
<1>2. /\ bit # NONE
      /\ saturated' = buddy_set_saturated(n, saturated, t, bit)
      /\ dirty' = buddy_set_dirty(n, dirty, t, bit)
      /\ total_pages_allocated' = total_pages_allocated + BIT[t]
      /\ blocks' = blocks \cup {[page |-> g, order |-> t]}
      /\ UNCHANGED order_0_bits
  BY DEF get_free_pages
<1>3. t \in 0 .. 30
  BY PagesOrder
<1>4. bit = IF t > top(n) \/ found = {} THEN NONE ELSE CHOOSE b \in found : TRUE
  BY DEF buddy_search_unsaturated
<1>5. ~(t > top(n)) /\ bit \in found
  <2> HIDE DEF found, bit
  <2> QED
    BY <1>2, <1>4
<1> HIDE DEF t
<1>6. t \in Orders(n) /\ top(n) \in 0 .. 30
  <2> DEFINE h == top(n)
  <2>1. h \in 0 .. 30
    BY <1>1, OrdersOf, Zenon
  <2>2. Orders(n) = 0 .. h
    BY <1>1, OrdersOf, Zenon
  <2>3. ~(t > h)
    BY <1>5, Zenon
  <2> HIDE DEF h, bit, found, g
  <2>4. t \in 0 .. h
    BY <1>3, <2>1, <2>3
  <2>5. t \in Orders(n)
    BY <2>2, <2>4, Zenon
  <2>6. QED
    BY <2>1, <2>5, Zenon DEF h
<1>7. bit \in 0 .. buddy_order_bits(n, t) - 1 /\ Found(n, dirty, saturated, t, bit)
  BY <1>5
<1> HIDE DEF bit, found
<1>8. buddy_order_bits(n, t) \in Nat
  BY <1>1, <1>6, BitsOf
<1>9. bit \in Nat /\ bit < buddy_order_bits(n, t)
  BY <1>7, <1>8
<1>10. BIT[t] * bit < n /\ BIT[t] \in Nat \ {0}
  BY <1>1, <1>3, <1>6, <1>9, BitsOf, Powers
<1>11. g \in Nat /\ Of(t, g) = bit
  BY <1>3, <1>9, OfFirst
<1>12. BIT[t] * bit = g
  BY <1>9, <1>10
<1>13. g \in 0 .. n - 1
  BY <1>1, <1>10, <1>11, <1>12
<1> HIDE DEF g
<1>14. g = Of(t, g) * BIT[t]
  BY <1>11 DEF g
<1>15. \A o \in t .. top(n) : Place(n, o, Ancestor(t, bit, o)) = At(o, g)
  BY <1>1, <1>6, <1>11, <1>13, AncestorFacts
<1>16. \A o \in t .. top(n) : At(o, g) \notin saturated
  BY <1>7, <1>15 DEF Found, Candidate
<1>17. At(t, g) \notin dirty
  <2>1. t \in t .. top(n)
    BY <1>3, <1>5, <1>6
  <2>2. QED
    BY <1>7, <1>15, <2>1 DEF Found, Candidate
<1>18. saturated' = saturated \cup {At(o, g) : o \in Filled(n, saturated, t, g)}
  BY <1>1, <1>2, <1>6, <1>11, <1>13, SetSaturated
<1>19. dirty' = dirty \cup Above(n, t, g)
  BY <1>1, <1>2, <1>6, <1>11, <1>13, SetDirty
<1>20. Takes(t, g)
  BY <1>2, <1>6, <1>13, <1>14, <1>16, <1>17, <1>18, <1>19 DEF Takes, Pages
<1>21. QED
  BY <1>3, <1>11, <1>20

\* The facts about a block that is out.
LEMMA BlockFacts ==
  ASSUME PageInv, NEW b \in blocks
  PROVE  /\ n \in Nat \ {0} /\ Pages \subseteq Nat
         /\ b.order \in Orders(n) /\ b.order \in 0 .. 30 /\ b.page \in Pages /\ b.page \in 0 .. n - 1
         /\ b.page = Of(b.order, b.page) * BIT[b.order]
         /\ b = [page |-> b.page, order |-> b.order]
         /\ b.order \in 0 .. top(n) /\ top(n) \in 0 .. 30
<1>1. n \in Nat \ {0} /\ Pages \subseteq Nat
  BY HeapFacts DEF PageInv
<1>2. b \in [page : Pages, order : Orders(n)] /\ b.page = Of(b.order, b.page) * BIT[b.order]
  BY DEF PageInv, BlocksPlaced
<1>3. b.order \in Orders(n) /\ b.page \in Pages /\ b = [page |-> b.page, order |-> b.order]
  BY <1>2
<1>4. b.order \in 0 .. 30 /\ b.order \in 0 .. top(n) /\ top(n) \in 0 .. 30
  BY <1>1, <1>3, OrderFacts
<1>5. QED
  BY <1>1, <1>2, <1>3, <1>4 DEF Pages

LEMMA DirtyAbove ==
  ASSUME PageInv, NEW o \in Orders(n), NEW p \in Pages, At(o, p) \in dirty
  PROVE  \A q \in o .. top(n) : At(q, p) \in dirty
<1> DEFINE P == {q \in o .. top(n) : At(q, p) \in dirty}
<1>1. n \in Nat \ {0}
  BY HeapFacts DEF PageInv
<1>2. /\ o \in 0 .. 30 /\ top(n) \in 0 .. 30 /\ o \in 0 .. top(n)
      /\ \A q \in o .. top(n) : q \in Orders(n)
  BY <1>1, OrderFacts
<1>3. o \in P
  BY <1>2
<1>4. ASSUME NEW q \in o .. top(n) - 1, q \in P PROVE q + 1 \in P
  <2>1. q \in Orders(n) /\ q < top(n) /\ q + 1 \in o .. top(n)
    BY <1>2, <1>4
  <2>2. At(q + 1, p) \in dirty
    BY <1>4, <2>1 DEF PageInv, DirtyUp
  <2>3. QED
    BY <2>1, <2>2
<1>5. o \in Nat /\ top(n) \in Nat
  BY <1>2
<1>6. \A q \in o .. top(n) : q \in P
  <2> HIDE DEF P
  <2> QED
    BY <1>3, <1>4, <1>5, Climb
<1>7. QED
  BY <1>6

\* The order that is found is the order a block was taken with.
LEMMA OrderFound ==
  ASSUME PageInv, Room(n), NEW b \in blocks
  PROVE  _determine_allocated_page_order(b.page) = b.order
<1> DEFINE k == b.order
           g == b.page
           orders == {o \in Orders(n) \ {0} : Place(n, o - 1, g \div BIT[o - 1]) \notin dirty}
<1>1. /\ n \in Nat \ {0} /\ k \in Orders(n) /\ k \in 0 .. 30 /\ g \in Pages /\ g \in 0 .. n - 1
      /\ k \in 0 .. top(n) /\ top(n) \in 0 .. 30
  BY BlockFacts
<1>2. Orders(n) = 0 .. top(n)
  BY <1>1, OrdersOf
<1>3. \A q \in k .. top(n) : At(q, g) \in dirty
  <2>1. At(k, g) \in dirty
    BY DEF PageInv, Owned
  <2>2. QED
    BY <1>1, <2>1, DirtyAbove
<1>4. k > 0 => At(k - 1, g) \notin dirty
  <2>1. In(g, b)
    BY DEF In
  <2>2. QED
    BY <1>1, <2>1 DEF PageInv, Undivided
<1>5. _determine_allocated_page_order(g) =
        IF orders = {} THEN 0 ELSE CHOOSE o \in orders : \A p \in orders : p <= o
  BY DEF _determine_allocated_page_order
<1> HIDE DEF k, g
<1>6. ASSUME NEW o \in Orders(n) \ {0}
      PROVE  o - 1 \in Orders(n) /\ Place(n, o - 1, g \div BIT[o - 1]) = At(o - 1, g)
  <2>1. o - 1 \in Orders(n)
    <3>1. o \in 0 .. top(n) /\ o # 0
      BY <1>2
    <3>2. o - 1 \in 0 .. top(n)
      BY <1>1, <3>1
    <3>3. QED
      BY <1>2, <3>2, Zenon
  <2>2. Of(o - 1, g) \in 0 .. buddy_order_bits(n, o - 1) - 1 /\ buddy_order_bits(n, o - 1) \in Nat
    BY <1>1, <2>1, BitsOf
  <2>3. Of(o - 1, g) \in Nat /\ Of(o - 1, g) < buddy_order_bits(n, o - 1)
    BY <2>2
  <2>4. Place(n, o - 1, Of(o - 1, g)) = At(o - 1, g)
    BY <1>1, <2>1, <2>3, Placed DEF At
  <2>5. QED
    BY <2>1, <2>4 DEF Of
<1>7. orders = {o \in Orders(n) \ {0} : At(o - 1, g) \notin dirty}
  BY <1>6
<1> HIDE DEF orders
<1>8. \A o \in orders : o \in 1 .. top(n) /\ o <= k
  <2> SUFFICES ASSUME NEW o \in orders PROVE o \in 1 .. top(n) /\ o <= k
    OBVIOUS
  <2>1. o \in 1 .. top(n) /\ At(o - 1, g) \notin dirty
    BY <1>1, <1>2, <1>7
  <2>2. o - 1 \notin k .. top(n)
    BY <1>3, <2>1
  <2>3. QED
    BY <1>1, <2>1, <2>2
<1>9. CASE k = 0
  <2>1. orders = {}
    BY <1>8, <1>9
  <2>2. QED
    BY <1>5, <1>9, <2>1 DEF k, g
<1>10. CASE k # 0
  <2>1. k \in orders
    BY <1>1, <1>4, <1>7, <1>10
  <2>2. \A o \in orders : (\A p \in orders : p <= o) => o = k
    BY <1>1, <1>8, <2>1
  <2>3. \A p \in orders : p <= k
    BY <1>8
  <2>4. QED
    BY <1>5, <2>1, <2>2, <2>3 DEF k, g
<1>11. QED
  BY <1>9, <1>10

LEMMA Freed ==
  ASSUME PageInv, Room(n), NEW b \in blocks, free_pages(b)
  PROVE  Gives(b)
<1> DEFINE t == b.order
           g == b.page
<1>1. n \in Nat \ {0} /\ t \in Orders(n) /\ g \in 0 .. n - 1
  BY BlockFacts
<1>2. _determine_allocated_page_order(g) = t
  BY OrderFound
<1>3. /\ saturated' = buddy_clear_saturated(n, saturated, t, g \div BIT[t])
      /\ dirty' = buddy_clear_dirty(n, dirty, t, g \div BIT[t])
      /\ total_pages_allocated' = total_pages_allocated - BIT[t]
      /\ blocks' = blocks \ {b}
      /\ UNCHANGED order_0_bits
  BY <1>2 DEF free_pages
<1>4. g \div BIT[t] = Of(t, g)
  BY DEF Of
<1> HIDE DEF t, g
<1>5. saturated' = saturated \ Above(n, t, g)
  BY <1>1, <1>3, <1>4, SetDirty
<1>6. dirty' = dirty \ {At(o, g) : o \in Cleared(n, dirty, t, g)}
  BY <1>1, <1>3, <1>4, ClearDirty
<1>7. QED
  BY <1>3, <1>5, <1>6 DEF Gives, t, g

-----------------------------------------------------------------------------
(* Blocks that are out are apart.                                            *)

LEMMA ApartInOrder ==
  ASSUME PageInv, NEW b \in blocks, NEW c \in blocks, b.order <= c.order,
         NEW p \in Nat, In(p, b), In(p, c)
  PROVE  b = c
<1> DEFINE k == b.order
           l == c.order
<1>1. /\ n \in Nat \ {0} /\ Pages \subseteq Nat /\ top(n) \in 0 .. 30
      /\ k \in Orders(n) /\ k \in 0 .. 30 /\ l \in 0 .. 30 /\ l \in 0 .. top(n)
      /\ b.page \in Pages /\ c.page \in Pages
      /\ b = [page |-> b.page, order |-> k] /\ c = [page |-> c.page, order |-> l]
      /\ b.page = Of(k, b.page) * BIT[k] /\ c.page = Of(l, c.page) * BIT[l]
  BY BlockFacts
<1>2. Of(k, p) = Of(k, b.page) /\ Of(l, p) = Of(l, c.page) /\ k <= l
  BY DEF In
<1>3. l > 0 => \A q \in Pages : Of(l, q) = Of(l, c.page) => At(l - 1, q) \notin dirty
  BY DEF PageInv, Undivided, In
<1>4. At(k, b.page) \in dirty
  BY DEF PageInv, Owned
<1> HIDE DEF k, l
<1>5. CASE k = l
  <2>1. Of(k, b.page) = Of(k, c.page)
    BY <1>2, <1>5
  <2>2. b.page = c.page
    BY <1>1, <1>5, <2>1
  <2>3. QED
    BY <1>1, <1>5, <2>2
<1>6. CASE k < l
  <2>1. b.page \in Nat /\ k \in 0 .. 30 /\ l \in k .. 30
    BY <1>1, <1>6
  <2>2. Of(l, b.page) = Of(l, p)
    BY <1>2, <2>1, Together
  <2>3. At(l - 1, b.page) \notin dirty
    BY <1>1, <1>2, <1>3, <1>6, <2>2
  <2>4. l - 1 \in k .. top(n)
    BY <1>1, <1>6
  <2>5. At(l - 1, b.page) \in dirty
    BY <1>1, <1>4, <2>4, DirtyAbove
  <2>6. QED
    BY <2>3, <2>5
<1>7. k \in Int /\ l \in Int
  BY <1>1
<1>8. QED
  BY <1>2, <1>5, <1>6, <1>7

LEMMA Apart ==
  ASSUME PageInv, NEW b \in blocks, NEW c \in blocks, NEW p \in Nat, In(p, b), In(p, c)
  PROVE  b = c
<1>1. b.order \in 0 .. 30 /\ c.order \in 0 .. 30
  BY BlockFacts
<1>2. b.order <= c.order \/ c.order <= b.order
  BY <1>1
<1>3. QED
  BY <1>2, ApartInOrder

LEMMA PagesOfIn ==
  ASSUME PageInv, NEW b \in blocks
  PROVE  \A p : p \in PagesOf(b) <=> p \in Nat /\ In(p, b)
<1>1. /\ b.order \in 0 .. 30 /\ b.page \in Nat /\ b.page = Of(b.order, b.page) * BIT[b.order]
  BY BlockFacts
<1>2. \A p : p \in b.page .. b.page + BIT[b.order] - 1
               <=> p \in Nat /\ Of(b.order, p) = Of(b.order, b.page)
  BY <1>1, PagesIn
<1>3. QED
  BY <1>2 DEF PagesOf, In

LEMMA InvDisjoint == PageInv => Disjoint
<1> SUFFICES ASSUME PageInv, NEW b \in blocks, NEW c \in blocks, b # c
             PROVE  PagesOf(b) \cap PagesOf(c) = {}
  BY DEF Disjoint
<1>1. ASSUME NEW p \in PagesOf(b) \cap PagesOf(c) PROVE FALSE
  BY <1>1, PagesOfIn, Apart
<1>2. QED
  BY <1>1

\* A block that is taken has no page of one that is out: those above it are not saturated,
\* and it is not dirty.
LEMMA TakenFresh ==
  ASSUME PageInv, NEW t \in 0 .. 30, NEW g \in Nat, Takes(t, g),
         NEW b \in blocks, NEW p \in Nat, In(p, b), Of(t, p) = Of(t, g)
  PROVE  FALSE
<1> DEFINE k == b.order
<1>1. /\ n \in Nat \ {0} /\ Pages \subseteq Nat /\ top(n) \in 0 .. 30
      /\ k \in Orders(n) /\ k \in 0 .. 30 /\ k \in 0 .. top(n) /\ b.page \in Pages
  BY BlockFacts
<1>2. Of(k, p) = Of(k, b.page)
  BY DEF In
<1>3. At(k, b.page) \in dirty /\ At(k, b.page) \in saturated
  BY DEF PageInv, Owned
<1>4. /\ \A o \in t .. top(n) : At(o, g) \notin saturated
      /\ At(t, g) \notin dirty /\ t \in Orders(n)
  BY DEF Takes
<1> HIDE DEF k
<1>5. CASE k >= t
  <2>1. k \in t .. 30 /\ k \in t .. top(n)
    BY <1>1, <1>5
  <2>2. Of(k, p) = Of(k, g)
    BY <2>1, Together
  <2>3. At(k, g) = At(k, b.page)
    BY <1>2, <2>2 DEF At
  <2>4. QED
    BY <1>3, <1>4, <2>1, <2>3
<1>6. CASE k < t
  <2>1. t \in k .. 30 /\ t \in k .. top(n) /\ b.page \in Nat
    <3>1. t \in 0 .. top(n)
      BY <1>1, <1>4, OrderFacts
    <3>2. b.page \in Nat
      BY <1>1
    <3>3. t \in k .. 30 /\ t \in k .. top(n)
      BY <1>1, <1>6, <3>1
    <3>4. QED
      BY <3>2, <3>3
  <2>2. Of(t, b.page) = Of(t, p)
    <3>1. k \in 0 .. 30
      BY <1>1
    <3>2. Of(k, b.page) = Of(k, p) /\ b.page \in Nat /\ t \in k .. 30
      BY <1>2, <2>1
    <3>3. QED
      BY <3>1, <3>2, Together
  <2>3. At(t, b.page) \in dirty
    BY <1>1, <1>3, <2>1, DirtyAbove
  <2>4. At(t, b.page) = At(t, g)
    BY <2>2 DEF At
  <2>5. QED
    BY <1>4, <2>3, <2>4
<1>7. QED
  BY <1>1, <1>5, <1>6

-----------------------------------------------------------------------------
(* get_free_pages keeps the invariant.                                       *)

LEMMA TakesFacts ==
  ASSUME PageInv, NEW t \in 0 .. 30, NEW g \in Nat, Takes(t, g)
  PROVE  /\ n' = n /\ Pages' = Pages /\ n \in Nat \ {0} /\ Pages \subseteq Nat
         /\ t \in Orders(n) /\ g \in Pages /\ g \in 0 .. n - 1 /\ g = Of(t, g) * BIT[t]
         /\ top(n) \in 0 .. 30 /\ t \in 0 .. top(n) /\ t \in t .. top(n)
         /\ \A o \in t .. top(n) : o \in Orders(n) /\ o \in 0 .. 30
         /\ t \in Filled(n, saturated, t, g) /\ Filled(n, saturated, t, g) \subseteq t .. top(n)
<1>1. n' = n /\ Pages' = Pages /\ t \in Orders(n) /\ g \in Pages /\ g = Of(t, g) * BIT[t]
  BY DEF Takes, n, Pages
<1>2. n \in Nat \ {0} /\ Pages \subseteq Nat /\ Pages = 0 .. n - 1
  BY HeapFacts DEF PageInv, Pages
<1>3. top(n) \in 0 .. 30 /\ t \in 0 .. top(n) /\ \A o \in t .. top(n) : o \in Orders(n)
  BY <1>1, <1>2, OrderFacts
<1>4. t \in t .. top(n) /\ \A o \in t .. top(n) : o \in 0 .. 30
  BY <1>3
<1>5. t .. t - 1 = {}
  OBVIOUS
<1>6. t \in Filled(n, saturated, t, g) /\ Filled(n, saturated, t, g) \subseteq t .. top(n)
  BY <1>4, <1>5 DEF Filled
<1>7. QED
  BY <1>1, <1>2, <1>3, <1>4, <1>6

LEMMA TakesBits ==
  ASSUME PageInv, NEW t \in 0 .. 30, NEW g \in Nat, Takes(t, g)
  PROVE  BlocksPlaced' /\ BitsPlaced' /\ Owned'
<1> DEFINE new == [page |-> g, order |-> t]
<1>1. /\ n' = n /\ Pages' = Pages /\ t \in Orders(n) /\ g \in Pages /\ g = Of(t, g) * BIT[t]
      /\ t \in t .. top(n) /\ \A o \in t .. top(n) : o \in Orders(n)
      /\ t \in Filled(n, saturated, t, g) /\ Filled(n, saturated, t, g) \subseteq t .. top(n)
  BY TakesFacts
<1>2. /\ saturated' = saturated \cup {At(o, g) : o \in Filled(n, saturated, t, g)}
      /\ dirty' = dirty \cup {At(o, g) : o \in t .. top(n)}
      /\ blocks' = blocks \cup {new}
  BY DEF Takes, Above
<1>3. new.page = g /\ new.order = t /\ new \in [page : Pages, order : Orders(n)]
  BY <1>1
<1> HIDE DEF new
<1>4. BlocksPlaced'
  <2>1. ASSUME NEW b \in blocks'
        PROVE  b \in [page : Pages, order : Orders(n)] /\ b.page = Of(b.order, b.page) * BIT[b.order]
    <3>1. CASE b = new
      BY <1>1, <1>3, <3>1
    <3>2. CASE b \in blocks
      BY <3>2 DEF PageInv, BlocksPlaced
    <3>3. QED
      BY <1>2, <2>1, <3>1, <3>2
  <2>2. QED
    BY <1>1, <2>1 DEF BlocksPlaced
<1>5. BitsPlaced'
  <2>1. dirty \cup saturated \subseteq {At(o, p) : o \in Orders(n), p \in Pages}
    BY DEF PageInv, BitsPlaced
  <2>2. \A o \in t .. top(n) : At(o, g) \in {At(q, p) : q \in Orders(n), p \in Pages}
    BY <1>1
  <2>3. dirty' \cup saturated' \subseteq {At(o, p) : o \in Orders(n), p \in Pages}
    BY <1>1, <1>2, <2>1, <2>2
  <2>4. QED
    BY <1>1, <2>3 DEF BitsPlaced
<1>6. Owned'
  <2>1. ASSUME NEW b \in blocks' PROVE At(b.order, b.page) \in dirty' \cap saturated'
    <3>1. CASE b = new
      BY <1>1, <1>2, <1>3, <3>1
    <3>2. CASE b \in blocks
      BY <1>2, <3>2 DEF PageInv, Owned
    <3>3. QED
      BY <1>2, <2>1, <3>1, <3>2
  <2>2. QED
    BY <2>1 DEF Owned
<1>7. QED
  BY <1>4, <1>5, <1>6

LEMMA TakesUndivided ==
  ASSUME PageInv, NEW t \in 0 .. 30, NEW g \in Nat, Takes(t, g)
  PROVE  Undivided'
<1> DEFINE new == [page |-> g, order |-> t]
<1>1. /\ n' = n /\ Pages' = Pages /\ t \in Orders(n) /\ g \in Pages /\ Pages \subseteq Nat
      /\ n \in Nat \ {0} /\ top(n) \in 0 .. 30 /\ t \in 0 .. top(n)
  BY TakesFacts
<1>2. /\ dirty' = dirty \cup {At(o, g) : o \in t .. top(n)}
      /\ blocks' = blocks \cup {new} /\ At(t, g) \notin dirty
  BY DEF Takes, Above
<1>3. new.page = g /\ new.order = t
  OBVIOUS
<1> HIDE DEF new
<1>4. ASSUME NEW b \in blocks, NEW p \in Pages, b.order > 0, In(p, b)
      PROVE  At(b.order - 1, p) \notin dirty'
  <2> DEFINE o == b.order - 1
  <2>1. b.order \in 0 .. 30 /\ o \in 0 .. 29 /\ o + 1 = b.order /\ p \in Nat
    BY <1>1, <1>4, BlockFacts
  <2>2. At(o, p) \notin dirty
    BY <1>4 DEF PageInv, Undivided
  <2> HIDE DEF o
  <2>3. ASSUME NEW q \in t .. top(n), At(o, p) = At(q, g) PROVE FALSE
    <3>1. q = o /\ Of(o, p) = Of(o, g)
      BY <2>3 DEF At
    <3>2. o \in 0 .. 30 /\ o + 1 \in o .. 30
      BY <2>1
    <3>3. Of(o + 1, p) = Of(o + 1, g)
      BY <2>1, <3>1, <3>2, Together
    <3>4. In(g, b)
      BY <1>4, <2>1, <3>3 DEF In
    <3>5. QED
      BY <3>4, TakenFresh
  <2>4. At(o, p) \notin dirty'
    BY <1>2, <2>2, <2>3
  <2>5. QED
    BY <2>4 DEF o
<1>5. ASSUME NEW p \in Pages, t > 0, Of(t, p) = Of(t, g) PROVE At(t - 1, p) \notin dirty'
  <2>1. t - 1 \in Orders(n) /\ t - 1 < top(n) /\ (t - 1) + 1 = t
    <3>1. t - 1 \in 0 .. t
      BY <1>5
    <3>2. t - 1 \in Orders(n)
      BY <1>1, <3>1, OrderFacts
    <3>3. QED
      BY <1>1, <1>5, <3>2
  <2>2. At(t, p) = At(t, g)
    BY <1>5 DEF At
  <2>3. At(t - 1, p) \notin dirty
    BY <1>2, <2>1, <2>2 DEF PageInv, DirtyUp
  <2>4. \A q \in t .. top(n) : At(t - 1, p) # At(q, g)
    BY <1>1 DEF At
  <2>5. QED
    BY <1>2, <2>3, <2>4
<1>6. ASSUME NEW b \in blocks', NEW p \in Pages, b.order > 0, In(p, b)
      PROVE  At(b.order - 1, p) \notin dirty'
  <2>1. CASE b \in blocks
    BY <1>4, <1>6, <2>1
  <2>2. CASE b = new
    <3>1. t > 0 /\ Of(t, p) = Of(t, g)
      BY <1>3, <1>6, <2>2 DEF In
    <3>2. QED
      BY <1>3, <1>5, <2>2, <3>1
  <2>3. QED
    BY <1>2, <1>6, <2>1, <2>2
<1>7. QED
  BY <1>1, <1>6 DEF Undivided, In

LEMMA TakesDirtyUp ==
  ASSUME PageInv, NEW t \in 0 .. 30, NEW g \in Nat, Takes(t, g)
  PROVE  DirtyUp'
<1>1. /\ n' = n /\ Pages' = Pages /\ Pages \subseteq Nat /\ top(n) \in 0 .. 30
      /\ \A o \in t .. top(n) : o \in 0 .. 30
  BY TakesFacts
<1>2. dirty' = dirty \cup {At(o, g) : o \in t .. top(n)}
  BY DEF Takes, Above
<1>3. ASSUME NEW o \in Orders(n), NEW p \in Pages, o < top(n), At(o, p) \in dirty'
      PROVE  At(o + 1, p) \in dirty'
  <2>1. CASE At(o, p) \in dirty
    BY <1>2, <1>3, <2>1 DEF PageInv, DirtyUp
  <2>2. CASE \E q \in t .. top(n) : At(o, p) = At(q, g)
    <3>1. o \in t .. top(n) /\ Of(o, p) = Of(o, g)
      BY <2>2 DEF At
    <3>2. o \in 0 .. 30 /\ o + 1 \in o .. 30 /\ o + 1 \in t .. top(n) /\ p \in Nat
      BY <1>1, <1>3, <3>1
    <3>3. Of(o + 1, p) = Of(o + 1, g)
      BY <3>1, <3>2, Together
    <3>4. At(o + 1, p) = At(o + 1, g)
      BY <3>3 DEF At
    <3>5. QED
      BY <1>2, <3>2, <3>4
  <2>3. QED
    BY <1>2, <1>3, <2>1, <2>2
<1>4. QED
  BY <1>1, <1>3 DEF DirtyUp

\* The pages of the new block are counted too.
LEMMA Size ==
  ASSUME NEW g \in Nat, NEW d \in Nat \ {0}
  PROVE  IsFiniteSet(g .. g + d - 1) /\ Cardinality(g .. g + d - 1) = d
<1>1. g \in Int /\ g + d - 1 \in Int /\ g <= g + d - 1
  OBVIOUS
<1>2. IsFiniteSet(g .. g + d - 1) /\ Cardinality(g .. g + d - 1) = (g + d - 1) - g + 1
  BY <1>1, FS_Interval
<1>3. QED
  BY <1>2

LEMMA TakesCounted ==
  ASSUME PageInv, NEW t \in 0 .. 30, NEW g \in Nat, Takes(t, g)
  PROVE  Counted'
<1> DEFINE new == [page |-> g, order |-> t]
           N == g .. g + BIT[t] - 1
<1>1. g = Of(t, g) * BIT[t] /\ BIT[t] \in Nat \ {0}
  BY TakesFacts, Powers
<1>2. IsFiniteSet(N) /\ Cardinality(N) = BIT[t]
  BY <1>1, Size
<1>3. IsFiniteSet(Taken) /\ total_pages_allocated = Cardinality(Taken)
  BY DEF PageInv, Counted
<1>4. blocks' = blocks \cup {new} /\ total_pages_allocated' = total_pages_allocated + BIT[t]
  BY DEF Takes
<1>5. PagesOf(new) = N
  BY DEF PagesOf
<1>6. N \cap Taken = {}
  <2>1. ASSUME NEW p \in N, NEW b \in blocks, p \in PagesOf(b) PROVE FALSE
    <3>1. p \in Nat /\ Of(t, p) = Of(t, g)
      BY <1>1, PagesIn
    <3>2. In(p, b)
      BY <2>1, PagesOfIn
    <3>3. QED
      BY <3>1, <3>2, TakenFresh
  <2> HIDE DEF N
  <2>2. QED
    BY <2>1 DEF Taken
<1> HIDE DEF N, new
<1>7. Taken' = Taken \cup N
  <2>1. \A b : PagesOf(b)' = PagesOf(b)
    BY DEF PagesOf
  <2>2. Taken' = UNION {PagesOf(b) : b \in blocks \cup {new}}
    BY <1>4, <2>1 DEF Taken
  <2>3. QED
    BY <1>5, <2>2 DEF Taken
<1>8. IsFiniteSet(Taken \cup N) /\ Cardinality(Taken \cup N) = Cardinality(Taken) + BIT[t]
  <2>1. Taken \cap N = {}
    BY <1>6
  <2>2. Cardinality(Taken) \in Nat
    BY <1>3, FS_CardinalityType
  <2>3. /\ IsFiniteSet(Taken \cup N)
        /\ Cardinality(Taken \cup N) = Cardinality(Taken) + Cardinality(N) - Cardinality(Taken \cap N)
    BY <1>2, <1>3, FS_Union
  <2>4. Cardinality(Taken \cap N) = 0
    <3>1. Cardinality({}) = 0
      BY FS_EmptySet
    <3>2. QED
      BY <2>1, <3>1, Zenon
  <2> DEFINE whole == Cardinality(Taken \cup N)
             old == Cardinality(Taken)
             both == Cardinality(Taken \cap N)
  <2>5. whole = old + Cardinality(N) - both /\ both = 0 /\ old \in Nat /\ Cardinality(N) = BIT[t]
    BY <1>2, <2>2, <2>3, <2>4
  <2> HIDE DEF whole, old, both
  <2>6. whole = old + BIT[t]
    BY <1>1, <2>5
  <2>7. QED
    BY <2>3, <2>6 DEF whole, old
<1>9. QED
  BY <1>3, <1>4, <1>7, <1>8 DEF Counted

LEMMA TakesInv ==
  ASSUME PageInv, NEW t \in 0 .. 30, NEW g \in Nat, Takes(t, g)
  PROVE  PageInv'
<1>1. (order_0_bits \in Sizes)'
  BY DEF Takes, PageInv
<1>2. QED
  BY <1>1, TakesBits, TakesUndivided, TakesDirtyUp, TakesCounted DEF PageInv

-----------------------------------------------------------------------------
(* free_pages keeps it.                                                      *)

LEMMA GivesFacts ==
  ASSUME PageInv, NEW b, Gives(b)
  PROVE  /\ n' = n /\ Pages' = Pages /\ n \in Nat \ {0} /\ Pages \subseteq Nat
         /\ b \in blocks /\ b.order \in Orders(n) /\ b.order \in 0 .. 30
         /\ b.page \in Pages /\ b.page \in Nat /\ b.page \in 0 .. n - 1
         /\ b.page = Of(b.order, b.page) * BIT[b.order]
         /\ top(n) \in 0 .. 30 /\ b.order \in 0 .. top(n) /\ b.order \in b.order .. top(n)
         /\ \A o \in b.order .. top(n) : o \in Orders(n) /\ o \in 0 .. 30
         /\ b.order \in Cleared(n, dirty, b.order, b.page)
         /\ Cleared(n, dirty, b.order, b.page) \subseteq b.order .. top(n)
<1>1. n' = n /\ Pages' = Pages /\ b \in blocks
  BY DEF Gives, n, Pages
<1>2. /\ n \in Nat \ {0} /\ Pages \subseteq Nat
      /\ b.order \in Orders(n) /\ b.order \in 0 .. 30
      /\ b.page \in Pages /\ b.page \in 0 .. n - 1
      /\ b.page = Of(b.order, b.page) * BIT[b.order]
      /\ top(n) \in 0 .. 30 /\ b.order \in 0 .. top(n)
  BY <1>1, BlockFacts
<1>3. \A o \in b.order .. top(n) : o \in Orders(n)
  BY <1>2, OrderFacts
<1>4. b.order \in b.order .. top(n) /\ \A o \in b.order .. top(n) : o \in 0 .. 30
  BY <1>2
<1>5. b.order .. b.order - 1 = {}
  BY <1>2
<1>6. /\ b.order \in Cleared(n, dirty, b.order, b.page)
      /\ Cleared(n, dirty, b.order, b.page) \subseteq b.order .. top(n)
  BY <1>4, <1>5 DEF Cleared
<1>7. QED
  BY <1>1, <1>2, <1>3, <1>4, <1>6

\* A bit that goes belongs to no other block.
LEMMA NotOwned ==
  ASSUME PageInv, NEW b, Gives(b), NEW c \in blocks \ {b}, NEW o \in b.order .. top(n)
  PROVE  At(c.order, c.page) # At(o, b.page)
<1>1. SUFFICES ASSUME At(c.order, c.page) = At(o, b.page) PROVE FALSE
  OBVIOUS
<1>2. o = c.order /\ Of(c.order, b.page) = Of(c.order, c.page)
  BY <1>1 DEF At
<1>3. In(b.page, c) /\ In(b.page, b)
  BY <1>2 DEF In
<1>4. b \in blocks /\ b.page \in Nat
  BY GivesFacts
<1>5. QED
  BY <1>3, <1>4, Apart

LEMMA GivesBits ==
  ASSUME PageInv, NEW b, Gives(b)
  PROVE  BlocksPlaced' /\ BitsPlaced' /\ Owned' /\ Undivided'
<1>1. /\ n' = n /\ Pages' = Pages
      /\ Cleared(n, dirty, b.order, b.page) \subseteq b.order .. top(n)
  BY GivesFacts
<1>2. /\ saturated' = saturated \ {At(o, b.page) : o \in b.order .. top(n)}
      /\ dirty' = dirty \ {At(o, b.page) : o \in Cleared(n, dirty, b.order, b.page)}
      /\ blocks' = blocks \ {b}
  BY DEF Gives, Above
<1>3. BlocksPlaced'
  <2>1. \A c \in blocks' :
          c \in [page : Pages, order : Orders(n)] /\ c.page = Of(c.order, c.page) * BIT[c.order]
    BY <1>2 DEF PageInv, BlocksPlaced
  <2>2. QED
    BY <1>1, <2>1 DEF BlocksPlaced
<1>4. BitsPlaced'
  <2>1. dirty' \cup saturated' \subseteq {At(o, p) : o \in Orders(n), p \in Pages}
    BY <1>2 DEF PageInv, BitsPlaced
  <2>2. QED
    BY <1>1, <2>1 DEF BitsPlaced
<1>5. Owned'
  <2>1. ASSUME NEW c \in blocks' PROVE At(c.order, c.page) \in dirty' \cap saturated'
    <3>1. c \in blocks \ {b} /\ At(c.order, c.page) \in dirty \cap saturated
      BY <1>2 DEF PageInv, Owned
    <3>2. \A o \in b.order .. top(n) : At(c.order, c.page) # At(o, b.page)
      BY <3>1, NotOwned
    <3>3. QED
      BY <1>1, <1>2, <3>1, <3>2
  <2>2. QED
    BY <2>1 DEF Owned
<1>6. Undivided'
  <2>1. \A c \in blocks' : \A p \in Pages :
          c.order > 0 /\ In(p, c) => At(c.order - 1, p) \notin dirty'
    BY <1>2 DEF PageInv, Undivided
  <2>2. QED
    BY <1>1, <2>1 DEF Undivided, In
<1>7. QED
  BY <1>3, <1>4, <1>5, <1>6

\* Two pages in one block, but not in one block of the order below, are in buddies.
LEMMA Halves ==
  ASSUME NEW o \in 0 .. 29, NEW p \in Nat, NEW g \in Nat
  PROVE  Of(o + 1, p) = Of(o + 1, g) <=> Of(o, p) = Of(o, g) \/ Of(o, p) = Buddy(Of(o, g))
<1>1. /\ Of(o + 1, p) = Of(o, p) \div 2 /\ Of(o + 1, g) = Of(o, g) \div 2
      /\ Of(o, p) \in Nat /\ Of(o, g) \in Nat
  <2>1. Of(o + 1, p) = Of(o, p) \div 2 /\ Of(o + 1, g) = Of(o, g) \div 2
    BY OfUp
  <2>2. o \in 0 .. 30
    OBVIOUS
  <2>3. Of(o, p) \in Nat /\ Of(o, g) \in Nat
    BY <2>2, OfNat
  <2>4. QED
    BY <2>1, <2>3
<1>2. QED
  BY <1>1, BuddyFacts

LEMMA GivesDirtyUp ==
  ASSUME PageInv, NEW b, Gives(b)
  PROVE  DirtyUp'
<1> DEFINE t == b.order
           g == b.page
           C == Cleared(n, dirty, t, g)
<1>1. /\ n' = n /\ Pages' = Pages /\ Pages \subseteq Nat /\ b \in blocks
      /\ t \in 0 .. 30 /\ g \in Pages /\ g \in Nat
      /\ top(n) \in 0 .. 30 /\ t \in C /\ C \subseteq t .. top(n)
  BY GivesFacts
<1>2. dirty' = dirty \ {At(o, g) : o \in C}
  BY DEF Gives
<1>3. \A p \in Pages : t > 0 /\ Of(t, p) = Of(t, g) => At(t - 1, p) \notin dirty
  BY <1>1 DEF PageInv, Undivided, In
<1>4. \A o \in C : \A q \in t .. o - 1 : <<q, Buddy(Of(q, g))>> \notin dirty
  BY DEF Cleared
<1>5. ASSUME NEW o \in C, o - 1 >= t PROVE o - 1 \in C
  <2>1. o - 1 \in t .. top(n) /\ \A q \in t .. (o - 1) - 1 : q \in t .. o - 1
    BY <1>1, <1>5
  <2>2. \A q \in t .. (o - 1) - 1 : <<q, Buddy(Of(q, g))>> \notin dirty
    BY <1>4, <2>1
  <2>3. QED
    BY <2>1, <2>2 DEF Cleared
<1> HIDE DEF C, t, g
<1>6. ASSUME NEW o \in Orders(n), NEW p \in Pages, o < top(n), At(o, p) \in dirty'
      PROVE  At(o + 1, p) \in dirty'
  <2>1. At(o, p) \in dirty /\ At(o + 1, p) \in dirty
    BY <1>2, <1>6 DEF PageInv, DirtyUp
  <2>2. o \in 0 .. 29 /\ p \in Nat
    <3>1. n \in Nat \ {0}
      BY GivesFacts
    <3>2. o \in 0 .. 30
      BY <3>1, OrderFacts
    <3>3. QED
      BY <1>1, <1>6, <3>2
  <2>3. ASSUME NEW q \in C, At(o + 1, p) = At(q, g) PROVE FALSE
    <3>1. o + 1 \in C /\ Of(o + 1, p) = Of(o + 1, g)
      BY <2>3 DEF At
    <3>2. CASE o + 1 = t
      <4>1. t > 0 /\ Of(t, p) = Of(t, g) /\ t - 1 = o
        BY <2>2, <3>1, <3>2
      <4>2. QED
        BY <1>3, <2>1, <4>1
    <3>3. CASE o + 1 # t
      <4>1. o \in t .. (o + 1) - 1 /\ (o + 1) - 1 >= t /\ (o + 1) - 1 = o
        BY <1>1, <2>2, <3>1, <3>3
      <4>2. o \in C
        BY <1>5, <3>1, <4>1
      <4>3. Of(o, p) # Of(o, g)
        <5>1. At(o, p) # At(o, g)
          BY <1>2, <1>6, <4>2
        <5>2. QED
          BY <5>1 DEF At
      <4>4. Of(o, p) = Buddy(Of(o, g))
        BY <1>1, <2>2, <3>1, <4>3, Halves
      <4>5. <<o, Buddy(Of(o, g))>> \notin dirty
        BY <1>4, <3>1, <4>1
      <4>6. QED
        BY <2>1, <4>4, <4>5 DEF At
    <3>4. QED
      BY <3>2, <3>3
  <2>4. QED
    BY <1>2, <2>1, <2>3
<1>7. QED
  BY <1>1, <1>6 DEF DirtyUp

LEMMA GivesCounted ==
  ASSUME PageInv, NEW b, Gives(b)
  PROVE  Counted'
<1> DEFINE N == PagesOf(b)
<1>1. /\ b \in blocks /\ b.page \in Nat /\ b.order \in 0 .. 30
  BY GivesFacts
<1>2. BIT[b.order] \in Nat \ {0}
  BY <1>1, Powers
<1>3. IsFiniteSet(N) /\ Cardinality(N) = BIT[b.order]
  BY <1>1, <1>2, Size DEF PagesOf
<1>4. IsFiniteSet(Taken) /\ total_pages_allocated = Cardinality(Taken)
  BY DEF PageInv, Counted
<1>5. /\ blocks' = blocks \ {b}
      /\ total_pages_allocated' = total_pages_allocated - BIT[b.order]
  BY DEF Gives
<1>6. Taken' = Taken \ N
  <2>1. \A c : PagesOf(c)' = PagesOf(c)
    BY DEF PagesOf
  <2>2. Taken' = UNION {PagesOf(c) : c \in blocks \ {b}}
    BY <1>5, <2>1 DEF Taken
  <2>3. \A c \in blocks \ {b} : PagesOf(c) \cap N = {}
    BY <1>1, InvDisjoint DEF Disjoint
  <2> HIDE DEF N
  <2>4. Taken = N \cup UNION {PagesOf(c) : c \in blocks \ {b}}
    BY <1>1 DEF Taken, N
  <2>5. QED
    BY <2>2, <2>3, <2>4
<1>7. N \subseteq Taken
  BY <1>1 DEF Taken
<1> HIDE DEF N
<1>8. IsFiniteSet(Taken \ N) /\ Cardinality(Taken \ N) = Cardinality(Taken) - BIT[b.order]
  <2>1. Taken \cap N = N
    BY <1>7
  <2>2. /\ IsFiniteSet(Taken \ N)
        /\ Cardinality(Taken \ N) = Cardinality(Taken) - Cardinality(Taken \cap N)
    BY <1>4, FS_Difference
  <2>3. QED
    BY <1>3, <2>1, <2>2
<1>9. QED
  BY <1>4, <1>5, <1>6, <1>8 DEF Counted

LEMMA GivesInv ==
  ASSUME PageInv, NEW b, Gives(b)
  PROVE  PageInv'
<1>1. (order_0_bits \in Sizes)'
  BY DEF Gives, PageInv
<1>2. QED
  BY <1>1, GivesBits, GivesDirtyUp, GivesCounted DEF PageInv

-----------------------------------------------------------------------------
(* The start.                                                                *)

\* What is dirty at first is the last block of each order that lacks pages.
LEMMA InitialBits ==
  ASSUME NEW m \in Nat \ {0}, Room(m)
  PROVE  InitialDirty(m) = {At(o, m - 1) : o \in {p \in Orders(m) : m % BIT[p] # 0}}
<1>1. ASSUME NEW o \in Orders(m), m % BIT[o] # 0
      PROVE  Place(m, o, m \div BIT[o]) = At(o, m - 1)
  <2> DEFINE d == BIT[o]
             q == m \div d
  <2>1. o \in 0 .. 30 /\ d \in Nat \ {0}
    BY OrderFacts
  <2> HIDE DEF d
  <2>2. q \in Nat /\ m % d \in 0 .. d - 1 /\ m = d * q + (m % d) /\ m % d # 0
    BY <1>1, <2>1, DivMod DEF d
  <2> HIDE DEF q
  <2>3. d * q < m /\ d * q <= m - 1 /\ m - 1 < d * q + d /\ m - 1 \in Nat
    BY <2>1, <2>2
  <2>4. (m - 1) \div d = q
    BY <2>1, <2>2, <2>3, DivUnique
  <2>5. q < buddy_order_bits(m, o)
    BY <2>2, <2>3, BitsOf DEF d
  <2>6. Place(m, o, q) = <<o, q>>
    BY <2>2, <2>5, Placed
  <2>7. QED
    BY <2>4, <2>6 DEF At, Of, q, d
<1>2. QED
  BY <1>1 DEF InitialDirty

\* A block that lacks pages is half of one that does.
LEMMA LacksUp ==
  ASSUME NEW m \in Nat \ {0}, NEW o \in 0 .. 29, m % BIT[o] # 0
  PROVE  m % BIT[o + 1] # 0
<1> DEFINE d == BIT[o]
           q == m \div (2 * d)
<1>1. d \in Nat \ {0} /\ BIT[o + 1] = 2 * d
  BY Powers
<1>2. m % d # 0
  OBVIOUS
<1> HIDE DEF d
<1>3. q \in Nat /\ m = (2 * d) * q + (m % (2 * d))
  <2>1. 2 * d \in Nat \ {0}
    BY <1>1
  <2>2. QED
    BY <2>1, DivMod
<1> HIDE DEF q
<1>4. SUFFICES ASSUME m % (2 * d) = 0 PROVE FALSE
  BY <1>1
<1>5. 2 * q \in Nat /\ d * (2 * q) = (2 * d) * q
  BY <1>1, <1>3
<1>6. m = d * (2 * q)
  BY <1>1, <1>3, <1>4, <1>5
<1>7. m \div d = 2 * q
  BY <1>1, <1>5, <1>6, DivUnique
<1>8. m = d * (m \div d) + (m % d) /\ m % d \in Nat
  BY <1>1, DivMod
<1>9. QED
  BY <1>2, <1>5, <1>6, <1>7, <1>8

LEMMA PageInit ==
  ASSUME Init, Room(n)
  PROVE  PageInv
<1>1. /\ order_0_bits \in Sizes /\ dirty = InitialDirty(n) /\ saturated = {}
      /\ total_pages_allocated = 0 /\ blocks = {}
  BY DEF Init, n
<1>2. n \in Nat \ {0} /\ Pages \subseteq Nat
  BY <1>1, HeapFacts
<1>3. n - 1 \in Pages /\ n - 1 \in Nat
  BY <1>2 DEF Pages
<1>4. dirty = {At(o, n - 1) : o \in {p \in Orders(n) : n % BIT[p] # 0}}
  BY <1>1, <1>2, InitialBits
<1>5. BlocksPlaced /\ Owned /\ Undivided
  BY <1>1 DEF BlocksPlaced, Owned, Undivided
<1>6. BitsPlaced
  BY <1>1, <1>3, <1>4 DEF BitsPlaced
<1>7. DirtyUp
  <2>1. ASSUME NEW o \in Orders(n), NEW p \in Pages, o < top(n), At(o, p) \in dirty
        PROVE  At(o + 1, p) \in dirty
    <3>1. n % BIT[o] # 0 /\ Of(o, p) = Of(o, n - 1)
      BY <1>4, <2>1 DEF At
    <3>2. o \in 0 .. 30 /\ o \in 0 .. top(n) /\ top(n) \in 0 .. 30
      BY <1>2, OrderFacts
    <3>3. o \in 0 .. 29 /\ o + 1 \in o .. 30 /\ o + 1 \in o .. top(n) /\ p \in Nat
      BY <1>2, <2>1, <3>2
    <3>4. o + 1 \in Orders(n)
      BY <1>2, <3>3, OrderFacts
    <3>5. n % BIT[o + 1] # 0
      BY <1>2, <3>1, <3>3, LacksUp
    <3>6. Of(o + 1, p) = Of(o + 1, n - 1)
      BY <1>3, <3>1, <3>2, <3>3, Together
    <3>7. QED
      BY <1>4, <3>4, <3>5, <3>6 DEF At
  <2>2. QED
    BY <2>1 DEF DirtyUp
<1>8. Counted
  <2>1. Taken = {}
    BY <1>1 DEF Taken
  <2>2. IsFiniteSet({}) /\ Cardinality({}) = 0
    BY FS_EmptySet
  <2>3. QED
    BY <1>1, <2>1, <2>2 DEF Counted
<1>9. QED
  BY <1>1, <1>5, <1>6, <1>7, <1>8 DEF PageInv

-----------------------------------------------------------------------------
(* The theorems.                                                             *)

\* Every order has room for its bits.  In a heap of 63 or 65 pages and 64-bit words it holds,
\* in one of 129 it does not: there the last bit of order 1 is the first of order 2.
EveryBitHasRoom == \A m \in Sizes : Room(m)

\* A heap whose blocks are all whole has room for any width of word: a power of two, for one.
LEMMA WholeHasRoom ==
  ASSUME NEW m \in Nat \ {0}, \A o \in Orders(m) : m % BIT[o] = 0
  PROVE  Room(m)
<1> SUFFICES ASSUME NEW o \in Orders(m)
             PROVE  buddy_order_bits(m, o) <= _determine_buddy_order_size(m, o)
  BY DEF Room
<1> DEFINE d == BIT[o]
           q == m \div d
           up == q + WORD_T_BITS - 1
           k == up \div WORD_T_BITS
<1>1. d \in Nat \ {0} /\ m % d = 0 /\ WORD_T_BITS \in Nat \ {0}
  BY OrderFacts, BuddyAssumption
<1>2. buddy_order_bits(m, o) = q + (IF m % d = 0 THEN 0 ELSE 1) /\ _determine_buddy_order_size(m, o) = k * WORD_T_BITS
  BY DEF buddy_order_bits, _determine_buddy_order_size
<1> HIDE DEF d
<1>3. q \in Nat
  BY <1>1, DivMod
<1> HIDE DEF q
<1>4. up \in Nat
  BY <1>1, <1>3
<1>5. up = q + WORD_T_BITS - 1
  OBVIOUS
<1> HIDE DEF up
<1>6. k \in Nat /\ up % WORD_T_BITS \in 0 .. WORD_T_BITS - 1 /\ up = WORD_T_BITS * k + (up % WORD_T_BITS)
  BY <1>1, <1>4, DivMod
<1> HIDE DEF k
<1>7. k * WORD_T_BITS = WORD_T_BITS * k /\ k * WORD_T_BITS \in Nat
  BY <1>1, <1>6
<1>8. q <= k * WORD_T_BITS
  BY <1>1, <1>3, <1>5, <1>6, <1>7
<1>9. QED
  BY <1>1, <1>2, <1>3, <1>8

LEMMA RoomHere ==
  ASSUME EveryBitHasRoom, order_0_bits \in Sizes
  PROVE  Room(n)
BY DEF EveryBitHasRoom, n

LEMMA PageStep ==
  ASSUME EveryBitHasRoom, PageInv, [Next]_vars
  PROVE  PageInv'
<1>1. Room(n)
  BY RoomHere DEF PageInv
<1>2. CASE Next
  <2>1. ASSUME NEW pages \in Requests, get_free_pages(pages) PROVE PageInv'
    BY <1>1, <2>1, Got, TakesInv
  <2>2. ASSUME NEW b \in blocks, free_pages(b) PROVE PageInv'
    BY <1>1, <2>2, Freed, GivesInv
  <2>3. QED
    BY <1>2, <2>1, <2>2 DEF Next
<1>3. CASE UNCHANGED vars
  BY <1>3 DEF vars, PageInv, n, Pages, BlocksPlaced, BitsPlaced, Owned, Undivided, In, DirtyUp,
              Counted, Taken, PagesOf
<1>4. QED
  BY <1>2, <1>3

LEMMA PageInvariant ==
  ASSUME EveryBitHasRoom
  PROVE  Spec => []PageInv
<1>1. Init => PageInv
  BY RoomHere, PageInit DEF Init
<1>2. PageInv /\ [Next]_vars => PageInv'
  BY PageStep
<1>3. QED
  BY <1>1, <1>2, PTL DEF Spec

LEMMA InvTyped ==
  ASSUME EveryBitHasRoom, PageInv
  PROVE  TypeOK
<1>1. n \in Nat \ {0} /\ Room(n) /\ order_0_bits \in Sizes
  BY RoomHere, HeapFacts DEF PageInv
<1>2. ASSUME NEW place \in dirty \cup saturated
      PROVE  /\ place[1] \in Orders(n)
             /\ place[2] \in 0 .. _determine_buddy_order_size(n, place[1]) - 1
  <2>1. PICK o \in Orders(n), p \in Pages : place = At(o, p)
    BY DEF PageInv, BitsPlaced
  <2>2. place[1] = o /\ place[2] = Of(o, p)
    BY <2>1 DEF At
  <2>3. Of(o, p) \in 0 .. buddy_order_bits(n, o) - 1 /\ buddy_order_bits(n, o) \in Nat
    BY <1>1, BitsOf DEF Pages
  <2>4. Of(o, p) \in Nat /\ Of(o, p) < buddy_order_bits(n, o)
    BY <2>3
  <2>5. Of(o, p) < _determine_buddy_order_size(n, o)
    BY <1>1, <2>4, Placed
  <2>6. _determine_buddy_order_size(n, o) \in Nat
    BY <1>1, SizeEven
  <2>7. QED
    BY <2>2, <2>4, <2>5, <2>6
<1>3. total_pages_allocated \in Nat
  BY FS_CardinalityType DEF PageInv, Counted
<1>4. \A b \in blocks : b.page \in Nat /\ b.order \in Orders(n)
  BY BlockFacts
<1>5. QED
  BY <1>1, <1>2, <1>3, <1>4 DEF TypeOK

\* Every bit that set_dirty and set_saturated (buddy_alloc.c:157-211) set is in the words of its
\* order, and the counter of page2.c never goes below zero.
THEOREM PagesTyped ==
  ASSUME EveryBitHasRoom
  PROVE  Spec => []TypeOK
<1>1. PageInv => TypeOK
  BY InvTyped
<1>2. QED
  BY <1>1, PageInvariant, PTL

\* No page is given to two callers, whatever was asked for and given back before (get_free_pages,
\* page2.c:60).
THEOREM BlocksDisjoint ==
  ASSUME EveryBitHasRoom
  PROVE  Spec => []Disjoint
BY InvDisjoint, PageInvariant, PTL

\* free_pages finds, in the dirty bits alone, the order a block was taken with
\* (_determine_allocated_page_order, page2.c:99).
THEOREM OrderComesBack ==
  ASSUME EveryBitHasRoom
  PROVE  Spec => []RightOrder
<1>1. PageInv => RightOrder
  <2> SUFFICES ASSUME PageInv PROVE RightOrder
    OBVIOUS
  <2>1. Room(n)
    BY RoomHere DEF PageInv
  <2>2. QED
    BY <2>1, OrderFound DEF RightOrder
<1>2. QED
  BY <1>1, PageInvariant, PTL

\* A block's pages are all in the same block of the top order.
LEMMA InReach ==
  ASSUME PageInv, NEW t \in Orders(n), NEW g \in Pages, NEW p \in Nat, Of(t, p) = Of(t, g)
  PROVE  p \in Reach /\ (n = BIT[top(n)] => p \in 0 .. n - 1)
<1> DEFINE h == top(n)
           d == BIT[h]
           bits == buddy_order_bits(n, h)
<1>1. n \in Nat \ {0} /\ Pages = 0 .. n - 1 /\ g \in Nat
  BY HeapFacts DEF PageInv, Pages
<1>2. h \in 0 .. 30 /\ h \in t .. 30 /\ t \in 0 .. 30 /\ h \in Orders(n) /\ d \in Nat \ {0}
  <2>1. t \in 0 .. 30 /\ t \in 0 .. h /\ h \in 0 .. 30 /\ Orders(n) = 0 .. h
    BY <1>1, OrderFacts, OrdersOf
  <2> HIDE DEF h
  <2>2. h \in t .. 30 /\ h \in Orders(n)
    BY <2>1
  <2>3. BIT[h] \in Nat \ {0}
    BY <2>1, Powers
  <2>4. QED
    BY <2>1, <2>2, <2>3 DEF h
<1>3. Of(h, p) = Of(h, g)
  <2> HIDE DEF h, d, bits
  <2>1. g \in Nat /\ t \in 0 .. 30 /\ h \in t .. 30
    BY <1>1, <1>2
  <2>2. QED
    BY <2>1, Together, Zenon
<1>4. Of(h, g) \in Nat /\ d * Of(h, g) <= g
  BY <1>1, <1>2, OfNat
<1>5. p < d * Of(h, p) + d
  BY <1>2, OfNat
<1>6. bits \in Nat /\ Of(h, g) \in 0 .. bits - 1
  BY <1>1, <1>2, BitsOf
<1>7. Reach = 0 .. bits * d - 1
  BY DEF Reach
<1> HIDE DEF d, bits
<1> DEFINE x == Of(h, g)
<1> HIDE DEF x
<1>8. x \in Nat /\ x \in 0 .. bits - 1 /\ p < d * x + d /\ d * x <= g
  BY <1>3, <1>4, <1>5, <1>6 DEF x
<1>9. p \in 0 .. bits * d - 1
  <2>1. bits - 1 - x \in Nat
    BY <1>6, <1>8
  <2>2. /\ d * (bits - 1 - x) \in Nat /\ d * x \in Nat
        /\ bits * d = d * x + d * (bits - 1 - x) + d
    BY <1>2, <1>6, <1>8, <2>1
  <2>3. QED
    BY <1>2, <1>8, <2>2
<1>10. ASSUME n = d PROVE p \in 0 .. n - 1
  <2>1. d * x < d
    BY <1>1, <1>2, <1>8, <1>10
  <2>2. x = 0
    <3>1. CASE x >= 1
      <4>1. x - 1 \in Nat /\ d * (x - 1) \in Nat /\ d * x = d * (x - 1) + d
        BY <1>2, <1>8, <3>1
      <4>2. QED
        BY <1>2, <2>1, <4>1
    <3>2. QED
      BY <1>8, <3>1
  <2>3. QED
    BY <1>2, <1>8, <1>10, <2>2
<1>11. QED
  BY <1>7, <1>9, <1>10 DEF d

\* In a heap that its top order fills no block reaches past the end (page2.c:77).
THEOREM BlocksInWholeHeap ==
  ASSUME EveryBitHasRoom
  PROVE  Spec => []InWholeHeap
<1>1. PageInv => InWholeHeap
  <2> SUFFICES ASSUME PageInv, n = BIT[top(n)], NEW b \in blocks, NEW p \in PagesOf(b)
               PROVE  p \in 0 .. n - 1
    BY DEF InWholeHeap, InHeap
  <2>1. p \in Nat /\ Of(b.order, p) = Of(b.order, b.page)
    BY PagesOfIn DEF In
  <2>2. b.order \in Orders(n) /\ b.page \in Pages
    BY BlockFacts
  <2>3. QED
    BY <2>1, <2>2, InReach
<1>2. QED
  BY <1>1, PageInvariant, PTL

LEMMA SameBits ==
  /\ Promise!BIT = BIT
  /\ \A b : Promise!PagesOf(b) = PagesOf(b)
  /\ Promise!Held = Taken
<1>1. Promise!BIT = BIT
  BY DEF BIT, Promise!BIT
<1>2. \A b : Promise!PagesOf(b) = PagesOf(b)
  BY <1>1, Zenon DEF Promise!PagesOf, PagesOf
<1>3. QED
  BY <1>1, <1>2 DEF Promise!Held, Taken

LEMMA PromisedGet ==
  ASSUME PageInv, NEW t \in 0 .. 30, NEW g \in Nat, Takes(t, g)
  PROVE  Promise!Get
<1> DEFINE new == [page |-> g, order |-> t]
<1>1. /\ n' = n /\ t \in Orders(n) /\ g \in Pages /\ g = Of(t, g) * BIT[t]
  BY TakesFacts
<1>2. blocks' = blocks \cup {new} /\ total_pages_allocated' = total_pages_allocated + BIT[t]
  BY DEF Takes
<1>3. \A p \in PagesOf(new) : p \in Nat /\ Of(t, p) = Of(t, g)
  BY <1>1, PagesIn DEF PagesOf
<1>4. \A p \in PagesOf(new) : p \in Reach
  BY <1>1, <1>3, InReach
<1>5. ASSUME NEW p \in PagesOf(new) PROVE p \notin Taken
  <2>1. \A b \in blocks : p \notin PagesOf(b)
    BY <1>3, <1>5, PagesOfIn, TakenFresh
  <2>2. QED
    BY <2>1 DEF Taken
<1>6. g \in Reach
  BY <1>1, InReach
<1>7. t \in DOMAIN Promise!BIT /\ Promise!BIT[t] = BIT[t]
  BY Powers, SameBits
<1>8. Reach' = Reach
  BY <1>1 DEF Reach
<1>9. Promise!PagesOf(new) \subseteq Reach \ Promise!Held
  BY <1>4, <1>5, SameBits
<1> HIDE DEF new
<1>10. /\ Promise!PagesOf(new) \subseteq Reach \ Promise!Held
       /\ blocks' = blocks \cup {new}
       /\ total_pages_allocated' = total_pages_allocated + Promise!BIT[t]
       /\ UNCHANGED Reach
  BY <1>2, <1>7, <1>8, <1>9
<1>11. QED
  BY <1>6, <1>7, <1>10 DEF Promise!Get, new

\* get_free_pages and free_pages are what memory/page.h promises: blocks nobody has, taken back
\* whole, and a count of the pages that are out (page2.c:60, page2.c:136).
THEOREM KeepsPromise ==
  ASSUME EveryBitHasRoom
  PROVE  Spec => PromiseKept
<1>1. Init => Promise!Init
  <2> SUFFICES ASSUME Init PROVE Promise!Init
    OBVIOUS
  <2>1. Reach \subseteq Nat
    BY DEF Reach
  <2>2. QED
    BY <2>1 DEF Init, Promise!Init
<1>2. PageInv /\ [Next]_vars
        => [Promise!Get \/ Promise!Free]_<<Reach, blocks, total_pages_allocated>>
  <2> SUFFICES ASSUME PageInv, [Next]_vars
               PROVE  \/ Promise!Get \/ Promise!Free
                      \/ UNCHANGED <<Reach, blocks, total_pages_allocated>>
    OBVIOUS
  <2>1. Room(n)
    BY RoomHere DEF PageInv
  <2>2. ASSUME NEW pages \in Requests, get_free_pages(pages) PROVE Promise!Get
    BY <2>1, <2>2, Got, PromisedGet
  <2>3. ASSUME NEW b \in blocks, free_pages(b) PROVE Promise!Free
    <3>1. Gives(b)
      BY <2>1, <2>3, Freed
    <3>2. Reach' = Reach
      BY <3>1 DEF Gives, Reach, n
    <3>3. QED
      BY <3>1, <3>2, SameBits DEF Gives, Promise!Free
  <2>4. ASSUME UNCHANGED vars PROVE UNCHANGED <<Reach, blocks, total_pages_allocated>>
    BY <2>4 DEF vars, Reach, n
  <2>5. QED
    BY <2>2, <2>3, <2>4 DEF Next
<1>3. QED
  BY <1>1, <1>2, PageInvariant, PTL DEF Spec, PromiseKept, Promise!Spec

-----------------------------------------------------------------------------
(* No bit is set that need not be.                                           *)

\* A block is saturated because it is out or, from its halves up, because it is full.
SatFrom ==
  \A o \in Orders(n), p \in Pages :
    At(o, p) \in saturated =>
      \/ \E b \in blocks : b.order = o /\ In(p, b)
      \/ o > 0 /\ At(o - 1, p) \in saturated

\* Two saturated halves make a saturated block.
SatUp ==
  \A o \in Orders(n), p \in Pages :
    o < top(n) /\ {At(o, p), <<o, Buddy(Of(o, p))>>} \subseteq saturated
      => At(o + 1, p) \in saturated

\* A block is dirty because it is out, because it lacks pages, or because a half of it is dirty.
DirtyFrom ==
  \A o \in Orders(n), p \in Pages :
    At(o, p) \in dirty =>
      \/ \E b \in blocks : b.order = o /\ In(p, b)
      \/ n % BIT[o] # 0 /\ Of(o, p) = Of(o, n - 1)
      \/ o > 0 /\ \E q \in Pages : Of(o, q) = Of(o, p) /\ At(o - 1, q) \in dirty

TreeInv == PageInv /\ SatFrom /\ SatUp /\ DirtyFrom

LEMMA HeapOrders ==
  ASSUME PageInv
  PROVE  /\ n \in Nat \ {0} /\ Pages = 0 .. n - 1 /\ Pages \subseteq Nat
         /\ top(n) \in 0 .. 30 /\ Orders(n) = 0 .. top(n)
         /\ \A o \in Orders(n) : o \in 0 .. 30
<1>1. n \in Nat \ {0} /\ Pages \subseteq Nat
  BY HeapFacts DEF PageInv
<1>2. top(n) \in 0 .. 30 /\ Orders(n) = 0 .. top(n)
  BY <1>1, OrdersOf
<1>3. \A o \in Orders(n) : o \in 0 .. 30
  BY <1>1, OrderFacts
<1>4. QED
  BY <1>1, <1>2, <1>3 DEF Pages

\* The pages of a saturated block are out, in blocks no larger than it.
LEMMA SatTaken ==
  ASSUME PageInv, SatFrom, NEW o \in Orders(n), NEW p \in Pages, At(o, p) \in saturated
  PROVE  \E b \in blocks : b.order <= o /\ In(p, b)
<1> DEFINE out(k) == \E b \in blocks : b.order <= k /\ In(p, b)
           P == {k \in 0 .. top(n) : At(k, p) \in saturated => out(k)}
<1>0. top(n) \in 0 .. 30
  BY HeapOrders
<1>1. Orders(n) = 0 .. top(n)
  BY HeapOrders
<1>2. ASSUME NEW k \in 0 .. top(n), At(k, p) \in saturated, k > 0 => k - 1 \in P
      PROVE  out(k)
  <2>1. CASE \E b \in blocks : b.order = k /\ In(p, b)
    <3>1. PICK b \in blocks : b.order = k /\ In(p, b)
      BY <2>1
    <3>2. b.order <= k
      BY <1>0, <3>1
    <3>3. QED
      BY <3>1, <3>2
  <2>2. CASE k > 0 /\ At(k - 1, p) \in saturated
    <3>1. PICK b \in blocks : b.order <= k - 1 /\ In(p, b)
      BY <1>2, <2>2
    <3>2. b.order \in 0 .. 30
      BY BlockFacts
    <3>3. b.order <= k
      BY <1>0, <3>1, <3>2
    <3>4. QED
      BY <3>1, <3>3
  <2>3. k \in Orders(n)
    BY <1>1
  <2>4. QED
    BY <1>2, <2>1, <2>2, <2>3 DEF SatFrom
<1>3. 0 \in P
  <2>1. 0 \in 0 .. top(n) /\ ~(0 > 0)
    BY <1>0
  <2> HIDE DEF out
  <2>2. ASSUME At(0, p) \in saturated PROVE out(0)
    BY <1>2, <2>1, <2>2
  <2>3. QED
    BY <2>1, <2>2
<1>4. ASSUME NEW k \in 0 .. top(n) - 1, k \in P PROVE k + 1 \in P
  <2>1. k + 1 \in 0 .. top(n) /\ (k + 1) - 1 = k
    BY <1>0
  <2> HIDE DEF out
  <2>2. ASSUME At(k + 1, p) \in saturated PROVE out(k + 1)
    <3> HIDE DEF P
    <3> QED
      BY <1>2, <1>4, <2>1, <2>2
  <2>3. QED
    BY <2>1, <2>2
<1>5. \A k \in 0 .. top(n) : k \in P
  <2> HIDE DEF P
  <2>1. top(n) \in Nat
    BY <1>0
  <2> QED
    BY <1>3, <1>4, <2>1, Climb
<1>6. out(o)
  <2> HIDE DEF out
  <2> QED
    BY <1>1, <1>5
<1>7. QED
  BY <1>6

\* Blocks and bits that a page shares with the block that is taken or freed.
LEMMA IsNew ==
  ASSUME NEW t, NEW g, Takes(t, g), NEW p, Of(t, p) = Of(t, g)
  PROVE  \E b \in blocks' : b.order = t /\ In(p, b)
<1> DEFINE new == [page |-> g, order |-> t]
<1>1. new \in blocks'
  BY DEF Takes
<1>2. new.order = t /\ new.page = g
  OBVIOUS
<1> HIDE DEF new
<1>3. In(p, new)
  BY <1>2 DEF In
<1>4. QED
  BY <1>1, <1>2, <1>3

LEMMA InNew ==
  ASSUME PageInv, NEW t \in 0 .. 30, NEW g \in Nat, Takes(t, g),
         NEW o \in Orders(n), NEW p \in Pages
  PROVE  /\ (\E b \in blocks : b.order = o /\ In(p, b)) => \E b \in blocks' : b.order = o /\ In(p, b)
         /\ o = t /\ Of(t, p) = Of(t, g) => \E b \in blocks' : b.order = o /\ In(p, b)
<1> DEFINE new == [page |-> g, order |-> t]
<1>1. blocks' = blocks \cup {new}
  BY DEF Takes
<1>2. new.order = t /\ new.page = g
  OBVIOUS
<1> HIDE DEF new
<1>3. o = t /\ Of(t, p) = Of(t, g) => new \in blocks' /\ new.order = o /\ In(p, new)
  BY <1>1, <1>2 DEF In
<1>4. QED
  BY <1>1, <1>3

LEMMA TakesSat ==
  ASSUME TreeInv, NEW t \in 0 .. 30, NEW g \in Nat, Takes(t, g)
  PROVE  SatFrom' /\ SatUp'
<1> DEFINE F == Filled(n, saturated, t, g)
<1>1. /\ n' = n /\ Pages' = Pages /\ Pages \subseteq Nat /\ top(n) \in 0 .. 30
      /\ t \in 0 .. top(n) /\ t \in F /\ F \subseteq t .. top(n) /\ PageInv
      /\ \A o \in Orders(n) : o \in 0 .. 30
  BY TakesFacts, HeapOrders DEF TreeInv
<1>2. saturated' = saturated \cup {At(o, g) : o \in F}
  BY DEF Takes
<1>3. \A o \in F : \A q \in t .. o - 1 : <<q, Buddy(Of(q, g))>> \in saturated
  BY DEF Filled
<1>4. ASSUME NEW o \in F, o # t
      PROVE  o - 1 \in F /\ <<o - 1, Buddy(Of(o - 1, g))>> \in saturated
  <2> USE <1>4
  <2>0. t \in 0 .. top(n) /\ o \in t .. top(n) /\ top(n) \in 0 .. 30
    BY <1>1
  <2>1. o \in t .. top(n) /\ o - 1 \in t .. top(n) /\ o - 1 \in t .. o - 1
    BY <2>0
  <2>2. \A q \in t .. (o - 1) - 1 : q \in t .. o - 1
    BY <2>1
  <2>3. \A q \in t .. (o - 1) - 1 : <<q, Buddy(Of(q, g))>> \in saturated
    BY <1>3, <2>2
  <2>4. QED
    BY <1>3, <2>1, <2>3 DEF Filled
<1>5. ASSUME NEW o \in F, o < top(n), <<o, Buddy(Of(o, g))>> \in saturated
      PROVE  o + 1 \in F
  <2>1. o + 1 \in t .. top(n) /\ \A q \in t .. (o + 1) - 1 : q \in t .. o - 1 \/ q = o
    BY <1>1, <1>5
  <2>2. \A q \in t .. (o + 1) - 1 : <<q, Buddy(Of(q, g))>> \in saturated
    BY <1>3, <1>5, <2>1
  <2>3. QED
    BY <2>1, <2>2 DEF Filled
<1> HIDE DEF F
<1>6. SatFrom'
  <2>1. ASSUME NEW o \in Orders(n), NEW p \in Pages, At(o, p) \in saturated'
        PROVE  \/ \E b \in blocks' : b.order = o /\ In(p, b)
               \/ o > 0 /\ At(o - 1, p) \in saturated'
    <3>1. CASE At(o, p) \in saturated
      BY <1>1, <1>2, <3>1, InNew DEF TreeInv, SatFrom
    <3>2. CASE o \in F /\ Of(o, p) = Of(o, g)
      <4>1. CASE o = t
        <5>1. Of(t, p) = Of(t, g)
          BY <3>2, <4>1, Zenon
        <5>2. \E b \in blocks' : b.order = t /\ In(p, b)
          BY <5>1, IsNew, Zenon
        <5>3. QED
          BY <4>1, <5>2, Zenon
      <4>2. CASE o # t
        <5>1. /\ o - 1 \in F /\ <<o - 1, Buddy(Of(o - 1, g))>> \in saturated'
              /\ At(o - 1, g) \in saturated'
          BY <1>2, <1>4, <3>2, <4>2
        <5>2. o - 1 \in 0 .. 29 /\ p \in Nat /\ o > 0 /\ (o - 1) + 1 = o
          BY <1>1, <3>2, <4>2
        <5>3. Of(o - 1, p) = Of(o - 1, g) \/ Of(o - 1, p) = Buddy(Of(o - 1, g))
          BY <3>2, <5>2, Halves
        <5>4. QED
          BY <5>1, <5>2, <5>3 DEF At
      <4>3. QED
        BY <4>1, <4>2
    <3>3. QED
      BY <1>2, <2>1, <3>1, <3>2 DEF At
  <2>2. QED
    BY <1>1, <2>1 DEF SatFrom, In
<1>7. SatUp'
  <2>1. ASSUME NEW o \in Orders(n), NEW p \in Pages, o < top(n),
               {At(o, p), <<o, Buddy(Of(o, p))>>} \subseteq saturated'
        PROVE  At(o + 1, p) \in saturated'
    <3> DEFINE x == Of(o, p)
               y == Of(o, g)
    <3>1. o \in 0 .. 29 /\ p \in Nat /\ x \in Nat /\ y \in Nat
      <4>1. o \in 0 .. 29 /\ o \in 0 .. 30 /\ p \in Nat
        BY <1>1, <2>1
      <4>2. QED
        BY <4>1, OfNat
    <3> HIDE DEF x, y
    <3>2. /\ Buddy(x) # x /\ (Buddy(x) = y => x = Buddy(y))
          /\ <<o, x>> \in saturated' /\ <<o, Buddy(x)>> \in saturated'
      <4>1. Buddy(x) # x /\ (Buddy(x) = y => x = Buddy(y))
        BY <3>1 DEF Buddy
      <4>2. QED
        BY <2>1, <4>1 DEF At, x
    <3>3. \A z : <<o, z>> \in saturated' => <<o, z>> \in saturated \/ (o \in F /\ z = y)
      BY <1>2 DEF At, y
    <3>4. CASE <<o, x>> \in saturated /\ <<o, Buddy(x)>> \in saturated
      <4>1. {At(o, p), <<o, Buddy(Of(o, p))>>} \subseteq saturated
        BY <3>4 DEF At, x
      <4>2. QED
        BY <1>2, <2>1, <4>1 DEF TreeInv, SatUp
    <3>5. CASE o \in F /\ (x = y \/ Buddy(x) = y)
      <4>1. <<o, Buddy(y)>> \in saturated
        <5>1. Buddy(y) # y
          BY <3>1, BuddyFacts
        <5>2. <<o, Buddy(y)>> \in saturated'
          BY <3>2, <3>5
        <5>3. QED
          BY <3>3, <5>1, <5>2
      <4>2. o + 1 \in F
        BY <1>5, <2>1, <3>5, <4>1 DEF y
      <4>3. Of(o, p) = Of(o, g) \/ Of(o, p) = Buddy(Of(o, g))
        BY <3>2, <3>5 DEF x, y
      <4>4. Of(o + 1, p) = Of(o + 1, g)
        BY <3>1, <4>3, Halves
      <4>5. QED
        BY <1>2, <4>2, <4>4 DEF At
    <3>6. QED
      BY <3>2, <3>3, <3>4, <3>5
  <2>2. QED
    BY <1>1, <2>1 DEF SatUp
<1>8. QED
  BY <1>6, <1>7

LEMMA TakesDirtyFrom ==
  ASSUME TreeInv, NEW t \in 0 .. 30, NEW g \in Nat, Takes(t, g)
  PROVE  DirtyFrom'
<1>1. /\ n' = n /\ Pages' = Pages /\ Pages \subseteq Nat /\ top(n) \in 0 .. 30
      /\ t \in 0 .. top(n) /\ PageInv /\ g \in Pages
  BY TakesFacts DEF TreeInv
<1>2. dirty' = dirty \cup {At(o, g) : o \in t .. top(n)}
  BY DEF Takes, Above
<1>3. ASSUME NEW o \in Orders(n), NEW p \in Pages, At(o, p) \in dirty'
      PROVE  \/ \E b \in blocks' : b.order = o /\ In(p, b)
             \/ n % BIT[o] # 0 /\ Of(o, p) = Of(o, n - 1)
             \/ o > 0 /\ \E q \in Pages : Of(o, q) = Of(o, p) /\ At(o - 1, q) \in dirty'
  <2>1. CASE At(o, p) \in dirty
    BY <1>1, <1>2, <2>1, InNew DEF TreeInv, DirtyFrom
  <2>2. CASE o \in t .. top(n) /\ Of(o, p) = Of(o, g)
    <3>1. CASE o = t
      BY <1>1, <2>2, <3>1, InNew
    <3>2. CASE o # t
      <4>1. o - 1 \in t .. top(n) /\ o > 0
        BY <1>1, <2>2, <3>2
      <4>2. QED
        BY <1>1, <1>2, <2>2, <4>1
    <3>3. QED
      BY <3>1, <3>2
  <2>3. QED
    BY <1>2, <1>3, <2>1, <2>2 DEF At
<1>4. QED
  BY <1>1, <1>3 DEF DirtyFrom, In

LEMMA GivesSat ==
  ASSUME TreeInv, NEW b, Gives(b)
  PROVE  SatFrom' /\ SatUp'
<1> DEFINE t == b.order
           g == b.page
<1>1. /\ n' = n /\ Pages' = Pages /\ Pages \subseteq Nat /\ b \in blocks /\ PageInv
      /\ t \in 0 .. 30 /\ g \in Pages /\ g \in Nat /\ b.order = t /\ b.page = g
      /\ t \in t .. top(n) /\ top(n) \in 0 .. 30
      /\ \A o \in Orders(n) : o \in 0 .. 30
  BY GivesFacts, HeapOrders DEF TreeInv
<1>2. /\ saturated' = saturated \ {At(o, g) : o \in t .. top(n)}
      /\ blocks' = blocks \ {b}
  BY DEF Gives, Above
<1> HIDE DEF t, g
<1>3. SatFrom'
  <2>1. ASSUME NEW o \in Orders(n), NEW p \in Pages, At(o, p) \in saturated'
        PROVE  \/ \E c \in blocks' : c.order = o /\ In(p, c)
               \/ o > 0 /\ At(o - 1, p) \in saturated'
    <3>1. At(o, p) \in saturated /\ \A q \in t .. top(n) : At(o, p) # At(q, g)
      BY <1>2, <2>1
    <3>2. CASE \E c \in blocks : c.order = o /\ In(p, c)
      <4>1. PICK c \in blocks : c.order = o /\ In(p, c)
        BY <3>2
      <4>2. c # b
        BY <1>1, <3>1, <4>1 DEF In, At
      <4>3. QED
        BY <1>2, <4>1, <4>2
    <3>3. CASE o > 0 /\ At(o - 1, p) \in saturated
      <4>1. ASSUME At(o - 1, p) \in {At(q, g) : q \in t .. top(n)} PROVE FALSE
        <5>1. o - 1 \in t .. top(n) /\ Of(o - 1, p) = Of(o - 1, g)
          BY <4>1 DEF At
        <5>2. o \in 0 .. 30 /\ o \in 0 .. top(n) /\ p \in Nat
          BY <1>1, HeapOrders
        <5>3. o - 1 \in 0 .. 29 /\ (o - 1) + 1 = o /\ o \in t .. top(n)
          BY <1>1, <3>3, <5>1, <5>2
        <5>4. Of(o, p) = Of(o, g)
          BY <1>1, <5>1, <5>2, <5>3, Halves
        <5>5. QED
          BY <3>1, <5>3, <5>4 DEF At
      <4>2. QED
        BY <1>2, <3>3, <4>1
    <3>4. QED
      BY <3>1, <3>2, <3>3 DEF TreeInv, SatFrom
  <2>2. QED
    BY <1>1, <2>1 DEF SatFrom, In
<1>4. SatUp'
  <2>1. ASSUME NEW o \in Orders(n), NEW p \in Pages, o < top(n),
               {At(o, p), <<o, Buddy(Of(o, p))>>} \subseteq saturated'
        PROVE  At(o + 1, p) \in saturated'
    <3>1. At(o, p) \in saturated /\ At(o + 1, p) \in saturated
      BY <1>2, <2>1 DEF TreeInv, SatUp
    <3>2. o \in 0 .. 29 /\ o \in 0 .. 30 /\ p \in Nat
      <4>1. o \in 0 .. 30 /\ p \in Nat
        BY <1>1
      <4>2. QED
        BY <1>1, <2>1, <4>1
    <3>3. ASSUME At(o + 1, p) \in {At(q, g) : q \in t .. top(n)} PROVE FALSE
      <4>1. o + 1 \in t .. top(n) /\ Of(o + 1, p) = Of(o + 1, g)
        BY <3>3 DEF At
      <4>2. CASE o + 1 = t
        <5>1. In(p, b)
          BY <1>1, <4>1, <4>2 DEF In
        <5>2. PICK c \in blocks : c.order <= o /\ In(p, c)
          BY <1>1, <3>1, SatTaken DEF TreeInv
        <5>3. b = c
          BY <1>1, <3>2, <5>1, <5>2, Apart
        <5>4. QED
          BY <1>1, <3>2, <4>2, <5>2, <5>3
      <4>3. CASE o + 1 # t
        <5>1. o \in t .. top(n)
          BY <1>1, <3>2, <4>1, <4>3
        <5>2. At(o, g) \notin saturated'
          BY <1>2, <5>1
        <5>3. Of(o, g) = Of(o, p) \/ Of(o, g) = Buddy(Of(o, p))
          BY <1>1, <3>2, <4>1, Halves
        <5>4. QED
          BY <2>1, <5>2, <5>3 DEF At
      <4>4. QED
        BY <4>2, <4>3
    <3>4. QED
      BY <1>2, <3>1, <3>3
  <2>2. QED
    BY <1>1, <2>1 DEF SatUp
<1>5. QED
  BY <1>3, <1>4

LEMMA GivesDirtyFrom ==
  ASSUME TreeInv, NEW b, Gives(b)
  PROVE  DirtyFrom'
<1> DEFINE t == b.order
           g == b.page
           C == Cleared(n, dirty, t, g)
<1>1. /\ n' = n /\ Pages' = Pages /\ Pages \subseteq Nat /\ b \in blocks /\ PageInv
      /\ t \in 0 .. 30 /\ g \in Pages /\ g \in Nat /\ b.order = t /\ b.page = g
      /\ t \in C /\ C \subseteq t .. top(n) /\ top(n) \in 0 .. 30
      /\ \A o \in Orders(n) : o \in 0 .. 30
  BY GivesFacts, HeapOrders DEF TreeInv
<1>2. /\ dirty' = dirty \ {At(o, g) : o \in C}
      /\ blocks' = blocks \ {b}
  BY DEF Gives
<1>3. ASSUME NEW o \in t .. top(n), o \notin C, o - 1 \in C
      PROVE  <<o - 1, Buddy(Of(o - 1, g))>> \in dirty
  <2>1. PICK r \in t .. o - 1 : <<r, Buddy(Of(r, g))>> \in dirty
    BY <1>3 DEF Cleared
  <2>2. r \notin t .. (o - 1) - 1
    BY <1>3, <2>1 DEF Cleared
  <2>3. r = o - 1
    BY <1>1, <2>2
  <2>4. QED
    BY <2>1, <2>3
<1> HIDE DEF C, t, g
<1>4. ASSUME NEW o \in Orders(n), NEW p \in Pages, At(o, p) \in dirty'
      PROVE  \/ \E c \in blocks' : c.order = o /\ In(p, c)
             \/ n % BIT[o] # 0 /\ Of(o, p) = Of(o, n - 1)
             \/ o > 0 /\ \E q \in Pages : Of(o, q) = Of(o, p) /\ At(o - 1, q) \in dirty'
  <2>1. At(o, p) \in dirty /\ \A q \in C : At(o, p) # At(q, g)
    BY <1>2, <1>4
  <2>2. CASE \E c \in blocks : c.order = o /\ In(p, c)
    <3>1. PICK c \in blocks : c.order = o /\ In(p, c)
      BY <2>2
    <3>2. c # b
      BY <1>1, <2>1, <3>1 DEF In, At
    <3>3. QED
      BY <1>2, <3>1, <3>2
  <2>3. ASSUME NEW q \in Pages, o > 0, Of(o, q) = Of(o, p), At(o - 1, q) \in dirty
        PROVE  \E r \in Pages : Of(o, r) = Of(o, p) /\ At(o - 1, r) \in dirty'
    <3>1. CASE At(o - 1, q) \in dirty'
      BY <2>3, <3>1
    <3>2. CASE At(o - 1, q) \notin dirty'
      <4>1. o - 1 \in C /\ Of(o - 1, q) = Of(o - 1, g)
        BY <1>2, <2>3, <3>2 DEF At
      <4>2. /\ o \in 0 .. 30 /\ o \in 0 .. top(n) /\ q \in Nat
            /\ o - 1 \in t .. top(n)
        BY <1>1, <4>1, HeapOrders
      <4>3. o - 1 \in 0 .. 29 /\ (o - 1) + 1 = o /\ o \in t .. top(n) /\ o - 1 \in 0 .. 30
        BY <1>1, <2>3, <4>2
      <4>4. Of(o, q) = Of(o, g)
        BY <1>1, <4>1, <4>2, <4>3, Halves
      <4>5. o \notin C
        BY <2>1, <2>3, <4>4 DEF At
      <4>6. <<o - 1, Buddy(Of(o - 1, g))>> \in dirty
        BY <1>3, <4>1, <4>3, <4>5
      <4>7. PICK r \in Pages : Of(o - 1, r) = Buddy(Of(o - 1, g))
        BY <1>1, <4>6 DEF PageInv, BitsPlaced, At
      <4>8. r \in Nat /\ Of(o - 1, g) \in Nat
        BY <1>1, <4>3, OfNat
      <4>9. Of(o, r) = Of(o, p)
        BY <1>1, <2>3, <4>3, <4>4, <4>7, <4>8, Halves
      <4>10. Of(o - 1, r) # Of(o - 1, g)
        BY <4>7, <4>8, BuddyFacts
      <4>11. At(o - 1, r) \in dirty'
        BY <1>2, <4>6, <4>7, <4>10 DEF At
      <4>12. QED
        BY <4>9, <4>11
    <3>3. QED
      BY <3>1, <3>2
  <2>4. QED
    BY <2>1, <2>2, <2>3 DEF TreeInv, DirtyFrom
<1>5. QED
  BY <1>1, <1>4 DEF DirtyFrom, In

LEMMA TreeInit ==
  ASSUME Init, Room(n)
  PROVE  TreeInv
<1>1. PageInv
  BY PageInit
<1>2. saturated = {} /\ dirty = InitialDirty(n) /\ n \in Nat \ {0}
  BY <1>1, HeapFacts DEF Init, n, PageInv
<1>3. dirty = {At(o, n - 1) : o \in {p \in Orders(n) : n % BIT[p] # 0}}
  BY <1>2, InitialBits
<1>4. SatFrom /\ SatUp
  BY <1>2 DEF SatFrom, SatUp
<1>5. DirtyFrom
  <2>1. ASSUME NEW o \in Orders(n), NEW p \in Pages, At(o, p) \in dirty
        PROVE  n % BIT[o] # 0 /\ Of(o, p) = Of(o, n - 1)
    BY <1>3, <2>1 DEF At
  <2>2. QED
    BY <2>1 DEF DirtyFrom
<1>6. QED
  BY <1>1, <1>4, <1>5 DEF TreeInv

LEMMA TreeStep ==
  ASSUME EveryBitHasRoom, TreeInv, [Next]_vars
  PROVE  TreeInv'
<1>1. Room(n) /\ PageInv /\ PageInv'
  BY RoomHere, PageStep DEF PageInv, TreeInv
<1>2. CASE Next
  <2>1. ASSUME NEW pages \in Requests, get_free_pages(pages) PROVE TreeInv'
    <3>1. PICK t \in 0 .. 30, g \in Nat : Takes(t, g)
      BY <1>1, <2>1, Got
    <3>2. QED
      BY <1>1, <3>1, TakesSat, TakesDirtyFrom DEF TreeInv
  <2>2. ASSUME NEW b \in blocks, free_pages(b) PROVE TreeInv'
    <3>1. Gives(b)
      BY <1>1, <2>2, Freed
    <3>2. QED
      BY <1>1, <3>1, GivesSat, GivesDirtyFrom DEF TreeInv
  <2>3. QED
    BY <1>2, <2>1, <2>2 DEF Next
<1>3. CASE UNCHANGED vars
  <2>1. SatFrom' /\ SatUp' /\ DirtyFrom'
    BY <1>3 DEF vars, TreeInv, n, Pages, SatFrom, SatUp, DirtyFrom, In
  <2>2. QED
    BY <1>1, <2>1 DEF TreeInv
<1>4. QED
  BY <1>2, <1>3

LEMMA TreeInvariant ==
  ASSUME EveryBitHasRoom
  PROVE  Spec => []TreeInv
<1>1. Init => TreeInv
  BY RoomHere, TreeInit DEF Init
<1>2. TreeInv /\ [Next]_vars => TreeInv'
  BY TreeStep
<1>3. QED
  BY <1>1, <1>2, PTL DEF Spec

-----------------------------------------------------------------------------
(* When everything has come back.                                            *)

\* In a heap that its top order fills no block lacks pages.
LEMMA NoneLacks ==
  ASSUME PageInv, n = BIT[top(n)]
  PROVE  \A o \in Orders(n) : n % BIT[o] = 0
<1> SUFFICES ASSUME NEW o \in Orders(n), n % BIT[o] # 0 PROVE FALSE
  OBVIOUS
<1> DEFINE h == top(n)
           P == {k \in o .. h : n % BIT[k] # 0}
<1>1. n \in Nat \ {0} /\ h \in 0 .. 30 /\ o \in 0 .. 30 /\ o \in 0 .. h
  BY HeapOrders, OrderFacts
<1>2. n = BIT[h]
  OBVIOUS
<1> HIDE DEF h
<1>3. o \in P
  BY <1>1
<1>4. ASSUME NEW k \in o .. h - 1, k \in P PROVE k + 1 \in P
  <2>1. k \in 0 .. 29 /\ k + 1 \in o .. h
    BY <1>1
  <2>2. n % BIT[k + 1] # 0
    BY <1>1, <1>4, <2>1, LacksUp
  <2>3. QED
    BY <2>1, <2>2
<1>5. h \in P
  <2>1. o \in Nat /\ h \in Nat /\ h \in o .. h
    BY <1>1
  <2> HIDE DEF P
  <2>2. QED
    BY <1>3, <1>4, <2>1, Climb
<1>6. n % n # 0
  BY <1>2, <1>5
<1>7. QED
  BY <1>1, <1>6

LEMMA InvCoalesced ==
  ASSUME TreeInv
  PROVE  Coalesced
<1> SUFFICES ASSUME blocks = {} PROVE saturated = {} /\ (n = BIT[top(n)] => dirty = {})
  BY DEF Coalesced
<1>1. PageInv /\ SatFrom /\ DirtyFrom
  BY DEF TreeInv
<1>2. dirty \cup saturated \subseteq {At(o, p) : o \in Orders(n), p \in Pages}
  BY <1>1 DEF PageInv, BitsPlaced
<1>3. saturated = {}
  <2>1. ASSUME NEW o \in Orders(n), NEW p \in Pages, At(o, p) \in saturated PROVE FALSE
    BY <1>1, <2>1, SatTaken
  <2>2. QED
    BY <1>2, <2>1
<1>4. ASSUME n = BIT[top(n)] PROVE dirty = {}
  <2> DEFINE h == top(n)
             P == {k \in 0 .. h : \A p \in Pages : At(k, p) \notin dirty}
  <2>1. h \in 0 .. 30
    BY <1>1, HeapOrders
  <2>2. Orders(n) = 0 .. h
    BY <1>1, HeapOrders
  <2>3. \A o \in Orders(n) : n % BIT[o] = 0
    BY <1>1, <1>4, NoneLacks
  <2>4. ASSUME NEW k \in 0 .. h, NEW p \in Pages, At(k, p) \in dirty
        PROVE  k > 0 /\ \E q \in Pages : At(k - 1, q) \in dirty
    <3>1. k \in Orders(n)
      BY <2>2
    <3>2. QED
      BY <1>1, <2>3, <2>4, <3>1 DEF DirtyFrom
  <2> HIDE DEF h
  <2>5. 0 \in P
    <3>1. 0 \in 0 .. h /\ ~(0 > 0)
      BY <2>1
    <3>2. QED
      BY <2>4, <3>1
  <2>6. ASSUME NEW k \in 0 .. h - 1, k \in P PROVE k + 1 \in P
    <3>1. k + 1 \in 0 .. h /\ (k + 1) - 1 = k
      BY <2>1
    <3>2. \A p \in Pages : At(k + 1, p) \notin dirty
      BY <2>4, <2>6, <3>1
    <3>3. QED
      BY <3>1, <3>2
  <2>7. \A k \in 0 .. h : k \in P
    <3>1. h \in Nat
      BY <2>1
    <3> HIDE DEF P
    <3>2. QED
      BY <2>5, <2>6, <3>1, Climb
  <2>8. QED
    BY <1>2, <2>2, <2>7
<1>5. QED
  BY <1>3, <1>4

\* When every block has been given back no block is saturated, and in a heap that its top order
\* fills none is dirty: no block has been split for good (_free_pages2, page2.c:118).
THEOREM BlocksCoalesce ==
  ASSUME EveryBitHasRoom
  PROVE  Spec => []Coalesced
<1>1. TreeInv => Coalesced
  BY InvCoalesced
<1>2. QED
  BY <1>1, TreeInvariant, PTL

-----------------------------------------------------------------------------
(* While a page is free.                                                     *)

Spare == Pages \ Taken

LEMMA InTaken ==
  ASSUME PageInv, NEW p \in Nat
  PROVE  p \in Taken <=> \E b \in blocks : In(p, b)
BY PagesOfIn DEF Taken

\* A block of which all the pages are there and out, in blocks no larger than it, is saturated.
LEMMA FullSaturated ==
  ASSUME TreeInv, NEW o \in Orders(n), NEW p \in Pages,
         \A q \in Nat : Of(o, q) = Of(o, p) => q \in Pages \cap Taken,
         \A b \in blocks : In(p, b) => b.order <= o
  PROVE  At(o, p) \in saturated
<1> DEFINE full(k, q) == /\ \A r \in Nat : Of(k, r) = Of(k, q) => r \in Pages \cap Taken
                         /\ \A b \in blocks : In(q, b) => b.order <= k
           P == {k \in 0 .. top(n) : \A q \in Pages : full(k, q) => At(k, q) \in saturated}
<1>0. top(n) \in 0 .. 30
  BY HeapOrders DEF TreeInv
<1>1. Orders(n) = 0 .. top(n) /\ Pages \subseteq Nat /\ PageInv
  BY HeapOrders DEF TreeInv
\* A page in a block of the order has the block's bit.
<1>2. ASSUME NEW b \in blocks, NEW q \in Pages, In(q, b) PROVE At(b.order, q) \in saturated
  <2>1. At(b.order, q) = At(b.order, b.page)
    BY <1>2 DEF In, At
  <2>2. QED
    BY <2>1 DEF TreeInv, PageInv, Owned
<1>3. 0 \in P
  <2>1. ASSUME NEW q \in Pages, full(0, q) PROVE At(0, q) \in saturated
    <3>1. q \in Taken /\ q \in Nat
      BY <1>1, <2>1
    <3>2. PICK b \in blocks : In(q, b)
      BY <1>1, <3>1, InTaken
    <3>3. b.order <= 0 /\ b.order \in 0 .. 30
      BY <1>1, <2>1, <3>2, BlockFacts
    <3>4. b.order = 0
      BY <3>3
    <3>5. QED
      BY <1>2, <3>2, <3>4
  <2>2. 0 \in 0 .. top(n)
    BY <1>0
  <2> HIDE DEF full
  <2>3. QED
    BY <2>1, <2>2
<1>4. ASSUME NEW k \in 0 .. top(n) - 1, k \in P PROVE k + 1 \in P
  <2>1. k \in 0 .. 29 /\ k \in 0 .. 30 /\ k + 1 \in 0 .. 30 /\ k + 1 \in 0 .. top(n) /\ k \in 0 .. top(n)
    BY <1>0
  <2>2. ASSUME NEW q \in Pages, full(k + 1, q) PROVE At(k + 1, q) \in saturated
    <3>1. CASE \E b \in blocks : In(q, b) /\ b.order = k + 1
      BY <1>2, <3>1
    <3>2. CASE \A b \in blocks : In(q, b) => b.order # k + 1
      \* Both halves are full.
      <4>1. ASSUME NEW r \in Pages, Of(k + 1, r) = Of(k + 1, q) PROVE At(k, r) \in saturated
        <5>1. r \in Nat /\ q \in Nat
          BY <1>1
        <5>2. ASSUME NEW s \in Nat, Of(k, s) = Of(k, r) PROVE s \in Pages \cap Taken
          <6>1. k + 1 \in k .. 30
            BY <2>1
          <6>2. Of(k + 1, s) = Of(k + 1, q)
            BY <2>1, <4>1, <5>1, <5>2, <6>1, Together
          <6>3. QED
            BY <2>2, <6>2
        <5>3. ASSUME NEW b \in blocks, In(r, b) PROVE b.order <= k
          <6>1. b.order \in 0 .. 30
            BY <1>1, BlockFacts
          <6>2. CASE b.order >= k + 1
            <7>1. b.order \in (k + 1) .. 30
              BY <2>1, <6>1, <6>2
            <7>2. Of(b.order, r) = Of(b.order, q)
              BY <2>1, <4>1, <5>1, <7>1, Together
            <7>3. In(q, b)
              BY <5>3, <7>2 DEF In
            <7>4. b.order <= k + 1 /\ b.order # k + 1
              BY <2>2, <3>2, <7>3
            <7>5. QED
              BY <2>1, <6>1, <6>2, <7>4
          <6>3. QED
            BY <2>1, <6>1, <6>2
        <5>4. full(k, r)
          BY <5>2, <5>3
        <5> HIDE DEF full
        <5>5. QED
          BY <1>4, <5>4
      <4>2. q \in Nat /\ Of(k, q) \in Nat
        BY <1>1, <2>1, OfNat
      <4>3. Buddy(Of(k, q)) \in Nat
        BY <4>2, BuddyFacts
      <4> DEFINE r == Buddy(Of(k, q)) * BIT[k]
      <4>4. r \in Nat /\ Of(k, r) = Buddy(Of(k, q))
        BY <2>1, <4>3, OfFirst
      <4> HIDE DEF r
      <4>5. Of(k + 1, r) = Of(k + 1, q)
        BY <2>1, <4>2, <4>4, Halves
      <4>6. r \in Pages
        BY <2>2, <4>4, <4>5
      <4>7. At(k, r) \in saturated /\ At(k, q) \in saturated
        BY <4>1, <4>5, <4>6
      <4>8. k < top(n) /\ k \in Orders(n)
        <5>1. k < top(n)
          BY <1>0
        <5>2. k \in Orders(n)
          BY <1>1, <2>1
        <5>3. QED
          BY <5>1, <5>2
      <4>9. {At(k, q), <<k, Buddy(Of(k, q))>>} \subseteq saturated
        BY <4>4, <4>7 DEF At
      <4>10. QED
        BY <4>8, <4>9 DEF TreeInv, SatUp
    <3>3. QED
      BY <3>1, <3>2
  <2> HIDE DEF full
  <2>3. QED
    BY <2>1, <2>2
<1>5. \A k \in 0 .. top(n) : k \in P
  <2>1. top(n) \in Nat
    BY <1>0
  <2> HIDE DEF P
  <2>2. QED
    BY <1>3, <1>4, <2>1, Climb
<1>6. full(o, p)
  OBVIOUS
<1> HIDE DEF full
<1>7. QED
  BY <1>1, <1>5, <1>6

\* The search's candidates, by pages.
LEMMA CandidateAt ==
  ASSUME PageInv, Room(n), NEW o \in Orders(n), NEW p \in Pages
  PROVE  Candidate(n, dirty, saturated, o, 0, Of(o, p))
           <=> At(o, p) \notin saturated /\ (o = 0 => At(o, p) \notin dirty)
<1>1. n \in Nat \ {0} /\ Pages = 0 .. n - 1
  BY HeapOrders
<1>2. Of(o, p) \in 0 .. buddy_order_bits(n, o) - 1 /\ buddy_order_bits(n, o) \in Nat
  BY <1>1, BitsOf
<1>3. Of(o, p) \in Nat /\ Of(o, p) < buddy_order_bits(n, o)
  BY <1>2
<1>4. Place(n, o, Of(o, p)) = At(o, p)
  BY <1>1, <1>3, Placed DEF At
<1>5. QED
  BY <1>4 DEF Candidate

\* A block with a free page is a candidate.
LEMMA SpareCandidate ==
  ASSUME TreeInv, Room(n), NEW p \in Spare, NEW o \in Orders(n)
  PROVE  Candidate(n, dirty, saturated, o, 0, Of(o, p))
<1>1. PageInv /\ p \in Pages /\ p \in Nat /\ \A b \in blocks : ~In(p, b)
  BY HeapOrders, InTaken DEF TreeInv, Spare
<1>2. At(o, p) \notin saturated
  BY <1>1, SatTaken DEF TreeInv
<1>3. ASSUME o = 0 PROVE At(o, p) \notin dirty
  <2>1. n \in Nat /\ BIT[0] = 1
    BY <1>1, HeapOrders, Powers
  <2>2. n % BIT[0] = 0
    BY <2>1
  <2>3. ~(0 > 0)
    OBVIOUS
  <2>4. QED
    BY <1>1, <1>3, <2>2, <2>3 DEF TreeInv, DirtyFrom
<1>4. QED
  BY <1>1, <1>2, <1>3, CandidateAt

\* A block before that of a free page, and in the same one above, is all there: if the search
\* would take it, it has a free page too.
LEMMA SpareBefore ==
  ASSUME TreeInv, Room(n), NEW p \in Spare, NEW k \in Orders(n), NEW c \in Nat, c < Of(k, p),
         k < top(n) => c \div 2 = Of(k, p) \div 2,
         Candidate(n, dirty, saturated, k, 0, c)
  PROVE  \E q \in Spare : Of(k, q) = c
<1> DEFINE l == c * BIT[k]
<1>1. /\ PageInv /\ p \in Pages /\ p \in Nat /\ Pages = 0 .. n - 1 /\ n \in Nat
      /\ \A b \in blocks : ~In(p, b)
  BY HeapOrders, InTaken DEF TreeInv, Spare
<1>2. k \in 0 .. 30 /\ top(n) \in 0 .. 30
  BY <1>1, HeapOrders
<1>3. l \in Nat /\ Of(k, l) = c
  BY <1>2, OfFirst
<1>4. ASSUME NEW q \in Nat, Of(k, q) = c PROVE q \in Pages
  <2> DEFINE d == BIT[k]
             x == Of(k, p)
  <2>1. d \in Nat \ {0} /\ q < d * c + d /\ x \in Nat /\ d * x <= p
    BY <1>1, <1>2, <1>4, OfNat
  <2>2. c < x
    OBVIOUS
  <2> HIDE DEF d, x
  <2>3. x - c - 1 \in Nat
    BY <2>1, <2>2
  <2>4. d * x = d * c + d + d * (x - c - 1) /\ d * (x - c - 1) \in Nat /\ d * c \in Nat
    BY <2>1, <2>3
  <2>5. q < n
    BY <1>1, <2>1, <2>4
  <2>6. QED
    BY <1>1, <2>5
<1> HIDE DEF l
<1>5. l \in Pages
  BY <1>3, <1>4
<1>6. ASSUME NEW b \in blocks, In(l, b) PROVE b.order <= k
  <2>1. b.order \in 0 .. 30 /\ b.order \in 0 .. top(n)
    BY <1>1, BlockFacts
  <2>2. CASE b.order > k
    <3>1. k < top(n) /\ k \in 0 .. 29 /\ b.order \in (k + 1) .. 30 /\ k + 1 \in 0 .. 30
      BY <1>2, <2>1, <2>2
    <3>2. Of(k + 1, l) = Of(k + 1, p)
      BY <1>1, <1>3, <3>1, OfUp
    <3>3. Of(b.order, l) = Of(b.order, p)
      BY <1>1, <1>3, <3>1, <3>2, Together
    <3>4. In(p, b)
      BY <1>6, <3>3 DEF In
    <3>5. QED
      BY <1>1, <3>4
  <2>3. QED
    BY <1>2, <2>1, <2>2
<1>7. At(k, l) \notin saturated
  BY <1>1, <1>3, <1>5, CandidateAt
<1>8. ~ \A q \in Nat : Of(k, q) = Of(k, l) => q \in Pages \cap Taken
  BY <1>5, <1>6, <1>7, FullSaturated
<1>9. QED
  BY <1>3, <1>4, <1>8 DEF Spare

\* The search takes the block of order k that page p is in, if it came to the one above.
First(k, p) ==
  /\ Candidate(n, dirty, saturated, k, 0, Of(k, p))
  /\ \A c \in Tried(n, k, Of(k, p)) : ~Candidate(n, dirty, saturated, k, 0, c)

LEMMA FirstSpare ==
  ASSUME TreeInv, Room(n), NEW p \in Spare, NEW k \in Orders(n)
  PROVE  \E q \in Spare : First(k, q) /\ (k < top(n) => Of(k + 1, q) = Of(k + 1, p))
<1> DEFINE x == Of(k, p)
           Good(c) == Candidate(n, dirty, saturated, k, 0, c)
           T == {c \in Tried(n, k, x) : Good(c)}
<1>1. k \in 0 .. 30 /\ top(n) \in 0 .. 30 /\ Spare \subseteq Nat /\ PageInv /\ p \in Nat
  BY HeapOrders DEF TreeInv, Spare
<1>2. x \in Nat
  BY <1>1, OfNat
<1>3. Good(x)
  BY SpareCandidate
<1>4. Tried(n, k, x) = (IF k = top(n) THEN 0 ELSE 2 * (x \div 2)) .. x - 1
  BY DEF Tried
<1> HIDE DEF x, Good
<1>5. \A c \in Tried(n, k, x) : c \in Nat /\ c < x /\ (k # top(n) => c \div 2 = x \div 2)
  BY <1>2, <1>4
<1>6. CASE T = {}
  <2>1. First(k, p)
    BY <1>3, <1>6 DEF First, Good, x
  <2>2. QED
    BY <2>1
<1>7. CASE T # {}
  <2>1. T \subseteq Nat
    BY <1>5
  <2>2. PICK c \in T : \A y \in T : c <= y
    <3> HIDE DEF T
    <3> QED
      BY <1>7, <2>1, LeastNatural
  <2>3. /\ c \in Tried(n, k, x) /\ Good(c) /\ c \in Nat /\ c < x
        /\ (k # top(n) => c \div 2 = x \div 2)
    BY <1>5, <2>2
  <2>4. k < top(n) => k # top(n)
    BY <1>1
  <2>5. PICK q \in Spare : Of(k, q) = c
    BY <2>3, <2>4, SpareBefore DEF x, Good
  <2>6. \A y \in Tried(n, k, c) : y \in Tried(n, k, x) /\ y < c /\ y \in Nat
    <3>1. Tried(n, k, c) = (IF k = top(n) THEN 0 ELSE 2 * (c \div 2)) .. c - 1
      BY DEF Tried
    <3>2. CASE k = top(n)
      BY <1>2, <1>4, <2>3, <3>1, <3>2
    <3>3. CASE k # top(n)
      BY <1>2, <1>4, <2>3, <3>1, <3>3
    <3>4. QED
      BY <3>2, <3>3
  <2>7. ASSUME NEW y \in Tried(n, k, c), Good(y) PROVE FALSE
    <3>1. y \in T /\ y < c /\ y \in Nat
      BY <2>6, <2>7
    <3>2. c <= y
      <4> HIDE DEF T
      <4> QED
        BY <2>2, <3>1
    <3>3. QED
      BY <2>3, <3>1, <3>2
  <2>8. First(k, q)
    BY <2>3, <2>5, <2>7 DEF First, Good
  <2>9. ASSUME k < top(n) PROVE Of(k + 1, q) = Of(k + 1, p)
    <3>1. k \in 0 .. 29 /\ q \in Nat
      BY <1>1, <2>9
    <3>2. Of(k + 1, q) = c \div 2 /\ Of(k + 1, p) = x \div 2
      BY <1>1, <2>5, <3>1, OfUp DEF x
    <3>3. QED
      BY <2>3, <2>4, <2>9, <3>2
  <2>10. QED
    BY <2>8, <2>9
<1>8. QED
  BY <1>6, <1>7

LEMMA FirstTogether ==
  ASSUME PageInv, NEW k \in Orders(n), NEW p \in Nat, NEW q \in Nat, Of(k, p) = Of(k, q)
  PROVE  \A o \in k .. top(n) : First(o, p) <=> First(o, q)
<1>1. k \in 0 .. 30 /\ top(n) \in 0 .. 30
  BY HeapOrders
<1>2. ASSUME NEW o \in k .. top(n) PROVE Of(o, p) = Of(o, q)
  <2>1. o \in k .. 30
    BY <1>1
  <2>2. QED
    BY <1>1, <2>1, Together
<1>3. QED
  BY <1>2 DEF First

\* The search for one page ends at a free one.
LEMMA PathToSpare ==
  ASSUME TreeInv, Room(n), Spare # {}
  PROVE  \E p \in Spare : \A o \in 0 .. top(n) : First(o, p)
<1> DEFINE h == top(n)
           leads(k) == \E p \in Spare : \A o \in k .. h : First(o, p)
           P == {j \in 0 .. h : leads(h - j)}
<1>1. h \in 0 .. 30
  BY HeapOrders DEF TreeInv
<1>2. PageInv /\ Spare \subseteq Nat
  BY HeapOrders DEF TreeInv, Spare
<1>3. \A k \in 0 .. h : k \in Orders(n)
  BY <1>2, HeapOrders
<1>4. ASSUME NEW k \in 0 .. h, NEW p \in Spare, \A o \in k + 1 .. h : First(o, p)
      PROVE  leads(k)
  <2>1. PICK q \in Spare : First(k, q) /\ (k < h => Of(k + 1, q) = Of(k + 1, p))
    BY <1>3, FirstSpare
  <2>2. ASSUME NEW o \in k .. h PROVE First(o, q)
    <3>1. CASE o = k
      BY <2>1, <3>1
    <3>2. CASE o # k
      <4>1. o \in k + 1 .. h /\ k < h /\ k + 1 \in 0 .. h
        BY <1>1, <3>2
      <4>2. Of(k + 1, q) = Of(k + 1, p) /\ k + 1 \in Orders(n) /\ q \in Nat /\ p \in Nat
        BY <1>2, <1>3, <2>1, <4>1
      <4>3. First(o, q) <=> First(o, p)
        BY <1>2, <4>1, <4>2, FirstTogether
      <4>4. QED
        BY <1>4, <4>1, <4>3
    <3>3. QED
      BY <3>1, <3>2
  <2>3. QED
    BY <2>2
<1> HIDE DEF h
<1>5. 0 \in P
  <2>1. PICK p \in Spare : TRUE
    OBVIOUS
  <2>2. h \in 0 .. h /\ h + 1 .. h = {} /\ 0 \in 0 .. h /\ h - 0 = h
    BY <1>1
  <2> HIDE DEF leads
  <2>3. leads(h)
    BY <1>4, <2>2
  <2>4. QED
    BY <2>2, <2>3
<1>6. ASSUME NEW j \in 0 .. h - 1, j \in P PROVE j + 1 \in P
  <2> DEFINE k == h - (j + 1)
  <2>1. k \in 0 .. h /\ k + 1 = h - j /\ j + 1 \in 0 .. h
    BY <1>1
  <2>2. PICK p \in Spare : \A o \in h - j .. h : First(o, p)
    BY <1>6
  <2> HIDE DEF k
  <2>3. \A o \in k + 1 .. h : First(o, p)
    BY <2>1, <2>2
  <2> HIDE DEF leads
  <2>4. leads(k)
    BY <1>4, <2>1, <2>3
  <2>5. QED
    BY <2>1, <2>4 DEF k
<1>7. h \in P
  <2>1. h \in Nat /\ 0 \in Nat /\ h \in 0 .. h
    BY <1>1
  <2> HIDE DEF P
  <2>2. QED
    BY <1>5, <1>6, <2>1, Climb
<1>8. leads(0)
  <2>1. h - h = 0
    BY <1>1
  <2>2. QED
    BY <1>7, <2>1
<1>9. QED
  BY <1>8 DEF h

LEMMA InvServed ==
  ASSUME TreeInv, Room(n)
  PROVE  SinglePageServed
<1> SUFFICES ASSUME Spare # {}
             PROVE  buddy_search_unsaturated(n, dirty, saturated, 0) # NONE
  BY DEF SinglePageServed, Spare, Pages, Taken
<1> DEFINE found == {b \in 0 .. buddy_order_bits(n, 0) - 1 : Found(n, dirty, saturated, 0, b)}
<1>0. top(n) \in 0 .. 30 /\ 0 \in 0 .. top(n)
  <2>1. top(n) \in 0 .. 30
    BY HeapOrders DEF TreeInv
  <2>2. QED
    BY <2>1
<1>1. /\ PageInv /\ n \in Nat \ {0} /\ Pages = 0 .. n - 1 /\ Pages \subseteq Nat
      /\ 0 \in Orders(n)
  BY <1>0, HeapOrders DEF TreeInv
<1>2. PICK p \in Spare : \A o \in 0 .. top(n) : First(o, p)
  BY PathToSpare
<1>3. p \in Pages /\ p \in Nat /\ 0 \in Orders(n)
  BY <1>1 DEF Spare
<1>4. Of(0, p) = p
  <2>1. BIT[0] = 1
    BY Powers
  <2>2. QED
    BY <1>3, <2>1 DEF Of
<1>5. p \in 0 .. buddy_order_bits(n, 0) - 1
  BY <1>1, <1>3, <1>4, BitsOf
<1>6. \A o \in 0 .. top(n) : Ancestor(0, p, o) = Of(o, p)
  <2>1. \A o \in 0 .. 30 : Ancestor(0, Of(0, p), o) = Of(o, p)
    BY <1>3, AncestorOf
  <2>2. \A o \in 0 .. top(n) : o \in 0 .. 30
    BY <1>0
  <2>3. QED
    BY <1>4, <2>1, <2>2
<1>7. Found(n, dirty, saturated, 0, p)
  BY <1>2, <1>6 DEF Found, First
<1>8. p \in found
  BY <1>5, <1>7
<1>9. found \subseteq Nat
  OBVIOUS
<1>10. buddy_search_unsaturated(n, dirty, saturated, 0)
         = IF 0 > top(n) \/ found = {} THEN NONE ELSE CHOOSE b \in found : TRUE
  BY DEF buddy_search_unsaturated
<1> HIDE DEF found
<1>11. ~(0 > top(n))
  BY <1>0
<1>12. buddy_search_unsaturated(n, dirty, saturated, 0) \in Nat
  BY <1>8, <1>9, <1>10, <1>11
<1>13. QED
  BY <1>12, BuddyAssumption

\* While a page of the heap is free the search for one page finds one, though it never comes back
\* to try the next block of an order (buddy_search_unsaturated, buddy_alloc.c:225).
THEOREM PageServed ==
  ASSUME EveryBitHasRoom
  PROVE  Spec => []SinglePageServed
<1>1. TreeInv => SinglePageServed
  <2> SUFFICES ASSUME TreeInv PROVE SinglePageServed
    OBVIOUS
  <2>1. Room(n)
    BY RoomHere DEF TreeInv, PageInv
  <2>2. QED
    BY <2>1, InvServed
<1>2. QED
  BY <1>1, TreeInvariant, PTL
=============================================================================
