----------------------------- MODULE BuddyAlloc -----------------------------
(***************************************************************************)
(* The bitmaps of the buddy allocator (src/src/kernel/lib/alloc/           *)
(* buddy_alloc.c).  Order o has a bit for each block of 2^o pages, in two  *)
(* bitmaps: `dirty' if some page of the block is allocated, `saturated' if *)
(* none is free.  The bitmaps of all orders lie one after the other in     *)
(* one array of words; here each is the set of the places of its one bits. *)
(***************************************************************************)
EXTENDS Integers, FiniteSets, Bits

CONSTANTS
  NONE,          \* WORD_T_MAX, the search's answer when it finds no block
  WORD_T_BITS    \* the width of a word

ASSUME BuddyAssumption ==
  /\ WORD_T_BITS \in Nat \ {0} /\ WORD_T_BITS % 2 = 0
  /\ NONE \notin Nat

\* The orders of a heap of n pages: the top one is the last with a whole block.  There are at
\* most 31 (buddy_alloc.c:50).
Orders(n)  == {o \in 0 .. 30 : BIT[o] <= n}
top(n)     == CHOOSE o \in Orders(n) : \A p \in Orders(n) : p <= o

\* The number of words of an order rounds the number of its whole blocks up; the bit of
\* a last block that is only partly there is not counted.
_determine_buddy_order_size(n, order) ==
  ((n \div BIT[order] + WORD_T_BITS - 1) \div WORD_T_BITS) * WORD_T_BITS

buddy_order_bits(n, order) == n \div BIT[order] + (IF n % BIT[order] = 0 THEN 0 ELSE 1)

\* Where a bit is: the bitmap of an order begins where the one below it ends, so a bit past
\* the words of its order is a bit of the next.
Place(n, order, bit) ==
  LET size == _determine_buddy_order_size(n, order)
  IN  IF bit < size THEN <<order, bit>> ELSE <<order + 1, bit - size>>

\* A heap's last block of an order may lack pages: it is dirty from the start.
InitialDirty(n) ==
  {Place(n, o, n \div BIT[o]) : o \in {p \in Orders(n) : n % BIT[p] # 0}}

\* The block of order o >= order that contains block `bit' of order `order'.
Ancestor(order, bit, o) == bit \div BIT[o - order]

Ancestors(n, order, bit) ==
  {Place(n, o, Ancestor(order, bit, o)) : o \in {p \in Orders(n) : p >= order}}

\* The two bits of _twin_mask_from_shift, in the word of the bit they are for.
Twins(n, order, bit) == {Place(n, order, 2 * (bit \div 2)), Place(n, order, 2 * (bit \div 2) + 1)}

buddy_set_dirty(n, dirty, order, bit) == dirty \cup Ancestors(n, order, bit)

buddy_clear_saturated(n, saturated, order, bit) == saturated \ Ancestors(n, order, bit)

\* Mutants: the twin is not looked at; only the first order is cleared.
buddy_clear_dirty_All(n, dirty, order, bit)   == dirty \ Ancestors(n, order, bit)
buddy_clear_dirty_First(n, dirty, order, bit) == dirty \ {Place(n, order, bit)}

\* Clear upwards until a twin is dirty: the loop goes on to an order if it left none at those
\* below.
buddy_clear_dirty(n, dirty, order, bit) ==
  LET place(o)  == Place(n, o, Ancestor(order, bit, o))
      left(o)   == dirty \ {place(p) : p \in order .. o}
      goesTo(o) == \A p \in order .. o - 1 : Twins(n, p, Ancestor(order, bit, p)) \cap left(p) = {}
  IN  dirty \ {place(o) : o \in {p \in order .. top(n) : goesTo(p)}}

\* Mutant: the twin is not looked at.
buddy_set_saturated_All(n, saturated, order, bit) == saturated \cup Ancestors(n, order, bit)

\* Set upwards until a twin is not saturated.
buddy_set_saturated(n, saturated, order, bit) ==
  LET place(o)  == Place(n, o, Ancestor(order, bit, o))
      full(o)   == saturated \cup {place(p) : p \in order .. o}
      goesTo(o) == \A p \in order .. o - 1 : Twins(n, p, Ancestor(order, bit, p)) \subseteq full(p)
  IN  saturated \cup {place(o) : o \in {p \in order .. top(n) : goesTo(p)}}

\* Mutant: a block with allocated pages is as good as a free one.
Candidate_AnyUnsaturated(n, dirty, saturated, order, target, bit) ==
  Place(n, order, bit) \notin saturated

\* Above the target order any block with a free page will do; there, a free one.
Candidate(n, dirty, saturated, order, target, bit) ==
  /\ Place(n, order, bit) \notin saturated
  /\ order = target => Place(n, order, bit) \notin dirty

\* The blocks of an order that the search tries before a block: all of the top order, and
\* below it the other half of the block it comes from.
Tried(n, order, bit) == (IF order = top(n) THEN 0 ELSE 2 * (bit \div 2)) .. bit - 1

\* From the top order down: the first candidate among the top blocks, then among the two
\* halves of the block found.  It never comes back to try the next block of an order, so it
\* ends at the block that is first, and within a first block, all the way up.
Found(n, dirty, saturated, target, bit) ==
  \A o \in target .. top(n) :
    LET a == Ancestor(target, bit, o)
    IN  /\ Candidate(n, dirty, saturated, o, target, a)
        /\ \A c \in Tried(n, o, a) : ~Candidate(n, dirty, saturated, o, target, c)

buddy_search_unsaturated(n, dirty, saturated, target) ==
  LET found == {b \in 0 .. buddy_order_bits(n, target) - 1 : Found(n, dirty, saturated, target, b)}
  IN  IF target > top(n) \/ found = {} THEN NONE ELSE CHOOSE b \in found : TRUE
=============================================================================
