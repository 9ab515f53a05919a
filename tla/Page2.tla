-------------------------------- MODULE Page2 --------------------------------
(***************************************************************************)
(* The page allocator (src/src/kernel/memory/page2.c): get_free_pages and  *)
(* free_pages over the bitmaps of BuddyAlloc.  `blocks' is what the        *)
(* callers have: the kernel keeps no list of what it handed out, and finds *)
(* the size of a block that comes back in the dirty bits.                  *)
(***************************************************************************)
EXTENDS BuddyAlloc

CONSTANTS
  Sizes,     \* the numbers of pages the heap may have
  Requests   \* the numbers of pages callers ask for

\* Nobody asks for more pages than the highest order has.
ASSUME PageAssumption == Sizes \subseteq Nat \ {0} /\ Requests \subseteq 0 .. BIT[30]

VARIABLES
  order_0_bits,           \* the number of pages of the heap
  dirty,
  saturated,
  total_pages_allocated,
  blocks                  \* the blocks handed out: [page, order]

vars == <<order_0_bits, dirty, saturated, total_pages_allocated, blocks>>

n == order_0_bits

PagesOf(b) == b.page .. b.page + BIT[b.order] - 1

-----------------------------------------------------------------------------
\* get_free_page_setup, once the bitmaps themselves have been taken from the boot pages.
Init ==
  /\ order_0_bits \in Sizes
  /\ dirty = InitialDirty(order_0_bits)
  /\ saturated = {}
  /\ total_pages_allocated = 0
  /\ blocks = {}

_pages_order(pages) ==
  CHOOSE o \in 0 .. 30 : BIT[o] >= pages /\ \A p \in 0 .. o - 1 : BIT[p] < pages

\* A search that finds nothing changes nothing, and the caller gets a null pointer.
get_free_pages(pages) ==
  LET order == _pages_order(pages)
      bit   == buddy_search_unsaturated(n, dirty, saturated, order)
  IN  /\ bit # NONE
      /\ saturated' = buddy_set_saturated(n, saturated, order, bit)
      /\ dirty' = buddy_set_dirty(n, dirty, order, bit)
      /\ total_pages_allocated' = total_pages_allocated + BIT[order]
      /\ blocks' = blocks \cup {[page |-> bit * BIT[order], order |-> order]}
      /\ UNCHANGED order_0_bits

\* Mutant: the lowest such order.
_determine_allocated_page_order_Lowest(page) ==
  LET orders == {o \in Orders(n) \ {0} : Place(n, o - 1, page \div BIT[o - 1]) \notin dirty}
  IN  IF orders = {} THEN 0 ELSE CHOOSE o \in orders : \A p \in orders : p >= o

\* Mutant: the page number is not shifted.
_determine_allocated_page_order_Unshifted(page) ==
  LET orders == {o \in Orders(n) \ {0} : Place(n, o - 1, page) \notin dirty}
  IN  IF orders = {} THEN 0 ELSE CHOOSE o \in orders : \A p \in orders : p <= o

\* The highest order whose lower neighbour is clean at this page.
_determine_allocated_page_order(page) ==
  LET orders == {o \in Orders(n) \ {0} : Place(n, o - 1, page \div BIT[o - 1]) \notin dirty}
  IN  IF orders = {} THEN 0 ELSE CHOOSE o \in orders : \A p \in orders : p <= o

\* The number of pages that free_pages is told is ignored.
free_pages(b) ==
  LET order == _determine_allocated_page_order(b.page)
      bit   == b.page \div BIT[order]
  IN  /\ saturated' = buddy_clear_saturated(n, saturated, order, bit)
      /\ dirty' = buddy_clear_dirty(n, dirty, order, bit)
      /\ total_pages_allocated' = total_pages_allocated - BIT[order]
      /\ blocks' = blocks \ {b}
      /\ UNCHANGED order_0_bits

Next ==
  \/ \E pages \in Requests : get_free_pages(pages)
  \/ \E b \in blocks : free_pages(b)

Spec == Init /\ [][Next]_vars

-----------------------------------------------------------------------------
\* Every bit that is set lies within the bitmaps of the orders: set_dirty and set_saturated
\* (buddy_alloc.c:157-211) index their words by a bit number that nothing checks.
TypeOK ==
  /\ order_0_bits \in Sizes
  /\ \A place \in dirty \cup saturated :
       /\ place[1] \in Orders(n)
       /\ place[2] \in 0 .. _determine_buddy_order_size(n, place[1]) - 1
  /\ total_pages_allocated \in Nat
  /\ \A b \in blocks : b.page \in Nat /\ b.order \in Orders(n)

\* No page is given to two callers (page.h:12, "free pages").
Disjoint == \A b, c \in blocks : b # c => PagesOf(b) \cap PagesOf(c) = {}

\* No block reaches past the end of the heap (page2.c:77 turns its number into an address).
InHeap == \A b \in blocks : PagesOf(b) \subseteq 0 .. n - 1

\* InHeap, for a heap that its top order fills.
InWholeHeap == n = BIT[top(n)] => InHeap

\* The order that free_pages would find for a block is the order it was allocated with, however
\* the blocks around it have come and gone.
RightOrder == \A b \in blocks : _determine_allocated_page_order(b.page) = b.order

\* As long as a page is free, get_free_page finds one: the search goes down the first unsaturated
\* block of each order and never comes back, so an unsaturated block must have a free page.
SinglePageServed ==
  (0 .. n - 1) \ UNION {PagesOf(b) : b \in blocks} # {}
    => buddy_search_unsaturated(n, dirty, saturated, 0) # NONE

\* When everything has been given back, the saturated bits are as they were at the start, and in a
\* heap that its top order fills so are the dirty bits: no block has been split for good.
Coalesced ==
  blocks = {} => /\ saturated = {}
                 /\ n = BIT[top(n)] => dirty = {}

\* The blocks that the top order's bits stand for.
Reach == 0 .. buddy_order_bits(n, top(n)) * BIT[top(n)] - 1

\* get_free_pages and free_pages are what page.h promises, over those pages.
Promise == INSTANCE PageAllocator WITH heap <- Reach, held <- blocks, total <- total_pages_allocated
PromiseKept == Promise!Spec
=============================================================================
