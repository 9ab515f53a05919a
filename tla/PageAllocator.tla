--------------------------- MODULE PageAllocator ---------------------------
(***************************************************************************)
(* What memory/page.h promises its callers: get_free_pages hands out a     *)
(* block of pages of which nobody has any, or nothing at all; free_pages   *)
(* takes back the pages that were handed out, and no others; and           *)
(* get_total_pages_allocated counts what is out.  Nothing is said of how   *)
(* a block is found, nor of when the allocator gives up.                   *)
(***************************************************************************)
EXTENDS Integers, Bits

VARIABLES
  heap,     \* the pages there are to hand out
  held,     \* the blocks handed out: [page, order]
  total     \* get_total_pages_allocated

PagesOf(b) == b.page .. b.page + BIT[b.order] - 1

Held == UNION {PagesOf(b) : b \in held}

Init == heap \subseteq Nat /\ held = {} /\ total = 0

Get ==
  \E page \in heap, order \in DOMAIN BIT :
    LET b == [page |-> page, order |-> order]
    IN  /\ PagesOf(b) \subseteq heap \ Held
        /\ held' = held \cup {b}
        /\ total' = total + BIT[order]
        /\ UNCHANGED heap

Free ==
  \E b \in held :
    /\ held' = held \ {b}
    /\ total' = total - BIT[b.order]
    /\ UNCHANGED heap

Spec == Init /\ [][Get \/ Free]_<<heap, held, total>>
=============================================================================
