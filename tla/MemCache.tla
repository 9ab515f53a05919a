------------------------------ MODULE MemCache ------------------------------
(***************************************************************************)
(* Object caches and kmalloc (src/src/kernel/memory/mem_cache.c,           *)
(* kmalloc.c).  A cache cuts slabs of one page into chunks of one size and *)
(* keeps the slabs in three lists, by how many of their chunks are out;    *)
(* the descriptors of the slabs themselves fill pages that are never given *)
(* back.  kmalloc has a cache for each of a row of sizes, made when the    *)
(* size is first asked for.                                                *)
(*                                                                         *)
(* All of it is a record, `heap', that each operation takes and returns:   *)
(*   pages    the free pages of the page allocator (page2.c, of which here *)
(*            only get_free_page: the lowest free page, if there is one)   *)
(*   caches   the caches of kmalloc: pool -> [free, partial, full], each a *)
(*            list of slabs; a pool is not in the domain before its cache  *)
(*            is made                                                      *)
(*   slab     the descriptors: slab -> [page, bitmap, allocated_chunks]    *)
(* An address is a page and an offset into it; the unit is the smallest    *)
(* chunk.  No lock is taken anywhere here.                                 *)
(***************************************************************************)
EXTENDS Integers, Sequences, FiniteSets, SequencesExt

CONSTANTS
  PAGE_SIZE,        \* in units of the smallest chunk
  chunk_size,       \* _pools: the chunk size of each pool, in the order of the array
  SLABS_PER_PAGE,   \* descriptors in a page
  caches_total,     \* caches the root page has room for
  NULL

ASSUME MemCacheAssumption ==
  /\ PAGE_SIZE \in Nat \ {0} /\ SLABS_PER_PAGE \in Nat \ {0} /\ caches_total \in Nat
  /\ chunk_size \in Seq(Nat \ {0})
  /\ \A i \in DOMAIN chunk_size : PAGE_SIZE % chunk_size[i] = 0
  /\ NULL \notin Nat /\ NULL \notin [page : Nat, offset : Nat]

Pools     == DOMAIN chunk_size
Chunks(c) == 0 .. (PAGE_SIZE \div chunk_size[c]) - 1
Slab      == [page : Nat, nr : 1 .. SLABS_PER_PAGE]     \* where a descriptor lies

Lowest(S) == CHOOSE x \in S : \A y \in S : x <= y

\* The function f with x mapped to e.
With(f, x, e) == [y \in DOMAIN f \cup {x} |-> IF y = x THEN e ELSE f[y]]

CHUNKS_PER_SLAB(c) == PAGE_SIZE \div chunk_size[c]

\* get_free_page and free_page.  The caller looks for a free page first.
TakePage(h)    == [h EXCEPT !.pages = @ \ {Lowest(@)}]
GivePage(h, p) == [h EXCEPT !.pages = @ \cup {p}]

-----------------------------------------------------------------------------
(* mem_cache_alloc *)

\* The descriptors of a fresh page, linked in the order they lie in it.
NewSlabs(p) == [nr \in 1 .. SLABS_PER_PAGE |-> [page |-> p, nr |-> nr]]

\* A page of descriptors, all zero (GFP_ZERO): no page, no chunk allocated.
_more_slabs(h, c) ==
  IF h.pages = {} THEN h
  ELSE LET new == NewSlabs(Lowest(h.pages))
       IN  [TakePage(h) EXCEPT
              !.caches[c].free = new,
              !.slab = [s \in Range(new) \cup DOMAIN @ |->
                          IF s \in Range(new)
                          THEN [page |-> NULL, bitmap |-> {}, allocated_chunks |-> 0] ELSE @[s]]]

\* Mutant: one page more is asked for than a slab has.
PluckFree_TwoPages(h, c) ==
  LET s == Head(h.caches[c].free)
  IN  IF Cardinality(h.pages) < 2 THEN h
      ELSE [TakePage(h) EXCEPT !.slab[s].page = Lowest(h.pages),
                               !.caches[c].free = Tail(@), !.caches[c].partial = <<s>>]

\* The head of the free list gets a page, if it has none; with it, it becomes the only
\* partly allocated slab.  Without a page nothing moves.
GetPage(h, s) ==
  IF h.slab[s].page # NULL \/ h.pages = {} THEN h
  ELSE [TakePage(h) EXCEPT !.slab[s].page = Lowest(h.pages)]
MoveToPartial(h, c, s) ==
  IF h.slab[s].page = NULL THEN h
  ELSE [h EXCEPT !.caches[c].free = Tail(@), !.caches[c].partial = <<s>>]
PluckFree(h, c) ==
  MoveToPartial(GetPage(h, Head(h.caches[c].free)), c, Head(h.caches[c].free))

\* __find_unallocated: the first of the partly allocated slabs that has a chunk, and its
\* first free chunk.
SlabWithRoom(h, c) ==
  SelectInSeq(h.caches[c].partial, LAMBDA s : h.slab[s].bitmap # Chunks(c))
FreeChunk(h, c, s) == Lowest(Chunks(c) \ h.slab[s].bitmap)

\* Mutant: the number of the chunk is not scaled by its size.
ChunkAddress_Unscaled(h, c, s, b) == [page |-> h.slab[s].page, offset |-> b]

\* Mark it; a slab with nothing left moves to the head of the full ones.
MoveIfFull(h, c, i, s) ==
  IF h.slab[s].allocated_chunks # CHUNKS_PER_SLAB(c) THEN h
  ELSE [h EXCEPT !.caches[c].partial = RemoveAt(@, i), !.caches[c].full = <<s>> \o @]
MarkChunk(h, c, i, s, b) ==
  MoveIfFull([h EXCEPT !.slab[s].bitmap = @ \cup {b}, !.slab[s].allocated_chunks = @ + 1],
             c, i, s)

ChunkAddress(h, c, s, b) == [page |-> h.slab[s].page, offset |-> b * chunk_size[c]]

\* The three steps: descriptors, when both lists are empty; a partly allocated slab, when
\* there is none; a chunk of it.  The heap afterwards and the address, or NULL.
WithSlabs(h, c) ==
  IF h.caches[c].free = <<>> /\ h.caches[c].partial = <<>> THEN _more_slabs(h, c) ELSE h
WithPartial(h, c) ==
  IF h.caches[c].partial # <<>> \/ h.caches[c].free = <<>> THEN h ELSE PluckFree(h, c)
WithChunk(h, c) ==
  IF h.caches[c].partial = <<>> THEN [heap |-> h, mem |-> NULL]
  ELSE LET i == SlabWithRoom(h, c)
           s == h.caches[c].partial[i]
           b == FreeChunk(h, c, s)
       IN  [heap |-> MarkChunk(h, c, i, s, b), mem |-> ChunkAddress(h, c, s, b)]
mem_cache_alloc(h, c) == WithChunk(WithPartial(WithSlabs(h, c), c), c)

-----------------------------------------------------------------------------
(* mem_cache_free *)

\* __find_allocated in one list: the place of the slab whose page the address is in, or 0.
SlabOf(h, list, a) == SelectInSeq(list, LAMBDA s : h.slab[s].page = a.page)

\* Mutant: the chunk's mark is not asked for.
Allocated_AnyChunk(h, c, a) ==
  /\ a.offset % chunk_size[c] = 0
  /\ \E list \in {"partial", "full"} : SlabOf(h, h.caches[c][list], a) # 0

\* Partly allocated slabs are searched before full ones.  An address that is not a chunk's
\* (FAR_CORRUPT), not in a slab (FAR_NOT_FOUND) or not allocated (FAR_DOUBLEFREE) is refused.
Allocated(h, c, a) ==
  /\ a.offset % chunk_size[c] = 0
  /\ \E list \in {"partial", "full"} :
       LET i == SlabOf(h, h.caches[c][list], a)
       IN  /\ i # 0
           /\ a.offset \div chunk_size[c] \in h.slab[h.caches[c][list][i]].bitmap

\* Mutant: an empty slab forgets its page.
EmptySlab_Leak(h, c, s) ==
  [h EXCEPT !.caches[c].free = <<s>> \o @, !.slab[s].page = NULL]

\* A slab with no chunk out goes to the head of the free ones and gives its page back (the
\* pools are GFP_KERNEL, none is GFP_ATOMIC).
EmptySlab(h, c, s) ==
  GivePage([h EXCEPT !.caches[c].free = <<s>> \o @, !.slab[s].page = NULL], h.slab[s].page)

\* Unmark the chunk, unlink the slab, and link it at the head of the list it belongs to now.
mem_cache_free(h, c, a) ==
  LET list == IF SlabOf(h, h.caches[c].partial, a) # 0 THEN "partial" ELSE "full"
      i    == SlabOf(h, h.caches[c][list], a)
      s    == h.caches[c][list][i]
      h2   == [h EXCEPT !.slab[s].bitmap = @ \ {a.offset \div chunk_size[c]},
                        !.slab[s].allocated_chunks = @ - 1,
                        !.caches[c][list] = RemoveAt(@, i)]
  IN  IF h2.slab[s].allocated_chunks # 0
      THEN [h2 EXCEPT !.caches[c].partial = <<s>> \o @]
      ELSE EmptySlab(h2, c, s)

-----------------------------------------------------------------------------
(* kmalloc and kfree *)

\* The first pool whose chunks are large enough, for callers that ask for GFP_KERNEL.
PoolFor(size) == {i \in Pools : chunk_size[i] >= size /\ \A j \in 1 .. i - 1 : chunk_size[j] < size}

kmalloc(h, size, GFP_KERNEL) ==
  IF ~GFP_KERNEL \/ PoolFor(size) = {} THEN [heap |-> h, mem |-> NULL]
  ELSE LET c == CHOOSE i \in PoolFor(size) : TRUE
       IN  IF c \in DOMAIN h.caches THEN mem_cache_alloc(h, c)
           ELSE IF Cardinality(DOMAIN h.caches) = caches_total THEN [heap |-> h, mem |-> NULL]
           ELSE mem_cache_alloc(   \* mem_cache_new
                  [h EXCEPT !.caches =
                     With(@, c, [free |-> <<>>, partial |-> <<>>, full |-> <<>>])], c)

\* The pools that take the address; kfree asks them in turn and stops at the first.
Takers(h, a) == {c \in DOMAIN h.caches : Allocated(h, c, a)}

kfree(h, a) ==
  IF a = NULL THEN [heap |-> h, err |-> 0]
  ELSE IF Takers(h, a) = {} THEN [heap |-> h, err |-> -1]
  ELSE [heap |-> mem_cache_free(h, Lowest(Takers(h, a)), a), err |-> 0]

\* The heap when get_free_page_setup is done, and mem_cache_setup's page for the root.
mem_cache_setup(pages) ==
  TakePage([pages |-> pages, caches |-> <<>>, slab |-> <<>>])
=============================================================================
