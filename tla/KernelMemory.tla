---------------------------- MODULE KernelMemory ----------------------------
(***************************************************************************)
(* The memory of a kernel with an MMU, from the first boot page on:        *)
(* arch/arm_a/entry.S and memory/memory.c take boot pages for the first    *)
(* stack, the page tables and the bitmaps of the page allocator; the page  *)
(* allocator has the rest, and from it come slabs, page tables for         *)
(* devices, the stacks of threads (memory/stack.c) and the FIFOs of UARTs  *)
(* (drivers/ti/omap/uart).  BootPages, PageTables and MemCache are the     *)
(* parts.  Calls are made one at a time.                                   *)
(***************************************************************************)
EXTENDS BootPages, PageTables

CONSTANTS
  HeapBegins,      \* where the image may end: __HEAP_BEGIN
  ROOT_PAGES,      \* of the first-level table, which is aligned to as many
  BITMAP_PAGES,    \* of the buddy allocator's bitmaps
  Sizes,           \* what is asked of kmalloc
  BootRegions,     \* VM_DEVICE_REGION: the devices mapped at boot, a sequence of [page, size]
  UartRegions,     \* the registers of the UARTs of omap/uart/uart.c: a page each
  CONTEXT_SIZE,    \* of its struct context, in MemCache's units
  MaxStacks,       \* bound: threads with a stack at a time
  MaxObjects       \* bound: objects of kmalloc's clients at a time, contexts of UARTs included

\* The virtual pages of a device, which has its registers at its own address.
Region(r) == r.page .. r.page + r.size - 1
Regions   == Range(BootRegions) \cup UartRegions

\* The boot pages that are taken, in this order: a stack, the first-level table, the tables of
\* the second level, the bitmaps; then the first page of the allocator.
RootAt(begin)    == AlignBoot(begin, 1, ROOT_PAGES)
TablesAt(begin)  == BootBase(begin, RootAt(begin) + ROOT_PAGES)
RamEntries       == L1Entries(PHYSICAL_MEMORY_BASE_ADDRESS, PHYSICAL_MEMORY_LENGTH)
BitmapsAt(begin) == TablesAt(begin) + BootTablePages(Cardinality(RamEntries))
FirstPage(begin) == BitmapsAt(begin) + BITMAP_PAGES

ASSUME KernelMemoryAssumption ==
  /\ L1_ENTRIES \in Nat \ {0} /\ L2_ENTRIES \in Nat \ {0} /\ ROOT_PAGES \in Nat \ {0}
  /\ BITMAP_PAGES \in Nat \ {0} /\ ADDRESS_PAGES \in Nat \ {0} /\ MaxStacks \in Nat
  /\ L2_SIZE \in Nat \ {0} /\ PAGE_SIZE % L2_SIZE = 0
  /\ Sizes \subseteq Nat /\ CONTEXT_SIZE \in Nat
  /\ PHYSICAL_MEMORY_BASE_ADDRESS \in Nat /\ PHYSICAL_MEMORY_LENGTH \in Nat \ {0}
  /\ Ram \subseteq Virtual
     \* The image ends so early that there is memory behind what is taken at boot: no check of
     \* get_boot_pages would notice (_heap_pages).
  /\ \A begin \in HeapBegins : begin \in Ram /\ FirstPage(begin) \in Ram
     \* Devices are apart from memory and from each other, and none of the source crosses a
     \* megabyte; vm_map could fail in the middle of one.
  /\ BootRegions \in Seq(Range(BootRegions)) /\ \A r \in UartRegions : r.size = 1
  /\ \A r \in Regions :
       /\ r.page \in Nat /\ r.size \in Nat \ {0}
       /\ Region(r) \subseteq Virtual /\ Region(r) \cap Ram = {}
       /\ r.page \div L2_ENTRIES = (r.page + r.size - 1) \div L2_ENTRIES
       /\ \A q \in Regions : q # r => Region(q) \cap Region(r) = {}

VARIABLES
  heap_begin,
  phase,     \* how far booting is; "up" afterwards, "halted" after a data abort
  boot,      \* _boot_pages
  blocks,    \* boot pages handed out: sets of pages
  heap,      \* MemCache's record
  mmu,       \* PageTables' record
  objs,      \* what clients of kmalloc have: [mem, size]
  stacks,    \* the pages of threads' stacks
  mapped,    \* the device regions vm_map was last asked to map, not to unmap
  uarts,     \* the open instances of UARTs: [device, context, fifos]
  fifos      \* the pages FIFOs have got and not given back

vars == <<heap_begin, phase, boot, blocks, heap, mmu, objs, stacks, mapped, uarts, fifos>>
uartVars == <<uarts, fifos>>

NoHeap == [pages |-> {}, caches |-> <<>>, slab |-> <<>>]
NoMmu  == [l1 |-> [e \in 0 .. L1_ENTRIES - 1 |-> NULL], l2 |-> <<>>, tlb |-> {}]

Init ==
  /\ heap_begin \in HeapBegins
  /\ phase = "stack" /\ boot = 0 /\ blocks = {}
  /\ heap = NoHeap /\ mmu = NoMmu
  /\ objs = {} /\ stacks = {} /\ mapped = {} /\ uarts = {} /\ fifos = {}

-----------------------------------------------------------------------------
(* Booting *)

\* The stack the kernel boots on: a page of get_boot_pages.
boot_stack ==
  /\ phase = "stack" /\ phase' = "tables"
  /\ HasBootPages(heap_begin, boot, 1)
  /\ boot' = boot + 1
  /\ blocks' = blocks \cup {{BootBase(heap_begin, boot)}}
  /\ UNCHANGED <<heap_begin, heap, mmu, objs, stacks, mapped, uartVars>>

\* The first-level table, aligned, and the pages of the second-level tables right after it.
TakeTables ==
  LET root   == AlignBoot(heap_begin, boot, ROOT_PAGES)
      l2     == BootBase(heap_begin, root + ROOT_PAGES)
      tables == BootTablePages(Cardinality(RamEntries))
  IN  /\ phase = "tables" /\ phase' = "page allocator"
      /\ HasBootPages(heap_begin, root, ROOT_PAGES + tables)
      /\ boot' = root + ROOT_PAGES + tables
      /\ blocks' = blocks \cup {BootBase(heap_begin, root) .. l2 - 1, l2 .. l2 + tables - 1}
      /\ mmu' = init_page_tables(l2, PHYSICAL_MEMORY_BASE_ADDRESS, PHYSICAL_MEMORY_LENGTH)
      /\ UNCHANGED <<heap_begin, heap, objs, stacks, mapped, uartVars>>

\* get_free_page_setup: the bitmaps take boot pages, the last ones; the page allocator has as
\* many of the pages after them as remain.  Then mem_cache_setup takes its root page.
get_free_page_setup ==
  LET first == BootBase(heap_begin, boot) + BITMAP_PAGES
      pages == get_boot_pages_remaining(heap_begin, boot) - BITMAP_PAGES
  IN  /\ phase = "page allocator" /\ phase' = "devices"
      /\ HasBootPages(heap_begin, boot, BITMAP_PAGES)
      /\ blocks' = blocks \cup {BootBase(heap_begin, boot) .. first - 1}
      /\ boot' = EndBoot(heap_begin)
      /\ heap' = mem_cache_setup(first .. first + pages - 1)
      /\ UNCHANGED <<heap_begin, mmu, objs, stacks, mapped, uartVars>>

\* vm_map_device_regions: nobody looks at vm_map's answers.
vm_map_device_regions ==
  LET MapNext(t, r) ==
        LET u == vm_map(t.heap, t.mmu, r.page, r.page, r.size, "DEVICE", TRUE)
        IN  [heap |-> u.heap, mmu |-> u.mmu,
             done |-> t.done \cup (IF u.err = 0 THEN {r} ELSE {})]
      s[i \in 0 .. Len(BootRegions)] ==
        IF i = 0 THEN [heap |-> heap, mmu |-> mmu, done |-> {}]
        ELSE MapNext(s[i - 1], BootRegions[i])
      last == s[Len(BootRegions)]
  IN  /\ phase = "devices" /\ phase' = "up"
      /\ heap' = last.heap /\ mmu' = last.mmu /\ mapped' = last.done
      /\ UNCHANGED <<heap_begin, boot, blocks, objs, stacks, uartVars>>

-----------------------------------------------------------------------------
(* The kernel at work *)

Kmalloc(size) ==
  LET k == kmalloc(heap, size, TRUE)
  IN  /\ phase = "up" /\ Cardinality(objs) < MaxObjects
      /\ heap' = k.heap
      /\ objs' = IF k.mem = NULL THEN objs ELSE objs \cup {[mem |-> k.mem, size |-> size]}
      /\ UNCHANGED <<heap_begin, phase, boot, blocks, mmu, stacks, mapped, uartVars>>

Kfree(o) ==
  /\ phase = "up"
  /\ heap' = kfree(heap, o.mem).heap
  /\ objs' = objs \ {o}
  /\ UNCHANGED <<heap_begin, phase, boot, blocks, mmu, stacks, mapped, uartVars>>

\* Addresses in the pages of slabs that are no object's: freed before, in the middle of an
\* object, or never handed out.
SlabPages == {heap.slab[s].page : s \in DOMAIN heap.slab} \ {NULL}
Stale ==
  [page : SlabPages, offset : 0 .. PAGE_SIZE - 1] \ ({o.mem : o \in objs} \cup Range(mmu.l1))

\* An object is freed twice.
KfreeAgain(a) ==
  /\ phase = "up"
  /\ heap' = kfree(heap, a).heap
  /\ UNCHANGED <<heap_begin, phase, boot, blocks, mmu, objs, stacks, mapped, uartVars>>

\* A page for the stack of a thread.  When there is none, _fill_stack fills it all the same,
\* from address 0 on.
stack_alloc ==
  /\ phase = "up" /\ Cardinality(stacks) < MaxStacks
  /\ IF heap.pages = {} THEN phase' = "halted" /\ UNCHANGED <<heap, stacks>>
     ELSE /\ stacks' = stacks \cup {Lowest(heap.pages)}
          /\ heap' = TakePage(heap)
          /\ UNCHANGED phase
  /\ UNCHANGED <<heap_begin, boot, blocks, mmu, objs, mapped, uartVars>>

stack_free(p) ==
  /\ phase = "up"
  /\ stacks' = stacks \ {p}
  /\ heap' = GivePage(heap, p)
  /\ UNCHANGED <<heap_begin, phase, boot, blocks, mmu, objs, mapped, uartVars>>

-----------------------------------------------------------------------------
(* Opening and closing a UART *)

\* Mutant: the page is looked up and not taken.
fifo_buffer_create_Peeks(h) ==
  IF h.pages = {} THEN [heap |-> h, bp |-> NULL]
  ELSE [heap |-> h, bp |-> Lowest(h.pages)]

\* A FIFO of one page, and back.
fifo_buffer_create(h) ==
  IF h.pages = {} THEN [heap |-> h, bp |-> NULL]
  ELSE [heap |-> TakePage(h), bp |-> Lowest(h.pages)]

\* Mutant: nothing is given back.
fifo_buffer_destroy_Leaks(h, bp) == h

fifo_buffer_destroy(h, bp) == GivePage(h, bp)

\* Mutant: a failed open unmaps the registers again.
OpenFails_Unmaps(h, m, r) ==
  LET s == vm_unmap(h, m, r.page, r.size)
  IN  /\ heap' = s.heap /\ mmu' = s.mmu /\ mapped' = mapped \ {r}
      /\ UNCHANGED <<objs, uarts, fifos>>

\* An open that fails after vm_map leaves the registers mapped.
OpenFails(h, m, r) ==
  /\ heap' = h /\ mmu' = m /\ mapped' = mapped \cup {r}
  /\ UNCHANGED <<objs, uarts, fifos>>

\* The registers are mapped, then come the context and the two FIFOs.  What fails gives back
\* what was allocated before it.  Nothing keeps a UART from being opened again while it is open:
\* the serial console, the dev console and the third UART are one device.
_chrd_open(r) ==
  LET s     == vm_map(heap, mmu, r.page, r.page, r.size, "DEVICE", TRUE)
      ctx   == kmalloc(s.heap, CONTEXT_SIZE, TRUE)
      read  == fifo_buffer_create(ctx.heap)
      write == fifo_buffer_create(read.heap)
      u     == [device |-> r, context |-> [mem |-> ctx.mem, size |-> CONTEXT_SIZE],
                fifos |-> {read.bp, write.bp}]
  IN  /\ phase = "up"
      /\ \/ /\ s.err # 0
            /\ heap' = s.heap /\ mmu' = s.mmu
            /\ UNCHANGED <<objs, mapped, uarts, fifos>>
         \/ /\ s.err = 0 /\ ctx.mem = NULL
            /\ OpenFails(ctx.heap, s.mmu, r)
         \/ /\ s.err = 0 /\ ctx.mem # NULL /\ read.bp = NULL
            /\ OpenFails(kfree(read.heap, ctx.mem).heap, s.mmu, r)
         \/ /\ s.err = 0 /\ ctx.mem # NULL /\ read.bp # NULL /\ write.bp = NULL
            /\ OpenFails(kfree(fifo_buffer_destroy(write.heap, read.bp), ctx.mem).heap, s.mmu, r)
         \/ /\ s.err = 0 /\ ctx.mem # NULL /\ read.bp # NULL /\ write.bp # NULL
            /\ heap' = write.heap /\ mmu' = s.mmu /\ mapped' = mapped \cup {r}
            /\ objs' = objs \cup {u.context}
            /\ uarts' = uarts \cup {u} /\ fifos' = fifos \cup u.fifos
      /\ UNCHANGED <<heap_begin, phase, boot, blocks, stacks>>

\* The registers are unmapped, whoever else has the device open, and the context is freed.
\* The FIFOs keep their pages.
_close(u) ==
  LET s == vm_unmap(heap, mmu, u.device.page, u.device.size)
  IN  /\ phase = "up"
      /\ mmu' = s.mmu /\ mapped' = mapped \ {u.device}
      /\ heap' = kfree(s.heap, u.context.mem).heap
      /\ objs' = objs \ {u.context} /\ uarts' = uarts \ {u}
      /\ UNCHANGED <<heap_begin, phase, boot, blocks, stacks, fifos>>

-----------------------------------------------------------------------------
Halted == phase = "halted" /\ UNCHANGED vars

Next ==
  \/ boot_stack \/ TakeTables \/ get_free_page_setup \/ vm_map_device_regions
  \/ \E size \in Sizes : Kmalloc(size)
  \/ \E o \in objs \ {u.context : u \in uarts} : Kfree(o)
  \/ \E a \in Stale : KfreeAgain(a)
  \/ stack_alloc
  \/ \E p \in stacks : stack_free(p)
  \/ \E r \in UartRegions : _chrd_open(r)
  \/ \E u \in uarts : _close(u)
  \/ Halted

Spec == Init /\ [][Next]_vars

-----------------------------------------------------------------------------
(* Properties *)

HeapOK(h) ==
  /\ h.pages \subseteq Ram
  /\ DOMAIN h.caches \subseteq Pools
  /\ \A c \in DOMAIN h.caches :
       h.caches[c] \in [free : Seq(Slab), partial : Seq(Slab), full : Seq(Slab)]
  /\ DOMAIN h.slab \subseteq Slab
  /\ \A s \in DOMAIN h.slab :
       /\ h.slab[s].page \in Ram \cup {NULL}
       /\ h.slab[s].bitmap \subseteq 0 .. PAGE_SIZE - 1
       /\ h.slab[s].allocated_chunks \in 0 .. PAGE_SIZE

\* The type of every variable.
TypeOK ==
  /\ heap_begin \in Ram /\ boot \in Nat
  /\ phase \in {"stack", "tables", "page allocator", "devices", "up", "halted"}
  /\ blocks \subseteq SUBSET Ram
  /\ HeapOK(heap)
  /\ DOMAIN mmu.l1 = 0 .. L1_ENTRIES - 1
  /\ \A e \in DOMAIN mmu.l1 : mmu.l1[e] = NULL \/ mmu.l1[e] \in DOMAIN mmu.l2
  /\ \A t \in mmu.tlb : t.virt \in Virtual /\ Usable(t.page)
  /\ stacks \subseteq Ram
  /\ mapped \subseteq Range(BootRegions) \cup UartRegions
  /\ fifos \subseteq Ram
  /\ \A u \in uarts : u.device \in UartRegions /\ u.context \in objs /\ u.fifos \subseteq fifos

Units(page)  == {[page |-> page, offset |-> i] : i \in 0 .. PAGE_SIZE - 1}
Extent(o)    == {[page |-> o.mem.page, offset |-> o.mem.offset + i] : i \in 0 .. o.size - 1}
Tables       == {[mem |-> mmu.l1[e], size |-> L2_SIZE] :
                   e \in {f \in DOMAIN mmu.l1 : mmu.l1[f] # NULL}}
BootTables   == {t \in Tables : \E b \in blocks : t.mem.page \in b}
Descriptors  == {s.page : s \in DOMAIN heap.slab}

\* What the kernel relies on when it writes to memory it was given: no two of the boot blocks,
\* the free pages, the stacks, the FIFOs of UARTs, the pages of slab descriptors, the objects of
\* kmalloc's clients and the second-level page tables have a byte in common, and no page table is
\* shared by two entries.
OneOwner ==
  LET whole == blocks \cup {{p} : p \in heap.pages} \cup {{p} : p \in stacks \cup fifos}
                      \cup {{p} : p \in Descriptors}
      parts == objs \cup Tables
      in(S) == UNION {Units(p) : p \in S}
  IN  /\ \A a, b \in whole : a # b => a \cap b = {}
      /\ heap.pages \cap (stacks \cup fifos) = {} /\ heap.pages \cap Descriptors = {}
      /\ (stacks \cup fifos) \cap Descriptors = {} /\ stacks \cap fifos = {}
      /\ \A u, w \in uarts : u # w => u.context # w.context /\ u.fifos \cap w.fifos = {}
      /\ \A o, q \in parts : o # q => Extent(o) \cap Extent(q) = {}
      /\ \A o \in parts \ BootTables : \A a \in whole : Extent(o) \cap in(a) = {}
      /\ \A e, f \in DOMAIN mmu.l1 : e # f /\ mmu.l1[e] # NULL => mmu.l1[e] # mmu.l1[f]

\* No page is lost: every page of the page allocator is free, the root of the caches, a page
\* of descriptors, the page of exactly one slab that has a chunk out, a stack or of a FIFO.
PagesAccounted ==
  phase \in {"devices", "up", "halted"} =>
    LET before == UNION blocks
        first  == 1 + CHOOSE p \in before : \A q \in before : q <= p
    IN  /\ first .. RamEnd - 1
             = {first} \cup heap.pages \cup Descriptors \cup SlabPages \cup stacks \cup fifos
        /\ \A s, t \in DOMAIN heap.slab :
             s # t /\ heap.slab[s].page # NULL => heap.slab[s].page # heap.slab[t].page
        /\ \A s \in DOMAIN heap.slab : (heap.slab[s].page = NULL) = (heap.slab[s].bitmap = {})
        /\ first \notin heap.pages \cup Descriptors \cup SlabPages \cup stacks \cup fifos
        /\ (Descriptors \cup SlabPages) \cap heap.pages = {} /\ Descriptors \cap SlabPages = {}

\* The lists tell the truth, so that the search for a chunk neither fails nor misses one: a
\* slab is in one list of one cache, and the list says whether none, some or all of its
\* chunks are marked; the chunks marked are exactly those that clients and page tables have,
\* whatever has been freed, refused or freed twice.
ChunksAreObjects ==
  LET lists(c) == heap.caches[c].free \o heap.caches[c].partial \o heap.caches[c].full
      chunks(c, s) == {<<c, [page |-> heap.slab[s].page, offset |-> b * chunk_size[c]]>> :
                         b \in heap.slab[s].bitmap}
      marked   == UNION {UNION {chunks(c, s) : s \in Range(lists(c))} : c \in DOMAIN heap.caches}
      out      == objs \cup (Tables \ BootTables)
  IN  /\ \A c \in DOMAIN heap.caches : IsInjective(lists(c))
      /\ \A c, d \in DOMAIN heap.caches : c # d => Range(lists(c)) \cap Range(lists(d)) = {}
      /\ UNION {Range(lists(c)) : c \in DOMAIN heap.caches} = DOMAIN heap.slab
      /\ \A s \in DOMAIN heap.slab :
           heap.slab[s].allocated_chunks = Cardinality(heap.slab[s].bitmap)
      /\ \A c \in DOMAIN heap.caches :
           /\ \A s \in Range(heap.caches[c].free) : heap.slab[s].bitmap = {}
           /\ \A s \in Range(heap.caches[c].partial) : heap.slab[s].bitmap \notin {{}, Chunks(c)}
           /\ \A s \in Range(heap.caches[c].full) : heap.slab[s].bitmap = Chunks(c)
      /\ marked = {<<CHOOSE c \in PoolFor(o.size) : TRUE, o.mem>> : o \in out}

\* The MMU does what it was last asked for, by calls that answer and calls that fail: RAM is at
\* its own addresses; a device is at its own address once boot or the open of a UART, which may
\* itself have failed later, has mapped it, until some close unmaps it, and nothing else is
\* accessible; and no translation the CPU may still hold says otherwise.
MapExact ==
  phase \in {"up", "halted"} =>
    LET devices == UNION {Region(r) : r \in mapped}
    IN  /\ \A v \in Virtual :
             IF v \in Ram THEN Entry(mmu, v) = SmallPage(v, "RAM")
             ELSE IF v \in devices THEN Entry(mmu, v) = SmallPage(v, "DEVICE")
             ELSE ~Usable(Entry(mmu, v))
        /\ mmu.tlb = Translations(mmu)

\* What a driver or the kernel asks for is what the MMU does: a word built in any format from
\* any memory type, permission, domain and flags is of that kind, has that address and reads
\* as those attributes, although fields share the word and formats move them about; so are
\* those of init_page_tables and vm_map.  Looked at when the first table is about to be made.
DescriptorsReadBack ==
  phase = "tables" =>
    /\ Misread = {}
    /\ \A flags \in {"RAM", "DEVICE", "NOACCESS"} :
         LET r == Read(2, Build(VMSAv7_smallpage, {}, Asked(flags)))
         IN  SmallPage(0, flags) = [phy |-> 0, type |-> r.memory.type, access |-> r.access, xn |-> r.XN]

\* kmalloc answers NULL only when its cache has no chunk left and no page is free.
FailsOnlyWhenFull ==
  [][\A size \in Sizes :
       objs' = objs /\ Kmalloc(size) =>
         LET c == CHOOSE i \in PoolFor(size) : TRUE
         IN  heap'.pages = {} /\ (c \in DOMAIN heap'.caches => heap'.caches[c].partial = <<>>)]_vars

\* A UART that is open loses its registers only when another instance of it is closed: no
\* allocation, failed open or closing of another device takes them away.
RegistersStay ==
  [][\A u \in uarts \cap uarts' : \A v \in Region(u.device) :
       Usable(Entry(mmu, v)) /\ ~Usable(Entry(mmu', v)) =>
         \E w \in uarts \ uarts' : w.device = u.device]_vars
=============================================================================
