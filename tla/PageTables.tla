----------------------------- MODULE PageTables -----------------------------
(***************************************************************************)
(* The two levels of page tables of an ARMv7 MMU (src/src/kernel/arch/     *)
(* arm_a/mm/VMSAv7: init_page_tables.c, page_tables.c, pagetable.h,        *)
(* small_page.h).  `mmu' is the state of the hardware and of its tables:   *)
(*   l1    first level: entry -> address of a second-level table, or NULL  *)
(*   l2    the second-level tables: address -> entry -> page, or NULL      *)
(*   tlb   the translations the CPU may still hold: all the accessible     *)
(*         ones there have been since the last time it was told to forget  *)
(* The memory of second-level tables comes from boot pages, four to a      *)
(* page, and later from kmalloc(1024), which is where `heap' comes in.     *)
(***************************************************************************)
EXTENDS MemCache, Descriptors

CONSTANTS
  L1_ENTRIES,       \* entries of the first-level table
  L2_ENTRIES,       \* entries of a second-level table
  L2_SIZE           \* the size of a second-level table, in MemCache's units

Virtual == 0 .. L1_ENTRIES * L2_ENTRIES - 1

\* What init_page_tables asks for, of all of memory.
AskedOfRam ==
  [nG |-> FALSE, XN |-> FALSE, memtype |-> [split |-> FALSE, is |-> Uniform("writeback", TRUE)],
   access |-> "privileged_full"]

\* What vm_map's flags ask for (_get_memtype, _get_access, _get_execute); nobody gives it MMU_RAM.
AskedOfFlags(flags) ==
  [nG |-> FALSE, XN |-> flags = "DEVICE",
   memtype |-> [split |-> FALSE, is |-> IF flags = "DEVICE" THEN Device(TRUE) ELSE StronglyOrdered],
   access |-> IF flags = "NOACCESS" THEN "none" ELSE "full"]

Asked(flags) == IF flags = "RAM" THEN AskedOfRam ELSE AskedOfFlags(flags)

\* A page's descriptor, as much of it as the CPU's behaviour depends on.
SmallPage(phy, flags) ==
  [phy |-> phy, type |-> Asked(flags).memtype.is.type, access |-> Asked(flags).access,
   xn |-> Asked(flags).XN]

\* What the tables say of a virtual page, and whether the CPU could use it.
Entry(mmu, v) ==
  LET table == mmu.l1[v \div L2_ENTRIES]
  IN  IF table = NULL THEN NULL ELSE mmu.l2[table][v % L2_ENTRIES]
Usable(e) == e # NULL /\ e.access # "none"

\* A descriptor is not the absence of one.
ASSUME PageTablesAssumption == \A v \in Virtual : SmallPage(v, "DEVICE") # NULL

Translations(mmu) ==
  {t \in {[virt |-> v, page |-> Entry(mmu, v)] : v \in Virtual} : Usable(t.page)}

EmptyTable == [i \in 0 .. L2_ENTRIES - 1 |-> NULL]

-----------------------------------------------------------------------------
(* init_page_tables *)

L1Entries(first, length) == (first \div L2_ENTRIES) .. ((first + length - 1) \div L2_ENTRIES)
L2_PER_PAGE == PAGE_SIZE \div L2_SIZE

\* _get_free_l2: the i-th table lies in the i-th quarter of the boot pages taken for them.
BootTable(base, i) ==
  [page |-> base + i \div L2_PER_PAGE, offset |-> (i % L2_PER_PAGE) * L2_SIZE]
BootTablePages(n) == (n + L2_PER_PAGE - 1) \div L2_PER_PAGE

\* A table for each first-level entry the memory touches, every page of the memory at its own
\* address, and the MMU switched on with an empty TLB.
init_page_tables(base, first, length) ==
  LET entries == L1Entries(first, length)
      table   == [e \in entries |-> BootTable(base, e - Lowest(entries))]
      l2      == [a \in Range(table) |->
                    [i \in 0 .. L2_ENTRIES - 1 |->
                       LET at == {e \in entries : table[e] = a /\
                                    e * L2_ENTRIES + i \in first .. first + length - 1}
                       IN  IF at = {} THEN NULL
                           ELSE SmallPage(Lowest(at) * L2_ENTRIES + i, "RAM")]]
      mmu     == [l1 |-> [e \in 0 .. L1_ENTRIES - 1 |-> IF e \in entries THEN table[e] ELSE NULL],
                  l2 |-> l2, tlb |-> {}]
  IN  [mmu EXCEPT !.tlb = Translations(mmu)]

-----------------------------------------------------------------------------
(* vm_map and vm_unmap *)

\* One page: its second-level table is found, or made and entered.
TableOf(s, e, GFP_KERNEL) ==
  IF s.mmu.l1[e] # NULL THEN [heap |-> s.heap, mem |-> s.mmu.l1[e]]
  ELSE kmalloc(s.heap, L2_SIZE, GFP_KERNEL)
EnterPage(s, e, k, i, page) ==
  IF k.mem = NULL THEN [s EXCEPT !.heap = k.heap, !.err = -1]
  ELSE [s EXCEPT
          !.heap = k.heap,
          !.mmu.l1[e] = k.mem,
          !.mmu.l2 = With(@, k.mem, [(IF s.mmu.l1[e] # NULL THEN @[k.mem] ELSE EmptyTable)
                                       EXCEPT ![i] = page])]
MapPage(s, virt, phy, flags, GFP_KERNEL) ==
  IF s.err # 0 THEN s
  ELSE LET e == virt \div L2_ENTRIES
       IN  EnterPage(s, e, TableOf(s, e, GFP_KERNEL), virt % L2_ENTRIES, SmallPage(phy, flags))

\* The translations the CPU may hold afterwards: those of the new tables, and the old ones too
\* unless it is told to forget.
Walk(mmu, flushed) ==
  [mmu EXCEPT !.tlb = Translations(mmu) \cup (IF flushed THEN {} ELSE @)]

\* Mutant: nothing is flushed.
Flush_Never(s) == [s EXCEPT !.mmu = Walk(@, FALSE)]

Flush(s) == [s EXCEPT !.mmu = Walk(@, s.err = 0)]

\* Page after page; when there is no memory for a table the call returns at once, with the
\* pages before it mapped and nothing flushed.
vm_map(heap, mmu, virt, phy, size, flags, GFP_KERNEL) ==
  LET s[i \in 0 .. size] ==
        IF i = 0 THEN [heap |-> heap, mmu |-> mmu, err |-> 0]
        ELSE MapPage(s[i - 1], virt + (i - 1), phy + (i - 1), flags, GFP_KERNEL)
  IN  Flush(s[size])

\* Mapped to page 0 without access; no flag for kmalloc, so no table is ever made for it.
vm_unmap(heap, mmu, virt, size) == vm_map(heap, mmu, virt, 0, size, "NOACCESS", FALSE)
=============================================================================
