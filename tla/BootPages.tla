----------------------------- MODULE BootPages -----------------------------
(***************************************************************************)
(* The pages taken while the kernel boots (src/src/kernel/memory/          *)
(* boot_pages.c): one after the other from the end of the kernel's image,  *)
(* and none back.  The state is `_boot_pages', how many are gone from      *)
(* heap_begin on, the ones skipped for alignment included.                 *)
(* Addresses are numbers of pages.                                         *)
(***************************************************************************)
EXTENDS Integers

CONSTANTS
  PHYSICAL_MEMORY_BASE_ADDRESS,   \* equal to the virtual base on every board
  PHYSICAL_MEMORY_LENGTH,
  ADDRESS_PAGES                   \* pages in the address space: size_t arithmetic wraps there

RamEnd == PHYSICAL_MEMORY_BASE_ADDRESS + PHYSICAL_MEMORY_LENGTH
Ram    == PHYSICAL_MEMORY_BASE_ADDRESS .. RamEnd - 1

\* What the code calls the end of the heap is its length, and from that the beginning is
\* taken once more: the bound wraps and is far larger than the memory.
_heap_virtual_end(heap_begin) == (RamEnd - heap_begin) % ADDRESS_PAGES
_heap_pages(heap_begin) == (_heap_virtual_end(heap_begin) - heap_begin) % ADDRESS_PAGES

\* get_boot_pages stops the kernel (_BUG) rather than hand out what is not there.
HasBootPages(heap_begin, boot, pages) == boot + pages <= _heap_pages(heap_begin)

\* The next page get_boot_pages hands out.
BootBase(heap_begin, boot) == heap_begin + boot

\* get_aligned_boot_pages skips pages, for good, until the next one is aligned.
AlignBoot(heap_begin, boot, alignment) == boot + ((-(heap_begin + boot)) % alignment)

\* Mutant: the image's pages are counted again.
get_boot_pages_remaining_FromImage(heap_begin, boot) == RamEnd - heap_begin

get_boot_pages_remaining(heap_begin, boot) == RamEnd - BootBase(heap_begin, boot)

\* end_boot_pages: nothing is left.
EndBoot(heap_begin) == _heap_pages(heap_begin)
=============================================================================
