SPECIFICATION Spec
CONSTANTS
  NULL = NULL
  PHYSICAL_MEMORY_BASE_ADDRESS = 40
  PHYSICAL_MEMORY_LENGTH = 17
  ADDRESS_PAGES = 256
  PAGE_SIZE = 4
  chunk_size <- MCchunk_size
  SLABS_PER_PAGE = 2
  caches_total = 2
  L1_ENTRIES = 9
  L2_ENTRIES = 8
  L2_SIZE = 1
  HeapBegins = {41, 43}
  ROOT_PAGES = 4
  BITMAP_PAGES = 1
  Sizes = {1, 2}
  BootRegions <- MCBootRegions
  UartRegions <- MCUartRegions
  CONTEXT_SIZE = 1
  MaxStacks = 1
  MaxObjects = 3
INVARIANTS TypeOK OneOwner PagesAccounted ChunksAreObjects MapExact DescriptorsReadBack
PROPERTIES FailsOnlyWhenFull RegistersStay
