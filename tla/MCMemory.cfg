SPECIFICATION MCSpec
CONSTANTS
  HEAP_SIZE = 20
  HDR_SIZE = 2
  MIN_ALIGN = 2
  PAGE = 8
  HeapBase = 40
  WORD = 128
  v1 = v1
  v2 = v2
  Request <- MCRequest
  Alignment <- PageAlignment
  CallocArg <- MCCallocArg
  Value <- MCValue
  Zero = Zero
  MMAP_BASE = 8
  MMAP_LIMIT = 16
  MMAP_PAGE = 2
  Length = {1, 2, 3, 4}
  Stale = Stale
SYMMETRY Symmetry
INVARIANTS BlocksDisjoint HeadersIntact DataPreserved PointersAligned
INVARIANTS RegionsDisjoint RegionsReadBack
