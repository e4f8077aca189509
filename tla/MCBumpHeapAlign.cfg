SPECIFICATION Spec
CONSTANTS
  HEAP_SIZE = 20
  HDR_SIZE = 2
  MIN_ALIGN = 2
  PAGE = 8
  HeapBase = 40
  WORD = 128
  v1 = v1
  v2 = v2
  Request <- MCRequest
  Alignment <- BeyondPageAlignment
  CallocArg <- MCCallocArg
  Value <- MCValue
  Zero = Zero
SYMMETRY Symmetry
INVARIANT PointersAligned
