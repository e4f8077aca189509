------------------------------ MODULE BumpHeap ------------------------------
(***************************************************************************)
(* The C heap CRuby and musl allocate from                                 *)
(* (compat/ruby_on_bare_metal_malloc.c): one static array, a cursor that   *)
(* only moves up, a header in front of every block, and a free that does   *)
(* nothing.  Every byte of the array is in the model, headers included, so *)
(* that a block written to its last byte can be seen to harm another.      *)
(***************************************************************************)
EXTENDS Integers

CONSTANTS HEAP_SIZE,   \* bytes of the static array
          HDR_SIZE,    \* sizeof(struct block_hdr)
          MIN_ALIGN,   \* 16: the least alignment, and the unit of sizes
          PAGE,        \* 4096: the array's own alignment, __expand_heap's too
          HeapBase,    \* the address the linker gave the array
          WORD,        \* 2^64: size_t arithmetic is modulo this
          Request,     \* the sizes callers ask for
          Alignment,   \* the alignments callers ask for
          CallocArg,   \* the <<nmemb, size>> pairs given to calloc
          Value,       \* what the program stores
          Zero         \* what the array holds at boot

ASSUME SizesAssumption ==
  /\ HEAP_SIZE \in Nat /\ HDR_SIZE \in Nat \ {0}
  /\ MIN_ALIGN \in Nat \ {0} /\ PAGE \in Nat \ {0} /\ WORD \in Nat \ {0}
  /\ HeapBase \in Nat /\ HeapBase % PAGE = 0
ASSUME ArgumentsAssumption ==
  /\ Request \subseteq Nat /\ Alignment \subseteq Nat \ {0}
  /\ CallocArg \subseteq Nat \X Nat
\* ruby_xmalloc and ruby_xcalloc refuse a size above SSIZE_MAX, half of WORD:
\* no size that reaches bump_alloc makes its sums wrap.
ASSUME NoWrapAssumption ==
  \A size \in Request \cup {(c[1] * c[2]) % WORD : c \in CallocArg} :
  \A a \in Alignment \cup {MIN_ALIGN, PAGE} :
    HEAP_SIZE + HDR_SIZE + size + a + 2 * MIN_ALIGN < WORD
\* Powers of two up to a page, the alignment of the array: none beyond it.
AlignmentsDividePage ==
  /\ PAGE % MIN_ALIGN = 0
  /\ \A a \in Alignment : /\ PAGE % a = 0
                          /\ a < MIN_ALIGN => MIN_ALIGN % a = 0

VARIABLES heap_used,   \* bytes of the array given out so far
          heap,        \* the array's contents
          blocks       \* the blocks the program owns and what it keeps in them

vars == <<heap_used, heap, blocks>>

-----------------------------------------------------------------------------
Byte == 0 .. HEAP_SIZE - 1
Header == [size : Nat]      \* a cell with MAGIC and a size
Cell == Value \cup {Zero} \cup Header

\* want: the bytes the program asked for.  The first filled bytes hold value.
Block == [start : Nat, want : Nat, align : Nat,
          filled : Nat, value : Value \cup {Zero}]

Wrap(x) == IF x < WORD THEN x ELSE x % WORD
RoundUp(x, a) == LET y == Wrap(x + a - 1) IN y - (y % a)      \* ALIGN(x, a)

AtLeast(x, low) == IF x < low THEN low ELSE x

\* bump_alloc's locals.
Padded(size) == RoundUp(AtLeast(size, 1), MIN_ALIGN)
\* Two defects of start: no room left for the header, the alignment ignored.
StartNoHeader(alignment) == RoundUp(heap_used, AtLeast(alignment, MIN_ALIGN))
StartMinimal(alignment) == RoundUp(Wrap(heap_used + HDR_SIZE), MIN_ALIGN)
Start(alignment) ==
  RoundUp(Wrap(heap_used + HDR_SIZE), AtLeast(alignment, MIN_ALIGN))
End(size, alignment) == Wrap(Start(alignment) + Padded(size))
Fits(size, alignment) == End(size, alignment) <= HEAP_SIZE

WithHeader(h, start, size) ==
  [i \in Byte |-> IF start - HDR_SIZE <= i /\ i < start
                  THEN [size |-> size] ELSE h[i]]
Memset(h, at, n, v) ==
  [i \in Byte |-> IF at <= i /\ i < at + n THEN v ELSE h[i]]
\* A defect of the copy: one byte short.
MemcpyShort(h, to, from, n) ==
  [i \in Byte |-> IF to <= i /\ i < to + n - 1 THEN h[from + (i - to)] ELSE h[i]]
Memcpy(h, to, from, n) ==
  [i \in Byte |-> IF to <= i /\ i < to + n THEN h[from + (i - to)] ELSE h[i]]

\* The size in the header before p, or 0 without a MAGIC there.
HdrSize(p) ==
  LET cell == heap[p - HDR_SIZE]
  IN  IF cell \in Header THEN cell.size ELSE 0

Init ==
  /\ heap_used = 0
  /\ heap = [i \in Byte |-> Zero]
  /\ blocks = {}

-----------------------------------------------------------------------------
\* bump_alloc that succeeds: the array as it is with the new header.
Bumped(size, alignment) == WithHeader(heap, Start(alignment), Padded(size))
Fresh(want, alignment, filled, value) ==
  [start |-> Start(alignment), want |-> want, align |-> alignment,
   filled |-> filled, value |-> value]

\* bump_alloc that returns NULL; so do all its callers, and a failed realloc
\* leaves the old block alone.
NoRoom(size, alignment) ==
  /\ ~Fits(size, alignment)
  /\ UNCHANGED vars

Alloc(size, alignment) ==
  \/ NoRoom(size, alignment)
  \/ /\ Fits(size, alignment)
     /\ heap_used' = End(size, alignment)
     /\ heap' = Bumped(size, alignment)
     /\ blocks' = blocks \cup {Fresh(size, alignment, 0, Zero)}

Malloc(size) == Alloc(size, MIN_ALIGN)

\* posix_memalign, memalign and aligned_alloc.
Memalign(alignment, size) == Alloc(size, alignment)

\* __expand_heap.
ExpandHeap(n) == Alloc(n, PAGE)

\* The product is a size_t; the division detects that it wrapped.  A defect:
\* no such test.
CallocNeverOverflows(nmemb, size) == FALSE
CallocOverflows(nmemb, size) ==
  nmemb # 0 /\ ((nmemb * size) % WORD) \div nmemb # size

Calloc(nmemb, size) ==
  LET total == (nmemb * size) % WORD
  IN  \/ /\ CallocOverflows(nmemb, size)
         /\ UNCHANGED vars
      \/ /\ ~CallocOverflows(nmemb, size)
         /\ NoRoom(total, MIN_ALIGN)
      \/ /\ ~CallocOverflows(nmemb, size)
         /\ Fits(total, MIN_ALIGN)
         /\ heap_used' = End(total, MIN_ALIGN)
         /\ heap' = Memset(Bumped(total, MIN_ALIGN), Start(MIN_ALIGN),
                           total, Zero)
         /\ blocks' = blocks \cup
              {Fresh(nmemb * size, MIN_ALIGN, nmemb * size, Zero)}

\* free: the program gives the block up, the heap does nothing with it.
Free(b) ==
  /\ blocks' = blocks \ {b}
  /\ UNCHANGED <<heap_used, heap>>

\* realloc(NULL, size) is Malloc(size), realloc(ptr, 0) is Free.
ReallocInPlace(b, size) ==
  /\ size # 0
  /\ size <= HdrSize(b.start)
  /\ blocks' = (blocks \ {b}) \cup {[b EXCEPT !.want = size]}
  /\ UNCHANGED <<heap_used, heap>>

\* The copy is of the old block's whole capacity, header size.
ReallocMove(b, size) ==
  LET old_size == HdrSize(b.start)
      start == Start(MIN_ALIGN)
  IN  /\ size > old_size
      /\ Fits(size, MIN_ALIGN)
      /\ heap_used' = End(size, MIN_ALIGN)
      /\ heap' = Memcpy(Bumped(size, MIN_ALIGN), start, b.start, old_size)
      /\ blocks' = (blocks \ {b}) \cup
           {Fresh(size, MIN_ALIGN, b.filled, b.value)}

ReallocFails(b, size) ==
  /\ size > HdrSize(b.start)
  /\ NoRoom(size, MIN_ALIGN)

\* The program stores into a block it owns, up to malloc_usable_size.
Store(b, v) ==
  LET usable == HdrSize(b.start)
  IN  /\ heap' = Memset(heap, b.start, usable, v)
      /\ blocks' = (blocks \ {b}) \cup
           {[b EXCEPT !.filled = usable, !.value = v]}
      /\ UNCHANGED heap_used

Next ==
  \/ \E size \in Request :
       \/ Malloc(size)
       \/ ExpandHeap(size)
       \/ \E alignment \in Alignment : Memalign(alignment, size)
       \/ \E b \in blocks :
            \/ ReallocInPlace(b, size)
            \/ ReallocMove(b, size)
            \/ ReallocFails(b, size)
  \/ \E c \in CallocArg : Calloc(c[1], c[2])
  \/ \E b \in blocks : Free(b) \/ \E v \in Value : Store(b, v)

Spec == Init /\ [][Next]_vars

-----------------------------------------------------------------------------
\* The cursor stays in the array and every cell and block has its type.
TypeOK ==
  /\ heap_used \in 0 .. HEAP_SIZE
  /\ heap \in [Byte -> Cell]
  /\ blocks \subseteq Block

\* Every block, its header included, lies below the cursor, and no two share
\* a byte: bump_alloc never hands out memory the program still owns, however
\* allocations, reallocations and frees follow each other.
BlocksDisjoint ==
  /\ \A b \in blocks : /\ HDR_SIZE <= b.start
                       /\ b.start + HdrSize(b.start) <= heap_used
  /\ \A b, c \in blocks : b # c =>
       \/ b.start + HdrSize(b.start) <= c.start - HDR_SIZE
       \/ c.start + HdrSize(c.start) <= b.start - HDR_SIZE

\* The header realloc and malloc_usable_size read is the one bump_alloc wrote,
\* even with every block filled to its last usable byte, and it grants at
\* least what was asked for: by calloc's two arguments multiplied, by the
\* latest realloc.
HeadersIntact ==
  \A b \in blocks : /\ heap[b.start - HDR_SIZE] \in Header
                    /\ b.want <= HdrSize(b.start)

\* What the program stored in a block is there until it stores again: through
\* stores to other blocks, allocations, and realloc's move of the block.
DataPreserved ==
  \A b \in blocks : \A i \in 0 .. b.filled - 1 : heap[b.start + i] = b.value

\* "Ensure returned pointer is aligned" (line 33).
PointersAligned == \A b \in blocks : (HeapBase + b.start) % b.align = 0
=============================================================================
