---------------------------- MODULE Memory_proofs ----------------------------
(***************************************************************************)
(* Proofs about BumpHeap for any heap size, alignments and requests, and   *)
(* about MCMemory, which puts the heap and the mmap arena in one           *)
(* specification, for any arena, page size and lengths.                    *)
(***************************************************************************)
EXTENDS MCMemory, Sequences, TLAPS

-----------------------------------------------------------------------------
\* Arithmetic of size_t.

\* A sum below 2^64 does not wrap, and rounding up adds less than the unit.
LEMMA RoundUpBounds ==
  ASSUME NEW x \in Nat, NEW a \in Nat \ {0}, x + a < WORD
  PROVE  /\ RoundUp(x, a) \in Nat
         /\ x <= RoundUp(x, a) /\ RoundUp(x, a) < x + a
<1> DEFINE y == x + a - 1
<1>1. y \in Nat /\ y < WORD
  BY SizesAssumption
<1>2. Wrap(x + a - 1) = y
  BY <1>1 DEF Wrap
<1>3. y % a \in 0 .. a - 1
  BY <1>1
<1> QED
  BY <1>1, <1>2, <1>3 DEF RoundUp

\* calloc's division test: when it does not report an overflow the product is
\* what the two arguments multiply to.
LEMMA CallocTotal ==
  ASSUME NEW n \in Nat, NEW s \in Nat, ~CallocOverflows(n, s)
  PROVE  (n * s) % WORD = n * s
<1> DEFINE p == n * s
           t == p % WORD
<1>1. p \in Nat
  OBVIOUS
<1>2. t \in Nat /\ t <= p
  BY <1>1, SizesAssumption
<1>3. CASE n = 0
  BY <1>2, <1>3
<1>4. CASE n # 0
  <2>1. t \div n = s
    BY <1>4 DEF CallocOverflows
  <2>2. n * (t \div n) <= t
    BY <1>2, <1>4
  <2> QED
    BY <1>1, <1>2, <2>1, <2>2
<1> QED
  BY <1>3, <1>4

\* The sizes and alignments that reach bump_alloc.
Size == Request \cup {(c[1] * c[2]) % WORD : c \in CallocArg}
AnyAlignment == Alignment \cup {MIN_ALIGN, PAGE}

LEMMA SizesAreNat ==
  /\ \A size \in Size : size \in Nat
  /\ \A a \in AnyAlignment : a \in Nat \ {0}
  /\ \A c \in CallocArg : c[1] \in Nat /\ c[2] \in Nat
<1>1. \A c \in CallocArg : c[1] \in Nat /\ c[2] \in Nat
  BY ArgumentsAssumption
<1>2. \A n, s \in Nat : n * s \in Nat
  OBVIOUS
<1>3. \A p \in Nat : p % WORD \in Nat
  BY SizesAssumption
<1>4. \A c \in CallocArg : (c[1] * c[2]) % WORD \in Nat
  BY <1>1, <1>2, <1>3
<1> QED
  BY <1>1, <1>4, SizesAssumption, ArgumentsAssumption DEF Size, AnyAlignment

\* bump_alloc places the header above everything given out and the block
\* behind the header; the block has room for what was asked.
LEMMA Placement ==
  ASSUME heap_used \in 0 .. HEAP_SIZE,
         NEW size \in Size, NEW a \in AnyAlignment
  PROVE  /\ Start(a) \in Nat /\ Padded(size) \in Nat
         /\ heap_used + HDR_SIZE <= Start(a)
         /\ size <= Padded(size) /\ 1 <= Padded(size)
         /\ End(size, a) = Start(a) + Padded(size)
<1>1. /\ size \in Nat /\ a \in Nat \ {0}
      /\ HEAP_SIZE + HDR_SIZE + size + a + 2 * MIN_ALIGN < WORD
  BY SizesAreNat, NoWrapAssumption DEF Size, AnyAlignment
<1>2. /\ HEAP_SIZE \in Nat /\ HDR_SIZE \in Nat \ {0}
      /\ MIN_ALIGN \in Nat \ {0} /\ WORD \in Nat /\ heap_used \in Nat
      /\ heap_used <= HEAP_SIZE
  BY SizesAssumption
<1> DEFINE asked == AtLeast(size, 1)
           al == AtLeast(a, MIN_ALIGN)
           from == heap_used + HDR_SIZE
<1>3. /\ asked \in Nat /\ 1 <= asked /\ size <= asked /\ asked <= size + 1
      /\ al \in Nat \ {0} /\ al <= a + MIN_ALIGN
  BY <1>1, <1>2 DEF AtLeast
<1>4. from \in Nat /\ from + al < WORD /\ Wrap(from) = from
  BY <1>1, <1>2, <1>3 DEF Wrap
<1>5. asked + MIN_ALIGN < WORD
  BY <1>1, <1>2, <1>3
<1> HIDE DEF asked, al, from
<1>6. /\ Padded(size) = RoundUp(asked, MIN_ALIGN)
      /\ Start(a) = RoundUp(from, al)
  BY <1>4 DEF Padded, Start, asked, al, from
<1>7. /\ Padded(size) \in Nat /\ asked <= Padded(size)
      /\ Padded(size) < asked + MIN_ALIGN
  BY <1>2, <1>3, <1>5, <1>6, RoundUpBounds
<1>8. /\ Start(a) \in Nat /\ from <= Start(a) /\ Start(a) < from + al
  BY <1>3, <1>4, <1>6, RoundUpBounds
<1>9. Start(a) + Padded(size) < WORD
  BY <1>1, <1>2, <1>3, <1>7, <1>8 DEF from
<1>10. End(size, a) = Start(a) + Padded(size)
  BY <1>7, <1>8, <1>9 DEF End, Wrap
<1> QED
  BY <1>1, <1>3, <1>7, <1>8, <1>10 DEF from

-----------------------------------------------------------------------------
\* The inductive invariant: one block's part and one for each pair.  A block's
\* data end where its capacity does, which BlocksDisjoint places below the
\* cursor and apart from the others.
BlockOK(b) ==
  /\ heap[b.start - HDR_SIZE] \in Header
  /\ HDR_SIZE <= b.start
  /\ b.start + HdrSize(b.start) <= heap_used
  /\ b.want <= HdrSize(b.start)
  /\ b.filled <= HdrSize(b.start)
  /\ \A i \in 0 .. b.filled - 1 : heap[b.start + i] = b.value

Apart(b, c) ==
  \/ b.start + HdrSize(b.start) <= c.start - HDR_SIZE
  \/ c.start + HdrSize(c.start) <= b.start - HDR_SIZE

HeapInv ==
  /\ TypeOK
  /\ \A b \in blocks : BlockOK(b)
  /\ \A b, c \in blocks : b # c => Apart(b, c)

LEMMA HeapInvImplies ==
  HeapInv => TypeOK /\ BlocksDisjoint /\ HeadersIntact /\ DataPreserved
  BY DEF HeapInv, BlockOK, Apart, BlocksDisjoint, HeadersIntact, DataPreserved

LEMMA InitHeapInv == Init => HeapInv
  BY SizesAssumption DEF Init, HeapInv, TypeOK, Cell, Byte

LEMMA HdrSizeNat ==
  ASSUME HeapInv, NEW b \in blocks
  PROVE  /\ HdrSize(b.start) \in Nat /\ b \in Block
         /\ heap[b.start - HDR_SIZE].size = HdrSize(b.start)
  BY DEF HeapInv, BlockOK, HdrSize, Header, TypeOK

\* Blocks whose header and contents keep their bytes stay as they are.
LEMMA BlockUntouched ==
  ASSUME HeapInv, NEW b \in blocks, heap_used <= heap_used',
         heap_used' \in Nat,
         \A i \in Byte : b.start - HDR_SIZE <= i
                         /\ i < b.start + HdrSize(b.start)
                           => heap'[i] = heap[i]
  PROVE  BlockOK(b)' /\ HdrSize(b.start)' = HdrSize(b.start)
<1> DEFINE n == HdrSize(b.start)
<1>1. /\ n \in Nat /\ b \in Block /\ BlockOK(b)
      /\ HDR_SIZE \in Nat \ {0} /\ HEAP_SIZE \in Nat
      /\ heap_used \in 0 .. HEAP_SIZE
  BY HdrSizeNat, SizesAssumption DEF HeapInv, TypeOK
<1>2. b.start \in Nat /\ b.filled \in Nat
  BY <1>1 DEF Block
<1>3. b.start - HDR_SIZE \in Byte
  BY <1>1, <1>2 DEF BlockOK, Byte
<1>4. heap'[b.start - HDR_SIZE] = heap[b.start - HDR_SIZE]
  BY <1>1, <1>2, <1>3
<1>5. HdrSize(b.start)' = n
  BY <1>4 DEF HdrSize
<1>6. ASSUME NEW i \in 0 .. b.filled - 1 PROVE heap'[b.start + i] = b.value
  <2>1. /\ b.start + i \in Byte /\ b.start - HDR_SIZE <= b.start + i
        /\ b.start + i < b.start + n
    BY <1>1, <1>2 DEF BlockOK, Byte
  <2>2. heap'[b.start + i] = heap[b.start + i]
    BY <2>1
  <2> QED
    BY <1>1, <2>2 DEF BlockOK
<1>7. b.start + n <= heap_used'
  BY <1>1, <1>2 DEF BlockOK
<1> QED
  BY <1>1, <1>4, <1>5, <1>6, <1>7 DEF BlockOK

\* What a successful bump_alloc does for every caller: above the cursor comes
\* a header and a block, below it nothing changes, and the program gets the
\* block, perhaps for one it gives up.
LEMMA AddBlock ==
  ASSUME HeapInv, NEW size \in Size, NEW a \in AnyAlignment, Fits(size, a),
         heap_used' = End(size, a),
         heap' \in [Byte -> Cell],
         heap'[Start(a) - HDR_SIZE] = [size |-> Padded(size)],
         \A i \in Byte : i < heap_used => heap'[i] = heap[i],
         NEW b \in Block, b.start = Start(a),
         b.want <= Padded(size), b.filled <= Padded(size),
         \A i \in 0 .. b.filled - 1 : heap'[b.start + i] = b.value,
         NEW kept \in SUBSET blocks, blocks' = kept \cup {b}
  PROVE  HeapInv'
<1> DEFINE st == Start(a)
           p == Padded(size)
<1>1. /\ st \in Nat /\ p \in Nat /\ 1 <= p
      /\ heap_used + HDR_SIZE <= st /\ heap_used' = st + p
      /\ heap_used \in Nat /\ HDR_SIZE \in Nat \ {0} /\ HEAP_SIZE \in Nat
      /\ heap_used' <= HEAP_SIZE
  BY Placement, SizesAssumption DEF HeapInv, TypeOK, Fits
<1> HIDE DEF st, p
<1>2. /\ b.start = st /\ heap'[st - HDR_SIZE] = [size |-> p]
      /\ b.want <= p /\ b.filled <= p
  BY DEF st, p
<1>3. TypeOK'
  BY <1>1 DEF HeapInv, TypeOK
<1>4. HdrSize(b.start)' = p /\ heap'[b.start - HDR_SIZE] \in Header
  BY <1>1, <1>2 DEF HdrSize, Header
<1>5. BlockOK(b)'
  BY <1>1, <1>2, <1>4 DEF BlockOK
<1>6. ASSUME NEW c \in kept
      PROVE  /\ BlockOK(c)' /\ HdrSize(c.start)' = HdrSize(c.start)
             /\ c.start + HdrSize(c.start) <= heap_used
             /\ c.start \in Nat /\ HdrSize(c.start) \in Nat
  <2>1. /\ c \in blocks /\ c \in Block /\ BlockOK(c) /\ c.start \in Nat
        /\ HdrSize(c.start) \in Nat
    BY HdrSizeNat DEF HeapInv, Block
  <2>2. c.start + HdrSize(c.start) <= heap_used
    BY <2>1 DEF BlockOK
  <2>3. \A i \in Byte : i < c.start + HdrSize(c.start) => heap'[i] = heap[i]
    BY <1>1, <2>1, <2>2 DEF Byte
  <2> QED
    BY <1>1, <2>1, <2>2, <2>3, BlockUntouched
<1>7. ASSUME NEW c \in kept PROVE Apart(c, b)' /\ Apart(b, c)'
  BY <1>1, <1>2, <1>6, <1>7 DEF Apart
<1>8. ASSUME NEW c \in kept, NEW d \in kept, c # d PROVE Apart(c, d)'
  <2>1. Apart(c, d)
    BY <1>8 DEF HeapInv
  <2> QED
    BY <1>6, <1>8, <2>1 DEF Apart
<1> QED
  BY <1>3, <1>5, <1>6, <1>7, <1>8 DEF HeapInv

\* The header is written above the cursor and inside the array.
LEMMA BumpedHeap ==
  ASSUME HeapInv, NEW size \in Size, NEW a \in AnyAlignment, Fits(size, a)
  PROVE  /\ Bumped(size, a) \in [Byte -> Cell]
         /\ Bumped(size, a)[Start(a) - HDR_SIZE] = [size |-> Padded(size)]
         /\ \A i \in Byte : i < heap_used => Bumped(size, a)[i] = heap[i]
         /\ Start(a) - HDR_SIZE \in Byte
<1> DEFINE st == Start(a)
           p == Padded(size)
<1>1. /\ st \in Nat /\ p \in Nat /\ 1 <= p /\ heap_used + HDR_SIZE <= st
      /\ st + p <= HEAP_SIZE
      /\ heap_used \in Nat /\ HDR_SIZE \in Nat \ {0} /\ HEAP_SIZE \in Nat
  BY Placement, SizesAssumption DEF HeapInv, TypeOK, Fits
<1>2. Bumped(size, a) = WithHeader(heap, st, p)
  BY DEF Bumped
<1> HIDE DEF st, p
<1>3. [size |-> p] \in Cell
  BY <1>1 DEF Cell, Header
<1>4. st - HDR_SIZE \in Byte
  BY <1>1 DEF Byte
<1>5. /\ WithHeader(heap, st, p) \in [Byte -> Cell]
      /\ WithHeader(heap, st, p)[st - HDR_SIZE] = [size |-> p]
      /\ \A i \in Byte : i < heap_used => WithHeader(heap, st, p)[i] = heap[i]
  BY <1>1, <1>3, <1>4 DEF WithHeader, HeapInv, TypeOK, Byte
<1> QED
  BY <1>2, <1>4, <1>5 DEF st, p

LEMMA AllocStep ==
  ASSUME HeapInv, NEW size \in Request, NEW a \in AnyAlignment, Alloc(size, a)
  PROVE  HeapInv'
<1>1. CASE UNCHANGED vars
  BY <1>1 DEF vars, HeapInv, TypeOK, BlockOK, Apart, HdrSize
<1>2. CASE /\ Fits(size, a)
           /\ heap_used' = End(size, a)
           /\ heap' = Bumped(size, a)
           /\ blocks' = blocks \cup {Fresh(size, a, 0, Zero)}
  <2>1. size \in Size /\ size \in Nat /\ a \in Nat
    BY SizesAreNat DEF Size
  <2>2. Start(a) \in Nat /\ Padded(size) \in Nat /\ size <= Padded(size)
    BY <2>1, Placement DEF HeapInv, TypeOK
  <2> DEFINE b == Fresh(size, a, 0, Zero)
  <2>3. /\ b \in Block /\ b.start = Start(a) /\ b.want = size /\ b.filled = 0
    BY <2>1, <2>2 DEF Fresh, Block
  <2>4. \A i \in 0 .. b.filled - 1 : heap'[b.start + i] = b.value
    BY <2>3
  <2> HIDE DEF b
  <2>5. blocks' = blocks \cup {b}
    BY <1>2 DEF b
  <2>6. /\ heap' \in [Byte -> Cell]
        /\ heap'[Start(a) - HDR_SIZE] = [size |-> Padded(size)]
        /\ \A i \in Byte : i < heap_used => heap'[i] = heap[i]
    BY <1>2, <2>1, BumpedHeap
  <2>7. b.want <= Padded(size) /\ b.filled <= Padded(size)
    BY <2>2, <2>3
  <2>8. Fits(size, a) /\ heap_used' = End(size, a)
    BY <1>2
  <2> QED
    BY <2>1, <2>3, <2>4, <2>5, <2>6, <2>7, <2>8, AddBlock
<1> QED
  BY <1>1, <1>2 DEF Alloc, NoRoom

\* calloc clears what it returns, inside the block.
LEMMA CallocStep ==
  ASSUME HeapInv, NEW c \in CallocArg, Calloc(c[1], c[2])
  PROVE  HeapInv'
<1> DEFINE n == c[1]
           s == c[2]
           total == (n * s) % WORD
<1>1. CASE UNCHANGED vars
  BY <1>1 DEF vars, HeapInv, TypeOK, BlockOK, Apart, HdrSize
<1>2. CASE /\ ~CallocOverflows(n, s)
           /\ Fits(total, MIN_ALIGN)
           /\ heap_used' = End(total, MIN_ALIGN)
           /\ heap' = Memset(Bumped(total, MIN_ALIGN), Start(MIN_ALIGN),
                             total, Zero)
           /\ blocks' = blocks \cup {Fresh(n * s, MIN_ALIGN, n * s, Zero)}
  <2> DEFINE st == Start(MIN_ALIGN)
             p == Padded(total)
             b == Fresh(total, MIN_ALIGN, total, Zero)
             h == Bumped(total, MIN_ALIGN)
  <2>1. n * s = total
    BY <1>2, SizesAreNat, CallocTotal
  <2>2. total \in Size /\ total \in Nat /\ MIN_ALIGN \in AnyAlignment
        /\ MIN_ALIGN \in Nat
    BY SizesAreNat, SizesAssumption DEF Size, AnyAlignment
  <2>3. blocks' = blocks \cup {b}
    BY <1>2, <2>1
  <2> HIDE DEF total
  <2>4. /\ st \in Nat /\ p \in Nat /\ total <= p
        /\ heap_used + HDR_SIZE <= st /\ st + p <= HEAP_SIZE
        /\ heap_used \in Nat /\ HEAP_SIZE \in Nat /\ HDR_SIZE \in Nat \ {0}
    BY <1>2, <2>2, Placement, SizesAssumption DEF HeapInv, TypeOK, Fits
  <2>5. /\ h \in [Byte -> Cell] /\ h[st - HDR_SIZE] = [size |-> p]
        /\ \A i \in Byte : i < heap_used => h[i] = heap[i]
        /\ st - HDR_SIZE \in Byte
    BY <1>2, <2>2, BumpedHeap
  <2>6. /\ b \in Block /\ b.start = st /\ b.want <= p
        /\ b.filled = total /\ b.value = Zero
    BY <2>2, <2>4 DEF Fresh, Block
  <2>7. heap' = Memset(h, st, total, Zero)
    BY <1>2
  <2> HIDE DEF st, p, b, h
  <2>8. /\ heap' \in [Byte -> Cell]
        /\ heap'[st - HDR_SIZE] = [size |-> p]
        /\ \A i \in Byte : i < heap_used => heap'[i] = heap[i]
    <3>1. heap' = [i \in Byte |->
                     IF st <= i /\ i < st + total THEN Zero ELSE h[i]]
      BY <2>7 DEF Memset
    <3>2. heap' \in [Byte -> Cell]
      BY <2>5, <3>1 DEF Cell
    <3>3. heap'[st - HDR_SIZE] = [size |-> p]
      BY <2>4, <2>5, <3>1
    <3>4. \A i \in Byte : i < heap_used => heap'[i] = heap[i]
      BY <2>4, <2>5, <3>1 DEF Byte
    <3> QED
      BY <3>2, <3>3, <3>4
  <2>9. \A i \in 0 .. b.filled - 1 : heap'[b.start + i] = b.value
    BY <2>2, <2>4, <2>6, <2>7 DEF Memset, Byte
  <2>10. Fits(total, MIN_ALIGN) /\ heap_used' = End(total, MIN_ALIGN)
    BY <1>2 DEF total
  <2>11. b.filled <= p
    BY <2>4, <2>6
  <2> QED
    BY <2>2, <2>3, <2>6, <2>8, <2>9, <2>10, <2>11, AddBlock DEF st, p
<1> QED
  BY <1>1, <1>2 DEF Calloc, NoRoom

\* realloc copies the old block's capacity, all of it below the cursor, to the
\* front of a block that is larger.
LEMMA ReallocMoveStep ==
  ASSUME HeapInv, NEW b \in blocks, NEW size \in Request, ReallocMove(b, size)
  PROVE  HeapInv'
<1> DEFINE st == Start(MIN_ALIGN)
           p == Padded(size)
           nb == Fresh(size, MIN_ALIGN, b.filled, b.value)
           h == Bumped(size, MIN_ALIGN)
           old == HdrSize(b.start)
<1>1. size \in Size /\ size \in Nat /\ MIN_ALIGN \in AnyAlignment
      /\ MIN_ALIGN \in Nat
  BY SizesAreNat, SizesAssumption DEF Size, AnyAlignment
<1>2. /\ Fits(size, MIN_ALIGN) /\ heap_used' = End(size, MIN_ALIGN)
      /\ heap' = Memcpy(h, st, b.start, old) /\ old < size
      /\ blocks' = (blocks \ {b}) \cup {nb}
  BY <1>1, HdrSizeNat DEF ReallocMove
<1>3. /\ st \in Nat /\ p \in Nat /\ size <= p
      /\ heap_used + HDR_SIZE <= st /\ st + p <= HEAP_SIZE
      /\ heap_used \in Nat /\ HEAP_SIZE \in Nat /\ HDR_SIZE \in Nat \ {0}
  BY <1>1, <1>2, Placement, SizesAssumption DEF HeapInv, TypeOK, Fits
<1>4. /\ h \in [Byte -> Cell] /\ h[st - HDR_SIZE] = [size |-> p]
      /\ \A i \in Byte : i < heap_used => h[i] = heap[i]
      /\ st - HDR_SIZE \in Byte
  BY <1>1, <1>2, BumpedHeap
<1>5. /\ b.start \in Nat /\ b.filled \in Nat /\ b.value \in Value \cup {Zero}
      /\ old \in Nat /\ b.filled <= old /\ b.start + old <= heap_used
      /\ \A i \in 0 .. b.filled - 1 : heap[b.start + i] = b.value
  BY HdrSizeNat DEF HeapInv, BlockOK, Block
<1>6. /\ nb \in Block /\ nb.start = st /\ nb.want <= p
      /\ nb.filled = b.filled /\ nb.value = b.value
  BY <1>1, <1>3, <1>5 DEF Fresh, Block
<1> HIDE DEF st, p, nb, h, old
<1>7. heap' \in [Byte -> Cell]
  <2>1. \A i \in Byte : st <= i /\ i < st + old => b.start + (i - st) \in Byte
    BY <1>3, <1>5 DEF Byte
  <2> QED
    BY <1>2, <1>4, <2>1 DEF Memcpy
<1>8. /\ heap'[st - HDR_SIZE] = [size |-> p]
      /\ \A i \in Byte : i < heap_used => heap'[i] = heap[i]
  BY <1>2, <1>3, <1>4 DEF Memcpy, Byte
<1>9. ASSUME NEW i \in 0 .. nb.filled - 1
      PROVE  heap'[nb.start + i] = nb.value
  <2>1. i \in 0 .. b.filled - 1 /\ i < old /\ i < p
    BY <1>1, <1>2, <1>3, <1>5, <1>6
  <2>2. st + i \in Byte /\ b.start + i \in Byte /\ b.start + i < heap_used
    BY <1>3, <1>5, <2>1 DEF Byte
  <2>3. heap'[st + i] = h[b.start + ((st + i) - st)]
    BY <1>2, <1>3, <1>5, <2>1, <2>2 DEF Memcpy
  <2>4. (st + i) - st = i
    BY <1>3, <2>1
  <2> QED
    BY <1>4, <1>5, <1>6, <2>1, <2>2, <2>3, <2>4
<1>10. nb.filled <= p
  BY <1>1, <1>2, <1>3, <1>5, <1>6
<1>11. blocks \ {b} \in SUBSET blocks
  OBVIOUS
<1> QED
  BY <1>1, <1>2, <1>6, <1>7, <1>8, <1>9, <1>10, <1>11, AddBlock DEF st, p

\* A block with the start of another keeps that one's place among the blocks.
LEMMA ReplaceBlock ==
  ASSUME HeapInv, NEW b \in blocks, NEW nb \in Block, nb.start = b.start,
         UNCHANGED heap_used, TypeOK', BlockOK(nb)',
         HdrSize(b.start)' = HdrSize(b.start),
         blocks' = (blocks \ {b}) \cup {nb},
         \A c \in blocks \ {b} :
           BlockOK(c)' /\ HdrSize(c.start)' = HdrSize(c.start)
  PROVE  HeapInv'
<1>1. \A c \in blocks' : BlockOK(c)'
  OBVIOUS
<1>2. ASSUME NEW c \in blocks \ {b} PROVE Apart(c, nb)' /\ Apart(nb, c)'
  <2>1. Apart(c, b)
    BY <1>2 DEF HeapInv
  <2>2. nb.start = b.start /\ HdrSize(nb.start)' = HdrSize(b.start)
    OBVIOUS
  <2> QED
    BY <1>2, <2>1, <2>2 DEF Apart
<1>3. ASSUME NEW c \in blocks \ {b}, NEW d \in blocks \ {b}, c # d
      PROVE  Apart(c, d)'
  <2>1. Apart(c, d)
    BY <1>3 DEF HeapInv
  <2> QED
    BY <1>3, <2>1 DEF Apart
<1> QED
  BY <1>1, <1>2, <1>3 DEF HeapInv

LEMMA ReallocInPlaceStep ==
  ASSUME HeapInv, NEW b \in blocks, NEW size \in Request,
         ReallocInPlace(b, size)
  PROVE  HeapInv'
<1> DEFINE nb == [b EXCEPT !.want = size]
<1>1. /\ b \in Block /\ BlockOK(b) /\ size \in Nat
  BY HdrSizeNat, ArgumentsAssumption DEF HeapInv
<1>2. /\ nb \in Block /\ nb.start = b.start /\ nb.want = size
      /\ nb.filled = b.filled /\ nb.value = b.value
  BY <1>1 DEF Block
<1>3. /\ blocks' = (blocks \ {b}) \cup {nb} /\ size <= HdrSize(b.start)
      /\ heap' = heap /\ heap_used' = heap_used
  BY DEF ReallocInPlace
<1> HIDE DEF nb
<1>4. BlockOK(nb)'
  BY <1>1, <1>2, <1>3 DEF BlockOK, HdrSize
<1>5. TypeOK'
  BY <1>2, <1>3 DEF HeapInv, TypeOK
<1>6. \A c \in blocks : BlockOK(c)' /\ HdrSize(c.start)' = HdrSize(c.start)
  BY <1>3 DEF HeapInv, BlockOK, HdrSize
<1> QED
  BY <1>2, <1>3, <1>4, <1>5, <1>6, ReplaceBlock

\* A store up to malloc_usable_size reaches no other block and no header.
LEMMA StoreStep ==
  ASSUME HeapInv, NEW b \in blocks, NEW v \in Value, Store(b, v)
  PROVE  HeapInv'
<1>0. PICK usable, nb : /\ usable = HdrSize(b.start)
                        /\ nb = [b EXCEPT !.filled = usable, !.value = v]
  OBVIOUS
<1>1. /\ b \in Block /\ b.start \in Nat /\ usable \in Nat
      /\ HDR_SIZE <= b.start /\ b.start + usable <= heap_used
      /\ b.want <= usable /\ heap[b.start - HDR_SIZE] \in Header
      /\ heap_used \in 0 .. HEAP_SIZE /\ HEAP_SIZE \in Nat
      /\ HDR_SIZE \in Nat \ {0}
  BY <1>0, HdrSizeNat, SizesAssumption DEF HeapInv, BlockOK, TypeOK, Block
<1>2. /\ nb \in Block /\ nb.start = b.start /\ nb.want = b.want
      /\ nb.filled = usable /\ nb.value = v
  BY <1>0, <1>1 DEF Block
<1>3. /\ blocks' = (blocks \ {b}) \cup {nb}
      /\ heap' = Memset(heap, b.start, usable, v) /\ heap_used' = heap_used
  BY <1>0 DEF Store
<1>4. TypeOK'
  BY <1>2, <1>3 DEF HeapInv, TypeOK, Memset, Cell
<1>5. b.start - HDR_SIZE \in Byte
  BY <1>1 DEF Byte
<1>6. /\ heap'[b.start - HDR_SIZE] = heap[b.start - HDR_SIZE]
      /\ HdrSize(b.start)' = usable
  <2>1. heap'[b.start - HDR_SIZE] = heap[b.start - HDR_SIZE]
    BY <1>1, <1>3, <1>5 DEF Memset
  <2> QED
    BY <1>0, <2>1 DEF HdrSize
<1>7. ASSUME NEW i \in 0 .. usable - 1 PROVE heap'[b.start + i] = v
  BY <1>1, <1>3, <1>7 DEF Memset, Byte
<1>8. BlockOK(nb)'
  BY <1>1, <1>2, <1>3, <1>6, <1>7 DEF BlockOK
<1>9. ASSUME NEW c \in blocks \ {b}
      PROVE  BlockOK(c)' /\ HdrSize(c.start)' = HdrSize(c.start)
  <2>1. /\ Apart(b, c) /\ c \in Block /\ c.start \in Nat
        /\ HdrSize(c.start) \in Nat
    BY HdrSizeNat DEF HeapInv, Block
  <2>2. \A i \in Byte : c.start - HDR_SIZE <= i
                        /\ i < c.start + HdrSize(c.start)
                          => heap'[i] = heap[i]
    BY <1>0, <1>1, <1>3, <2>1 DEF Memset, Apart, Byte
  <2> QED
    BY <1>1, <1>3, <2>2, BlockUntouched
<1> QED
  BY <1>0, <1>2, <1>3, <1>4, <1>6, <1>8, <1>9, ReplaceBlock

LEMMA NextHeapInv == HeapInv /\ [Next]_vars => HeapInv'
<1> SUFFICES ASSUME HeapInv, [Next]_vars PROVE HeapInv'
  OBVIOUS
<1>1. ASSUME NEW size \in Request,
             \/ Malloc(size) \/ ExpandHeap(size)
             \/ \E alignment \in Alignment : Memalign(alignment, size)
      PROVE  HeapInv'
  BY <1>1, AllocStep DEF Malloc, ExpandHeap, Memalign, AnyAlignment
<1>2. ASSUME NEW size \in Request, NEW b \in blocks,
             \/ ReallocInPlace(b, size) \/ ReallocMove(b, size)
      PROVE  HeapInv'
  BY <1>2, ReallocInPlaceStep, ReallocMoveStep
<1>3. ASSUME NEW c \in CallocArg, Calloc(c[1], c[2]) PROVE HeapInv'
  BY <1>3, CallocStep
<1>4. ASSUME NEW b \in blocks, Free(b) PROVE HeapInv'
  BY <1>4 DEF Free, HeapInv, TypeOK, BlockOK, Apart, HdrSize
<1>5. ASSUME NEW b \in blocks, NEW v \in Value, Store(b, v) PROVE HeapInv'
  BY <1>5, StoreStep
<1>6. CASE UNCHANGED vars
  BY <1>6 DEF vars, HeapInv, TypeOK, BlockOK, Apart, HdrSize
<1>7. ASSUME NEW size \in Request, NEW b \in blocks, ReallocFails(b, size)
      PROVE  HeapInv'
  BY <1>6, <1>7 DEF ReallocFails, NoRoom
<1> QED
  BY <1>1, <1>2, <1>3, <1>4, <1>5, <1>6, <1>7 DEF Next

THEOREM HeapInvariant == Spec => []HeapInv
<1>1. Init => HeapInv
  BY InitHeapInv
<1>2. HeapInv /\ [Next]_vars => HeapInv'
  BY NextHeapInv
<1> QED
  BY <1>1, <1>2, PTL DEF Spec

\* For every heap size and every sequence of calls, no two blocks the program
\* owns overlap, headers included.
THEOREM BlocksNeverOverlap == Spec => []BlocksDisjoint
<1>1. HeapInv => BlocksDisjoint
  BY HeapInvImplies
<1> QED
  BY <1>1, HeapInvariant, PTL

\* What realloc and malloc_usable_size read before a block is the size that
\* bump_alloc wrote there, never less than what was asked for.
THEOREM HeadersSurvive == Spec => []HeadersIntact
<1>1. HeapInv => HeadersIntact
  BY HeapInvImplies
<1> QED
  BY <1>1, HeapInvariant, PTL

\* What the program stored in a block stays there, through every move.
THEOREM DataSurvives == Spec => []DataPreserved
<1>1. HeapInv => DataPreserved
  BY HeapInvImplies
<1> QED
  BY <1>1, HeapInvariant, PTL

-----------------------------------------------------------------------------
(* Arithmetic of pages. *)

LEMMA MultipleModulo ==
  ASSUME NEW p \in Nat \ {0}, NEW k \in Nat PROVE (p * k) % p = 0
<1> DEFINE q == (p * k) \div p
           r == (p * k) % p
<1>1. p * k \in Nat /\ q \in Nat /\ r \in 0 .. p - 1 /\ p * k = p * q + r
  OBVIOUS
<1> HIDE DEF q, r
<1>2. p * (k - q) = r
  BY <1>1
<1>3. CASE k - q >= 1
  <2>1. p * (k - q) >= p * 1
    BY <1>1, <1>3
  <2> QED
    BY <1>1, <1>2, <2>1
<1>4. CASE k - q <= -1
  <2>1. p * (k - q) <= p * (-1)
    BY <1>1, <1>4
  <2> QED
    BY <1>1, <1>2, <2>1
<1>5. CASE k = q
  BY <1>1, <1>5
<1>6. r = 0
  BY <1>1, <1>3, <1>4, <1>5
<1> QED
  BY <1>6 DEF r

-----------------------------------------------------------------------------
(* Alignment, of blocks aligned to no more than a page. *)

LEMMA Quotient ==
  ASSUME NEW a \in Nat \ {0}, NEW x \in Nat, x % a = 0
  PROVE  x \div a \in Nat /\ x = a * (x \div a)
  OBVIOUS

\* What one unit divides, a unit that divides that one does too; and sums.
LEMMA DividesThrough ==
  ASSUME NEW a \in Nat \ {0}, NEW p \in Nat \ {0}, NEW x \in Nat,
         NEW y \in Nat,
         p % a = 0, x % p = 0, y % a = 0
  PROVE  (x + y) % a = 0
<1>1. PICK k \in Nat : p = a * k
  BY Quotient
<1>2. PICK l \in Nat : x = p * l
  BY Quotient
<1>3. PICK m \in Nat : y = a * m
  BY Quotient
<1>4. x + y = a * (k * l + m) /\ k * l + m \in Nat
  <2>1. x = a * (k * l)
    BY <1>1, <1>2
  <2> QED
    BY <1>3, <2>1
<1> DEFINE n == k * l + m
<1>5. x + y = a * n /\ n \in Nat
  BY <1>4
<1> HIDE DEF n
<1>6. (a * n) % a = 0
  BY <1>5, MultipleModulo
<1> QED
  BY <1>5, <1>6

LEMMA RoundUpMultiple ==
  ASSUME NEW x \in Nat, NEW a \in Nat \ {0}, x + a < WORD
  PROVE  RoundUp(x, a) % a = 0
<1> DEFINE y == x + a - 1
           q == y \div a
<1>1. y \in Nat /\ y < WORD
  BY SizesAssumption
<1>2. Wrap(x + a - 1) = y
  BY <1>1 DEF Wrap
<1>3. RoundUp(x, a) = y - (y % a)
  BY <1>2 DEF RoundUp
<1> HIDE DEF y
<1>4. y - (y % a) = a * q /\ q \in Nat
  BY <1>1
<1> HIDE DEF q
<1>5. (a * q) % a = 0
  BY <1>4, MultipleModulo
<1> QED
  BY <1>3, <1>4, <1>5

LEMMA StartAligned ==
  ASSUME AlignmentsDividePage, heap_used \in 0 .. HEAP_SIZE,
         NEW size \in Size, NEW a \in AnyAlignment
  PROVE  (HeapBase + Start(a)) % a = 0
<1> DEFINE al == AtLeast(a, MIN_ALIGN)
           from == heap_used + HDR_SIZE
<1>1. /\ size \in Nat /\ a \in Nat \ {0}
      /\ HEAP_SIZE + HDR_SIZE + size + a + 2 * MIN_ALIGN < WORD
  BY SizesAreNat, NoWrapAssumption DEF Size, AnyAlignment
<1>2. /\ HEAP_SIZE \in Nat /\ HDR_SIZE \in Nat \ {0} /\ PAGE \in Nat \ {0}
      /\ MIN_ALIGN \in Nat \ {0} /\ WORD \in Nat /\ heap_used \in Nat
      /\ heap_used <= HEAP_SIZE /\ HeapBase \in Nat /\ HeapBase % PAGE = 0
  BY SizesAssumption
<1>3. al \in Nat \ {0} /\ al <= a + MIN_ALIGN
  BY <1>1, <1>2 DEF AtLeast
<1>4. from \in Nat /\ from + al < WORD /\ Wrap(from) = from
  BY <1>1, <1>2, <1>3 DEF Wrap
<1>5. Start(a) = RoundUp(from, al)
  BY <1>4 DEF Start
<1>6. Start(a) \in Nat /\ Start(a) % al = 0
  BY <1>3, <1>4, <1>5, RoundUpBounds, RoundUpMultiple
<1>7. PAGE % a = 0 /\ (al # a => MIN_ALIGN % a = 0 /\ al = MIN_ALIGN)
  <2>1. PAGE % PAGE = 0 /\ PAGE >= 1
    BY <1>2
  <2>2. PAGE % MIN_ALIGN = 0
    BY DEF AlignmentsDividePage
  <2>3. PAGE >= MIN_ALIGN
    <3> DEFINE k == PAGE \div MIN_ALIGN
    <3>1. k \in Nat /\ PAGE = MIN_ALIGN * k
      BY <1>2, <2>2, Quotient
    <3> HIDE DEF k
    <3>2. k # 0
      BY <1>2, <3>1
    <3>3. MIN_ALIGN * k >= MIN_ALIGN * 1
      BY <1>2, <3>1, <3>2
    <3> QED
      BY <1>2, <3>1, <3>3
  <2> QED
    BY <1>1, <1>2, <2>1, <2>2, <2>3
    DEF AlignmentsDividePage, AnyAlignment, AtLeast
<1> HIDE DEF al
<1>8. Start(a) % a = 0
  <2>1. CASE al = a
    BY <1>6, <2>1
  <2>2. CASE al # a
    <3>1. 0 % a = 0
      BY <1>1
    <3>2. (Start(a) + 0) % a = 0
      BY <1>1, <1>2, <1>6, <1>7, <2>2, <3>1, DividesThrough
    <3> QED
      BY <1>6, <3>2
  <2> QED
    BY <2>1, <2>2
<1>9. /\ a \in Nat \ {0} /\ PAGE \in Nat \ {0} /\ PAGE % a = 0
      /\ HeapBase \in Nat /\ HeapBase % PAGE = 0
      /\ Start(a) \in Nat /\ Start(a) % a = 0
  BY <1>1, <1>2, <1>6, <1>7, <1>8
<1> HIDE DEF from
<1> QED
  BY ONLY <1>9, DividesThrough

\* A new block is aligned, and no block moves or changes its alignment.
LEMMA NextAligned ==
  ASSUME AlignmentsDividePage, HeapInv, PointersAligned, [Next]_vars
  PROVE  PointersAligned'
<1>1. heap_used \in 0 .. HEAP_SIZE /\ blocks \subseteq Block
  BY DEF HeapInv, TypeOK
<1>2. ASSUME NEW size \in Size, NEW a \in AnyAlignment, NEW want, NEW filled,
             NEW value, NEW kept \in SUBSET blocks,
             blocks' = kept \cup {Fresh(want, a, filled, value)}
      PROVE  PointersAligned'
  <2>1. (HeapBase + Start(a)) % a = 0
    BY <1>1, StartAligned
  <2>2. /\ Fresh(want, a, filled, value).start = Start(a)
        /\ Fresh(want, a, filled, value).align = a
    BY DEF Fresh
  <2> QED
    BY <1>2, <2>1, <2>2 DEF PointersAligned
<1>3. ASSUME NEW b \in blocks, NEW nb, nb.start = b.start, nb.align = b.align,
             blocks' = (blocks \ {b}) \cup {nb}
      PROVE  PointersAligned'
  BY <1>3 DEF PointersAligned
<1>4. ASSUME NEW size \in Request, NEW a \in AnyAlignment, Alloc(size, a)
      PROVE  PointersAligned'
  <2>1. CASE NoRoom(size, a)
    BY <2>1 DEF NoRoom, vars, PointersAligned
  <2>2. CASE blocks' = blocks \cup {Fresh(size, a, 0, Zero)}
    BY <1>2, <2>2 DEF Size
  <2> QED
    BY <1>4, <2>1, <2>2 DEF Alloc
<1>5. CASE \E size \in Request :
             \/ Malloc(size) \/ ExpandHeap(size)
             \/ \E alignment \in Alignment : Memalign(alignment, size)
  BY <1>4, <1>5 DEF Malloc, ExpandHeap, Memalign, AnyAlignment
<1>6. ASSUME NEW c \in CallocArg, Calloc(c[1], c[2]) PROVE PointersAligned'
  <2>1. CASE UNCHANGED vars
    BY <2>1 DEF vars, PointersAligned
  <2>2. CASE blocks' = blocks \cup
               {Fresh(c[1] * c[2], MIN_ALIGN, c[1] * c[2], Zero)}
    <3>1. (c[1] * c[2]) % WORD \in Size /\ MIN_ALIGN \in AnyAlignment
      BY DEF Size, AnyAlignment
    <3> QED
      BY <1>2, <2>2, <3>1
  <2> QED
    BY <1>6, <2>1, <2>2 DEF Calloc, NoRoom
<1>7. ASSUME NEW b \in blocks, Free(b) PROVE PointersAligned'
  BY <1>7 DEF Free, PointersAligned
<1>8. ASSUME NEW b \in blocks, NEW size \in Request, ReallocInPlace(b, size)
      PROVE  PointersAligned'
  <2> DEFINE nb == [b EXCEPT !.want = size]
  <2>1. nb.start = b.start /\ nb.align = b.align
    BY <1>1 DEF Block
  <2>2. blocks' = (blocks \ {b}) \cup {nb}
    BY <1>8 DEF ReallocInPlace
  <2> HIDE DEF nb
  <2> QED
    BY <1>3, <2>1, <2>2
<1>9. ASSUME NEW b \in blocks, NEW size \in Request, ReallocMove(b, size)
      PROVE  PointersAligned'
  <2>1. /\ blocks' = (blocks \ {b}) \cup
             {Fresh(size, MIN_ALIGN, b.filled, b.value)}
        /\ size \in Size /\ MIN_ALIGN \in AnyAlignment
        /\ blocks \ {b} \in SUBSET blocks
    BY <1>9 DEF ReallocMove, Size, AnyAlignment
  <2> QED
    BY <1>2, <2>1
<1>10. ASSUME NEW b \in blocks, NEW size \in Request, ReallocFails(b, size)
       PROVE  PointersAligned'
  BY <1>10 DEF ReallocFails, NoRoom, vars, PointersAligned
<1>11. ASSUME NEW b \in blocks, NEW v \in Value, Store(b, v)
       PROVE  PointersAligned'
  <2> DEFINE nb == [b EXCEPT !.filled = HdrSize(b.start), !.value = v]
  <2>1. nb.start = b.start /\ nb.align = b.align
    BY <1>1 DEF Block
  <2>2. blocks' = (blocks \ {b}) \cup {nb}
    BY <1>11 DEF Store
  <2> HIDE DEF nb
  <2> QED
    BY <1>3, <2>1, <2>2
<1>12. CASE UNCHANGED vars
  BY <1>12 DEF vars, PointersAligned
<1> QED
  BY <1>5, <1>6, <1>7, <1>8, <1>9, <1>10, <1>11, <1>12 DEF Next

\* "Ensure returned pointer is aligned" (bump_alloc): true of every block a
\* program owns, wherever the linker puts the array, as long as no alignment
\* asked for is larger than the array's own.
THEOREM PointersStayAligned ==
  AlignmentsDividePage /\ Spec => []PointersAligned
<1> SUFFICES ASSUME AlignmentsDividePage PROVE Spec => []PointersAligned
  OBVIOUS
<1>1. Init => PointersAligned
  BY DEF Init, PointersAligned
<1>2. HeapInv /\ PointersAligned /\ [Next]_vars => PointersAligned'
  BY NextAligned
<1> QED
  BY <1>1, <1>2, HeapInvariant, PTL DEF Spec

-----------------------------------------------------------------------------
(* The mmap arena. *)

ArenaAssumptions ==
  Mmap!ArenaAssumption /\ Mmap!LengthAssumption /\ Mmap!NoWrapAssumption

-----------------------------------------------------------------------------
\* Arithmetic of pages.

LEMMA PageUpBounds ==
  ASSUME Mmap!ArenaAssumption, NEW x \in Nat, x <= MMAP_LIMIT
  PROVE  /\ Mmap!PageUp(x) \in Nat /\ Mmap!PageUp(x) % MMAP_PAGE = 0
         /\ x <= Mmap!PageUp(x) /\ Mmap!PageUp(x) < x + MMAP_PAGE
<1> DEFINE y == x + MMAP_PAGE - 1
<1>1. /\ MMAP_PAGE \in Nat \ {0} /\ y \in Nat /\ y < WORD
  BY DEF Mmap!ArenaAssumption
<1>2. Mmap!Wrap(x + MMAP_PAGE - 1) = y
  BY <1>1 DEF Mmap!Wrap
<1>3. /\ y % MMAP_PAGE \in 0 .. MMAP_PAGE - 1
      /\ y = MMAP_PAGE * (y \div MMAP_PAGE) + (y % MMAP_PAGE)
  BY <1>1
<1>4. Mmap!PageUp(x) = y - (y % MMAP_PAGE)
  BY <1>2 DEF Mmap!PageUp
<1>5. /\ Mmap!PageUp(x) = MMAP_PAGE * (y \div MMAP_PAGE)
      /\ y \div MMAP_PAGE \in Nat
  BY <1>1, <1>3, <1>4
<1>6. (MMAP_PAGE * (y \div MMAP_PAGE)) % MMAP_PAGE = 0
  BY <1>1, <1>5, MultipleModulo
<1> QED
  BY <1>1, <1>3, <1>4, <1>5, <1>6

\* No page boundary lies between an address and its rounding up.
LEMMA PageUpLeast ==
  ASSUME Mmap!ArenaAssumption, NEW x \in Nat, x <= MMAP_LIMIT,
         NEW y \in Nat, y % MMAP_PAGE = 0, x <= y
  PROVE  Mmap!PageUp(x) <= y
<1>1. MMAP_PAGE \in Nat \ {0}
  BY DEF Mmap!ArenaAssumption
<1>2. /\ Mmap!PageUp(x) \in Nat /\ Mmap!PageUp(x) % MMAP_PAGE = 0
      /\ Mmap!PageUp(x) < y + MMAP_PAGE
  BY PageUpBounds, <1>1
<1> DEFINE k == Mmap!PageUp(x) \div MMAP_PAGE
           j == y \div MMAP_PAGE
<1>3. k \in Nat /\ Mmap!PageUp(x) = MMAP_PAGE * k
  BY <1>1, <1>2
<1>4. j \in Nat /\ y = MMAP_PAGE * j
  BY <1>1
<1> HIDE DEF k, j
<1>5. ASSUME k > j PROVE FALSE
  <2>1. k >= j + 1
    BY <1>3, <1>4, <1>5
  <2>2. MMAP_PAGE * k >= MMAP_PAGE * (j + 1)
    BY <1>1, <1>3, <1>4, <2>1
  <2>3. MMAP_PAGE * (j + 1) = MMAP_PAGE * j + MMAP_PAGE
    BY <1>1, <1>4
  <2> QED
    BY <1>1, <1>2, <1>3, <1>4, <2>2, <2>3
<1>6. MMAP_PAGE * k <= MMAP_PAGE * j
  BY <1>1, <1>3, <1>4, <1>5
<1> QED
  BY <1>3, <1>4, <1>6

-----------------------------------------------------------------------------
\* The inductive invariant: where a region lies, what it reads as, and that
\* it is below the cursor, above which the next one will be.
Holds(r) ==
  \A i \in 1 .. Mmap!LengthOf(r) :
    r.expected[i] # Stale => ram[r.addr + i - 1] = r.expected[i]

RegionOK(r) ==
  /\ r \in Mmap!Region /\ 1 <= Mmap!LengthOf(r)
  /\ r.addr % MMAP_PAGE = 0 /\ r.addr + Mmap!LengthOf(r) <= mmap_next
  /\ Holds(r)

RegionsApart(r, s) == Mmap!PageEnd(r) <= s.addr \/ Mmap!PageEnd(s) <= r.addr

ArenaInv ==
  /\ mmap_next \in MMAP_BASE .. MMAP_LIMIT
  /\ ram \in [Mmap!Address -> Mmap!Byte]
  /\ \A r \in regions : RegionOK(r)
  /\ \A r, s \in regions : r # s => RegionsApart(r, s)

LEMMA RegionFacts ==
  ASSUME ArenaAssumptions, NEW r \in Mmap!Region, 1 <= Mmap!LengthOf(r),
         r.addr + Mmap!LengthOf(r) <= MMAP_LIMIT
  PROVE  /\ r.addr \in Mmap!Address /\ r.addr \in Nat
         /\ Mmap!LengthOf(r) \in Nat
         /\ r.expected \in Seq(Mmap!Byte)
         /\ Mmap!PageEnd(r) \in Nat /\ Mmap!PageEnd(r) <= MMAP_LIMIT
         /\ Mmap!PageEnd(r) % MMAP_PAGE = 0
         /\ r.addr + Mmap!LengthOf(r) <= Mmap!PageEnd(r)
<1>1. /\ r.addr \in Mmap!Address /\ r.addr \in Nat /\ Mmap!LengthOf(r) \in Nat
      /\ r.expected \in Seq(Mmap!Byte)
  BY DEF Mmap!Region, Mmap!Address, Mmap!LengthOf, ArenaAssumptions,
         Mmap!ArenaAssumption
<1>2. /\ MMAP_LIMIT \in Nat /\ MMAP_LIMIT % MMAP_PAGE = 0
      /\ Mmap!ArenaAssumption
  BY DEF ArenaAssumptions, Mmap!ArenaAssumption
<1> QED
  BY <1>1, <1>2, PageUpBounds, PageUpLeast DEF Mmap!PageEnd

LEMMA ArenaInvImplies ==
  ArenaAssumptions /\ ArenaInv =>
    Mmap!TypeOK /\ Mmap!RegionsDisjoint /\ Mmap!RegionsReadBack
<1> SUFFICES ASSUME ArenaAssumptions, ArenaInv
             PROVE  Mmap!TypeOK /\ Mmap!RegionsDisjoint /\ Mmap!RegionsReadBack
  OBVIOUS
<1>1. \A r \in regions : /\ r \in Mmap!Region /\ Mmap!PageEnd(r) <= MMAP_LIMIT
                         /\ r.addr % MMAP_PAGE = 0
  <2> TAKE r \in regions
  <2>1. /\ r \in Mmap!Region /\ 1 <= Mmap!LengthOf(r) /\ r.addr % MMAP_PAGE = 0
        /\ r.addr + Mmap!LengthOf(r) <= mmap_next
    BY DEF ArenaInv, RegionOK
  <2>2. r.addr + Mmap!LengthOf(r) <= MMAP_LIMIT
    BY <2>1
    DEF ArenaInv, Mmap!Region, Mmap!Address, Mmap!LengthOf, ArenaAssumptions,
        Mmap!ArenaAssumption
  <2> QED
    BY <2>1, <2>2, RegionFacts
<1> QED
  BY <1>1
  DEF ArenaInv, RegionOK, Holds, RegionsApart, Mmap!TypeOK,
      Mmap!RegionsDisjoint, Mmap!RegionsReadBack

LEMMA InitArenaInv == ArenaAssumptions /\ Mmap!Init => ArenaInv
  BY DEF ArenaAssumptions, Mmap!ArenaAssumption, Mmap!Init, ArenaInv, Mmap!Byte

-----------------------------------------------------------------------------
\* A region is added, in place of others or not: what it must be, and what
\* the step must leave alone.
LEMMA AddRegion ==
  ASSUME ArenaAssumptions, ArenaInv,
         NEW others \in SUBSET regions, NEW n \in Mmap!Region,
         mmap_next' \in mmap_next .. MMAP_LIMIT,
         ram' \in [Mmap!Address -> Mmap!Byte],
         regions' = others \cup {n},
         1 <= Mmap!LengthOf(n), n.addr % MMAP_PAGE = 0,
         n.addr + Mmap!LengthOf(n) <= mmap_next',
         \A i \in 1 .. Mmap!LengthOf(n) :
           n.expected[i] # Stale => ram'[n.addr + i - 1] = n.expected[i],
         \A s \in others : RegionsApart(n, s),
         \A a \in Mmap!Address :
           a < n.addr \/ n.addr + Mmap!LengthOf(n) <= a => ram'[a] = ram[a]
  PROVE  ArenaInv'
<1>1. /\ MMAP_BASE \in Nat /\ MMAP_LIMIT \in Nat
      /\ mmap_next \in MMAP_BASE .. MMAP_LIMIT
  BY DEF ArenaAssumptions, Mmap!ArenaAssumption, ArenaInv
<1>2. mmap_next' \in MMAP_BASE .. MMAP_LIMIT /\ mmap_next <= mmap_next'
  BY <1>1
<1>3. RegionOK(n)'
  BY DEF RegionOK, Holds, Mmap!LengthOf
<1>4. /\ n.addr \in Nat /\ Mmap!LengthOf(n) \in Nat
      /\ n.addr + Mmap!LengthOf(n) <= Mmap!PageEnd(n)
      /\ Mmap!PageEnd(n) \in Nat
  <2>1. n.addr + Mmap!LengthOf(n) <= MMAP_LIMIT
    BY <1>1, <1>2 DEF Mmap!Region, Mmap!Address, Mmap!LengthOf
  <2> QED
    BY <2>1, RegionFacts
<1>5. ASSUME NEW s \in others PROVE RegionOK(s)'
  <2>1. /\ RegionOK(s) /\ RegionsApart(n, s)
    BY DEF ArenaInv
  <2>2. /\ s.addr \in Nat /\ Mmap!LengthOf(s) \in Nat
        /\ s.addr \in Mmap!Address
        /\ s.addr + Mmap!LengthOf(s) <= mmap_next
    BY <2>1, <1>1 DEF RegionOK, Mmap!Region, Mmap!Address, Mmap!LengthOf
  <2>3. s.addr + Mmap!LengthOf(s) <= Mmap!PageEnd(s) /\ Mmap!PageEnd(s) \in Nat
    <3>1. s.addr + Mmap!LengthOf(s) <= MMAP_LIMIT
      BY <1>1, <2>2
    <3> QED
      BY <2>1, <3>1, RegionFacts DEF RegionOK
  <2>4. ASSUME NEW i \in 1 .. Mmap!LengthOf(s)
        PROVE  ram'[s.addr + i - 1] = ram[s.addr + i - 1]
    <3>1. s.addr + i - 1 \in Mmap!Address
      BY <1>1, <2>2 DEF Mmap!Address
    <3>2. \/ s.addr + i - 1 < n.addr
          \/ n.addr + Mmap!LengthOf(n) <= s.addr + i - 1
      BY <1>4, <2>1, <2>2, <2>3 DEF RegionsApart
    <3> QED
      BY <3>1, <3>2
  <2>5. s.addr + Mmap!LengthOf(s) <= mmap_next'
    BY <1>1, <1>2, <2>2
  <2> QED
    BY <2>1, <2>4, <2>5 DEF RegionOK, Holds, Mmap!LengthOf
<1>6. \A r, s \in regions' : r # s => RegionsApart(r, s)'
  BY DEF ArenaInv, RegionsApart, Mmap!PageEnd, Mmap!LengthOf
<1> QED
  BY <1>2, <1>3, <1>5, <1>6 DEF ArenaInv

\* Where sys_mmap places a region: on a page above every other.
LEMMA RegionPlacement ==
  ASSUME ArenaAssumptions, ArenaInv, NEW length \in Length,
         ~Mmap!OutOfArena(length)
  PROVE  /\ length \in Nat \ {0}
         /\ Mmap!Aligned \in Mmap!Address /\ Mmap!Aligned % MMAP_PAGE = 0
         /\ Mmap!Wrap(Mmap!Aligned + length) = Mmap!Aligned + length
         /\ Mmap!Aligned + length \in mmap_next .. MMAP_LIMIT
         /\ \A r \in regions : Mmap!PageEnd(r) <= Mmap!Aligned
<1>1. /\ MMAP_PAGE \in Nat \ {0} /\ MMAP_BASE \in Nat /\ MMAP_LIMIT \in Nat
      /\ MMAP_LIMIT % MMAP_PAGE = 0 /\ mmap_next \in MMAP_BASE .. MMAP_LIMIT
      /\ length \in Nat \ {0} /\ MMAP_LIMIT + length + MMAP_PAGE < WORD
      /\ Mmap!ArenaAssumption /\ WORD \in Nat
  BY DEF ArenaAssumptions, Mmap!ArenaAssumption, Mmap!LengthAssumption,
         Mmap!NoWrapAssumption,
         ArenaInv
<1>2. /\ Mmap!Aligned \in Nat /\ Mmap!Aligned % MMAP_PAGE = 0
      /\ mmap_next <= Mmap!Aligned
      /\ Mmap!Aligned <= MMAP_LIMIT
  BY <1>1, PageUpBounds, PageUpLeast DEF Mmap!Aligned
<1>3. Mmap!Wrap(Mmap!Aligned + length) = Mmap!Aligned + length
  BY <1>1, <1>2 DEF Mmap!Wrap
<1>4. Mmap!Aligned + length <= MMAP_LIMIT
  BY <1>1, <1>2, <1>3 DEF Mmap!OutOfArena
<1>5. ASSUME NEW r \in regions PROVE Mmap!PageEnd(r) <= Mmap!Aligned
  <2>1. /\ r.addr \in Nat /\ Mmap!LengthOf(r) \in Nat
        /\ r.addr + Mmap!LengthOf(r) <= mmap_next
    BY <1>1 DEF ArenaInv, RegionOK, Mmap!Region, Mmap!Address, Mmap!LengthOf
  <2> QED
    BY <1>1, <1>2, <2>1, PageUpLeast DEF Mmap!PageEnd
<1> QED
  BY <1>1, <1>2, <1>3, <1>4, <1>5 DEF Mmap!Address

\* A region placed there, whatever bytes it is promised.
LEMMA Placed ==
  ASSUME ArenaAssumptions, ArenaInv, NEW length \in Length,
         ~Mmap!OutOfArena(length),
         NEW bytes \in Seq(Mmap!Byte), Len(bytes) = length
  PROVE  /\ Mmap!RegionAt(Mmap!Aligned, bytes) \in Mmap!Region
         /\ Mmap!LengthOf(Mmap!RegionAt(Mmap!Aligned, bytes)) = length
         /\ Mmap!RegionAt(Mmap!Aligned, bytes).addr = Mmap!Aligned
         /\ Mmap!RegionAt(Mmap!Aligned, bytes).expected = bytes
         /\ \A s \in regions :
              RegionsApart(Mmap!RegionAt(Mmap!Aligned, bytes), s)
  BY RegionPlacement
  DEF Mmap!RegionAt, Mmap!Region, Mmap!LengthOf, RegionsApart

\* What Put writes, where it writes and elsewhere.
LEMMA PutBytes ==
  ASSUME ArenaAssumptions, ArenaInv,
         NEW to \in Mmap!Address, NEW bytes \in Seq(Mmap!Byte),
         to + Len(bytes) <= MMAP_LIMIT
  PROVE  /\ Mmap!Put(to, bytes) \in [Mmap!Address -> Mmap!Byte]
         /\ \A i \in 1 .. Len(bytes) :
              Mmap!Put(to, bytes)[to + i - 1] = bytes[i]
         /\ \A a \in Mmap!Address : a < to \/ to + Len(bytes) <= a =>
                                 Mmap!Put(to, bytes)[a] = ram[a]
<1>1. /\ MMAP_BASE \in Nat /\ MMAP_LIMIT \in Nat /\ to \in Nat
      /\ Len(bytes) \in Nat
  BY DEF ArenaAssumptions, Mmap!ArenaAssumption, Mmap!Address
<1>2. \A i \in 1 .. Len(bytes) :
        /\ to + i - 1 \in Mmap!Address /\ (to + i - 1) - to + 1 = i
        /\ to <= to + i - 1 /\ to + i - 1 < to + Len(bytes)
  BY <1>1 DEF Mmap!Address
<1>3. ASSUME NEW a \in Mmap!Address, to <= a, a < to + Len(bytes)
      PROVE  bytes[a - to + 1] \in Mmap!Byte
  <2>1. a - to + 1 \in 1 .. Len(bytes)
    BY <1>1, <1>3 DEF Mmap!Address
  <2> QED
    BY <2>1
<1>4. \A a \in Mmap!Address : a \in Nat
  BY <1>1 DEF Mmap!Address
<1> QED
  BY <1>1, <1>2, <1>3, <1>4 DEF Mmap!Put, ArenaInv

LEMMA BytesFacts ==
  ASSUME NEW n \in Nat, NEW v \in Mmap!Byte
  PROVE  /\ Mmap!Bytes(n, v) \in Seq(Mmap!Byte) /\ Len(Mmap!Bytes(n, v)) = n
         /\ \A i \in 1 .. n : Mmap!Bytes(n, v)[i] = v
  BY DEF Mmap!Bytes

-----------------------------------------------------------------------------
(* One lemma for each kind of step. *)

LEMMA TakeStep ==
  ASSUME ArenaAssumptions, ArenaInv, NEW length \in Length,
         NEW bytes \in Seq(Mmap!Byte), Len(bytes) = length,
         NEW expected \in Seq(Mmap!Byte), Len(expected) = length,
         \A i \in 1 .. length : expected[i] # Stale => bytes[i] = expected[i],
         NEW others \in SUBSET regions,
         ~Mmap!OutOfArena(length),
         mmap_next' = Mmap!Wrap(Mmap!Aligned + length),
         ram' = Mmap!Put(Mmap!Aligned, bytes),
         regions' = others \cup {Mmap!RegionAt(Mmap!Aligned, expected)}
  PROVE  ArenaInv'
<1> DEFINE n == Mmap!RegionAt(Mmap!Aligned, expected)
<1>1. /\ n \in Mmap!Region /\ Mmap!LengthOf(n) = length
      /\ n.addr = Mmap!Aligned
      /\ n.expected = expected /\ \A s \in others : RegionsApart(n, s)
  BY Placed
<1>2. /\ length \in Nat \ {0} /\ Mmap!Aligned \in Mmap!Address
      /\ Mmap!Aligned % MMAP_PAGE = 0
      /\ mmap_next' = Mmap!Aligned + length
      /\ mmap_next' \in mmap_next .. MMAP_LIMIT
      /\ Mmap!Aligned + length <= MMAP_LIMIT
  BY RegionPlacement
<1>3. /\ ram' \in [Mmap!Address -> Mmap!Byte]
      /\ \A i \in 1 .. length : ram'[Mmap!Aligned + i - 1] = bytes[i]
      /\ \A a \in Mmap!Address :
           a < Mmap!Aligned \/ Mmap!Aligned + length <= a =>
                              ram'[a] = ram[a]
  <2>1. /\ Mmap!Put(Mmap!Aligned, bytes) \in [Mmap!Address -> Mmap!Byte]
        /\ \A i \in 1 .. Len(bytes) :
             Mmap!Put(Mmap!Aligned, bytes)[Mmap!Aligned + i - 1] = bytes[i]
        /\ \A a \in Mmap!Address :
             a < Mmap!Aligned \/ Mmap!Aligned + Len(bytes) <= a =>
                                Mmap!Put(Mmap!Aligned, bytes)[a] = ram[a]
    BY <1>2, PutBytes
  <2> QED
    BY <2>1
<1>4. Mmap!Aligned \in Nat
  BY <1>2 DEF Mmap!Address, ArenaAssumptions, Mmap!ArenaAssumption
<1> HIDE DEF n
<1>5. \A i \in 1 .. Mmap!LengthOf(n) :
        n.expected[i] # Stale => ram'[n.addr + i - 1] = n.expected[i]
  BY <1>1, <1>3
<1>6. /\ 1 <= Mmap!LengthOf(n) /\ n.addr % MMAP_PAGE = 0
      /\ n.addr + Mmap!LengthOf(n) <= mmap_next'
      /\ regions' = others \cup {n}
  BY <1>1, <1>2, <1>4 DEF n
<1> QED
  BY <1>1, <1>2, <1>3, <1>5, <1>6, AddRegion

\* A region takes another's place and lies within it.
LEMMA WithinStep ==
  ASSUME ArenaAssumptions, ArenaInv, NEW r \in regions, NEW n \in Mmap!Region,
         r.addr <= n.addr,
         n.addr + Mmap!LengthOf(n) <= r.addr + Mmap!LengthOf(r),
         1 <= Mmap!LengthOf(n), n.addr % MMAP_PAGE = 0,
         mmap_next' = mmap_next, ram' \in [Mmap!Address -> Mmap!Byte],
         regions' = (regions \ {r}) \cup {n},
         \A i \in 1 .. Mmap!LengthOf(n) :
           n.expected[i] # Stale => ram'[n.addr + i - 1] = n.expected[i],
         \A a \in Mmap!Address :
           a < n.addr \/ n.addr + Mmap!LengthOf(n) <= a => ram'[a] = ram[a]
  PROVE  ArenaInv'
<1>1. /\ r \in Mmap!Region /\ 1 <= Mmap!LengthOf(r) /\ Mmap!ArenaAssumption
      /\ r.addr + Mmap!LengthOf(r) <= mmap_next
      /\ MMAP_BASE \in Nat /\ MMAP_LIMIT \in Nat
      /\ mmap_next \in MMAP_BASE .. MMAP_LIMIT
  BY DEF ArenaInv, RegionOK, ArenaAssumptions, Mmap!ArenaAssumption
<1>2. /\ n.addr \in Nat /\ Mmap!LengthOf(n) \in Nat
      /\ r.addr \in Nat /\ Mmap!LengthOf(r) \in Nat
  BY <1>1 DEF Mmap!Region, Mmap!Address, Mmap!LengthOf
<1>3. /\ r.addr + Mmap!LengthOf(r) <= MMAP_LIMIT
      /\ n.addr + Mmap!LengthOf(n) <= MMAP_LIMIT
      /\ n.addr + Mmap!LengthOf(n) <= mmap_next
  BY <1>1, <1>2
<1>4. /\ Mmap!PageEnd(r) \in Nat /\ Mmap!PageEnd(r) % MMAP_PAGE = 0
      /\ r.addr + Mmap!LengthOf(r) <= Mmap!PageEnd(r)
      /\ Mmap!PageEnd(n) \in Nat
  BY <1>1, <1>3, RegionFacts
<1>5. Mmap!PageEnd(n) <= Mmap!PageEnd(r)
  <2>1. n.addr + Mmap!LengthOf(n) <= Mmap!PageEnd(r)
    BY <1>2, <1>4
  <2> QED
    BY <1>1, <1>2, <1>3, <1>4, <2>1, PageUpLeast DEF Mmap!PageEnd
<1>6. ASSUME NEW s \in regions \ {r} PROVE RegionsApart(n, s)
  <2>1. RegionsApart(r, s)
    BY DEF ArenaInv
  <2>2. /\ s.addr \in Nat /\ Mmap!PageEnd(s) \in Nat
    <3>1. /\ s \in Mmap!Region /\ 1 <= Mmap!LengthOf(s)
          /\ s.addr + Mmap!LengthOf(s) <= mmap_next
      BY DEF ArenaInv, RegionOK
    <3>2. s.addr + Mmap!LengthOf(s) <= MMAP_LIMIT
      BY <1>1, <3>1 DEF Mmap!Region, Mmap!Address, Mmap!LengthOf
    <3> QED
      BY <3>1, <3>2, RegionFacts
  <2> QED
    BY <1>2, <1>4, <1>5, <2>1, <2>2 DEF RegionsApart
<1>7. /\ mmap_next' \in mmap_next .. MMAP_LIMIT
      /\ n.addr + Mmap!LengthOf(n) <= mmap_next'
  BY <1>1, <1>3
<1>8. regions \ {r} \in SUBSET regions
  OBVIOUS
<1> QED
  BY <1>6, <1>7, <1>8, AddRegion

\* A step that changes neither the cursor nor the RAM and gives regions up.
LEMMA FewerStep ==
  ASSUME ArenaAssumptions, ArenaInv, UNCHANGED <<mmap_next, ram>>,
         regions' \subseteq regions
  PROVE  ArenaInv'
<1>1. \A r \in regions' : RegionOK(r)'
  BY DEF ArenaInv, RegionOK, Holds, Mmap!LengthOf
<1>2. \A r, s \in regions' : r # s => RegionsApart(r, s)'
  BY DEF ArenaInv, RegionsApart, Mmap!PageEnd, Mmap!LengthOf
<1> QED
  BY <1>1, <1>2 DEF ArenaInv

LEMMA Subsequence ==
  ASSUME NEW S, NEW s \in Seq(S), NEW m \in Nat, NEW n \in Nat,
         1 <= m, m <= n, n <= Len(s)
  PROVE  /\ SubSeq(s, m, n) \in Seq(S) /\ Len(SubSeq(s, m, n)) = n - m + 1
         /\ \A i \in 1 .. n - m + 1 : SubSeq(s, m, n)[i] = s[m + i - 1]
<1>1. \A i \in m .. n : s[i] \in S
  OBVIOUS
<1> QED
  BY <1>1, SMTT(30)

\* What is left of a region: from byte "from" to byte "upto" of it.
LEMMA PartStep ==
  ASSUME ArenaAssumptions, ArenaInv, UNCHANGED <<mmap_next, ram>>,
         NEW r \in regions, NEW from \in Nat, NEW upto \in Nat,
         1 <= from, from <= upto, upto <= Mmap!LengthOf(r),
         NEW at \in Nat, at + 1 = r.addr + from, at % MMAP_PAGE = 0,
         regions' = (regions \ {r}) \cup
           {Mmap!RegionAt(at, SubSeq(r.expected, from, upto))}
  PROVE  ArenaInv'
<1> DEFINE part == SubSeq(r.expected, from, upto)
           n == Mmap!RegionAt(at, part)
<1>1. /\ r \in Mmap!Region /\ r.addr \in Mmap!Address
      /\ r.expected \in Seq(Mmap!Byte)
      /\ Mmap!LengthOf(r) = Len(r.expected) /\ Mmap!LengthOf(r) \in Nat
      /\ r.addr \in Nat /\ r.addr >= MMAP_BASE
      /\ r.addr + Mmap!LengthOf(r) <= mmap_next /\ Holds(r)
      /\ MMAP_BASE \in Nat /\ MMAP_LIMIT \in Nat
      /\ mmap_next \in MMAP_BASE .. MMAP_LIMIT
  BY DEF ArenaInv, RegionOK, Mmap!Region, Mmap!LengthOf, Mmap!Address,
         ArenaAssumptions, Mmap!ArenaAssumption
<1>2. /\ part \in Seq(Mmap!Byte) /\ Len(part) = upto - from + 1
      /\ \A i \in 1 .. upto - from + 1 : part[i] = r.expected[from + i - 1]
  <2>1. upto <= Len(r.expected) /\ r.expected \in Seq(Mmap!Byte)
    BY <1>1
  <2> QED
    BY <2>1, Subsequence
<1>3. at \in Mmap!Address
  <2>1. at >= r.addr /\ at < r.addr + Mmap!LengthOf(r)
    BY <1>1
  <2>2. at >= MMAP_BASE /\ at <= MMAP_LIMIT - 1
    BY <1>1, <2>1
  <2> QED
    BY <1>1, <2>2 DEF Mmap!Address
<1> HIDE DEF part
<1>4. /\ n \in Mmap!Region /\ n.addr = at /\ n.expected = part
      /\ Mmap!LengthOf(n) = upto - from + 1
  BY <1>2, <1>3 DEF Mmap!RegionAt, Mmap!Region, Mmap!LengthOf
<1>5. regions' = (regions \ {r}) \cup {n}
  BY DEF part
<1> HIDE DEF n
<1>6. ASSUME NEW i \in 1 .. Mmap!LengthOf(n), n.expected[i] # Stale
      PROVE  ram'[n.addr + i - 1] = n.expected[i]
  <2> DEFINE j == from + i - 1
  <2>1. /\ j \in 1 .. Mmap!LengthOf(r) /\ n.expected[i] = r.expected[j]
    BY <1>1, <1>2, <1>4
  <2>2. r.addr + j - 1 = n.addr + i - 1
    BY <1>1, <1>4
  <2> HIDE DEF j
  <2>3. r.expected[j] # Stale => ram[r.addr + j - 1] = r.expected[j]
    BY <1>1, <2>1 DEF Holds
  <2> QED
    BY <1>6, <2>1, <2>2, <2>3
<1>7. /\ r.addr <= n.addr
      /\ n.addr + Mmap!LengthOf(n) <= r.addr + Mmap!LengthOf(r)
      /\ 1 <= Mmap!LengthOf(n) /\ n.addr % MMAP_PAGE = 0
  BY <1>1, <1>4
<1> QED
  BY <1>4, <1>5, <1>6, <1>7, WithinStep DEF ArenaInv

LEMMA NextPage ==
  ASSUME Mmap!ArenaAssumption, NEW a \in Nat, a % MMAP_PAGE = 0
  PROVE  (a + MMAP_PAGE) % MMAP_PAGE = 0
<1>1. MMAP_PAGE \in Nat \ {0}
  BY DEF Mmap!ArenaAssumption
<1> DEFINE k == a \div MMAP_PAGE
<1>2. k \in Nat /\ a = MMAP_PAGE * k
  BY <1>1
<1> HIDE DEF k
<1>3. a + MMAP_PAGE = MMAP_PAGE * (k + 1)
  BY <1>1, <1>2
<1> QED
  BY <1>1, <1>2, <1>3, MultipleModulo

LEMMA MunmapStep ==
  ASSUME ArenaAssumptions, ArenaInv, NEW r \in regions, Mmap!Munmap(r)
  PROVE  ArenaInv'
<1>1. /\ r.addr \in Nat /\ Mmap!LengthOf(r) \in Nat /\ r.addr % MMAP_PAGE = 0
      /\ MMAP_PAGE \in Nat \ {0} /\ Mmap!ArenaAssumption
      /\ UNCHANGED <<mmap_next, ram>>
  BY DEF ArenaInv, RegionOK, Mmap!Region, Mmap!LengthOf, Mmap!Address,
         ArenaAssumptions,
         Mmap!ArenaAssumption, Mmap!Munmap
<1>2. CASE regions' = regions \ {r}
  BY <1>1, <1>2, FewerStep
<1>3. CASE /\ Mmap!LengthOf(r) > MMAP_PAGE
           /\ regions' = (regions \ {r}) \cup
                {Mmap!RegionAt(r.addr + MMAP_PAGE,
                          SubSeq(r.expected, MMAP_PAGE + 1, Mmap!LengthOf(r)))}
  <2>1. /\ MMAP_PAGE + 1 \in Nat /\ 1 <= MMAP_PAGE + 1
        /\ MMAP_PAGE + 1 <= Mmap!LengthOf(r)
        /\ Mmap!LengthOf(r) <= Mmap!LengthOf(r)
        /\ r.addr + MMAP_PAGE \in Nat /\ (r.addr + MMAP_PAGE) % MMAP_PAGE = 0
        /\ (r.addr + MMAP_PAGE) + 1 = r.addr + (MMAP_PAGE + 1)
    BY <1>1, <1>3, NextPage
  <2> QED
    BY <1>1, <1>3, <2>1, PartStep
<1>4. CASE /\ Mmap!LengthOf(r) > MMAP_PAGE
           /\ regions' = (regions \ {r}) \cup
                {Mmap!RegionAt(r.addr,
                   SubSeq(r.expected, 1, Mmap!LengthOf(r) - MMAP_PAGE))}
  <2>1. /\ Mmap!LengthOf(r) - MMAP_PAGE \in Nat
        /\ 1 <= Mmap!LengthOf(r) - MMAP_PAGE
        /\ Mmap!LengthOf(r) - MMAP_PAGE <= Mmap!LengthOf(r)
    BY <1>1, <1>4
  <2> QED
    BY <1>1, <1>4, <2>1, PartStep
<1> QED
  BY <1>2, <1>3, <1>4 DEF Mmap!Munmap

LEMMA MremapShrinkStep ==
  ASSUME ArenaAssumptions, ArenaInv, NEW r \in regions,
         NEW new_size \in Length,
         Mmap!MremapShrink(r, new_size)
  PROVE  ArenaInv'
<1>1. /\ r.addr \in Nat /\ r.addr % MMAP_PAGE = 0
      /\ new_size \in Nat \ {0} /\ new_size <= Mmap!LengthOf(r)
      /\ UNCHANGED <<mmap_next, ram>>
      /\ regions' = (regions \ {r}) \cup
           {Mmap!RegionAt(r.addr, SubSeq(r.expected, 1, new_size))}
  BY DEF ArenaInv, RegionOK, Mmap!Region, Mmap!Address, ArenaAssumptions,
         Mmap!ArenaAssumption,
         Mmap!LengthAssumption, Mmap!MremapShrink
<1>2. 1 <= new_size
  BY <1>1
<1> QED
  BY <1>1, <1>2, PartStep

LEMMA Concatenation ==
  ASSUME NEW s \in Seq(Mmap!Byte), NEW t \in Seq(Mmap!Byte)
  PROVE  /\ s \o t \in Seq(Mmap!Byte) /\ Len(s \o t) = Len(s) + Len(t)
         /\ \A i \in 1 .. Len(s) : (s \o t)[i] = s[i]
         /\ \A i \in 1 .. Len(t) : (s \o t)[Len(s) + i] = t[i]
  OBVIOUS

LEMMA MremapGrowStep ==
  ASSUME ArenaAssumptions, ArenaInv, NEW r \in regions,
         NEW new_size \in Length,
         Mmap!MremapGrow(r, new_size)
  PROVE  ArenaInv'
<1> DEFINE old_size == Mmap!LengthOf(r)
           tail == Mmap!Bytes(new_size - old_size, Zero)
           bytes == Mmap!Content(r) \o tail
           expected == r.expected \o tail
<1>1. /\ r.expected \in Seq(Mmap!Byte) /\ old_size = Len(r.expected)
      /\ old_size \in Nat /\ new_size \in Nat /\ old_size < new_size
      /\ Holds(r) /\ r.addr \in Nat /\ r.addr + old_size <= mmap_next
      /\ MMAP_BASE \in Nat /\ r.addr >= MMAP_BASE
      /\ mmap_next \in MMAP_BASE .. MMAP_LIMIT /\ MMAP_LIMIT \in Nat
      /\ ram \in [Mmap!Address -> Mmap!Byte]
  BY DEF ArenaInv, RegionOK, Mmap!Region, Mmap!Address, Mmap!LengthOf,
         ArenaAssumptions,
         Mmap!ArenaAssumption, Mmap!LengthAssumption, Mmap!MremapGrow
<1>2. /\ tail \in Seq(Mmap!Byte) /\ Len(tail) = new_size - old_size
  <2>1. Zero \in Mmap!Byte /\ new_size - old_size \in Nat
    BY <1>1 DEF Mmap!Byte
  <2> QED
    BY <2>1, BytesFacts
<1>3. /\ Mmap!Content(r) \in Seq(Mmap!Byte) /\ Len(Mmap!Content(r)) = old_size
      /\ \A i \in 1 .. old_size : Mmap!Content(r)[i] = ram[r.addr + i - 1]
  <2>1. \A i \in 1 .. old_size : ram[r.addr + i - 1] \in Mmap!Byte
    BY <1>1 DEF Mmap!Address
  <2> QED
    BY <1>1, <2>1 DEF Mmap!Content
<1>4. \A i \in 1 .. old_size :
        r.expected[i] # Stale => Mmap!Content(r)[i] = r.expected[i]
  BY <1>1, <1>3 DEF Holds
<1>5. /\ ~Mmap!OutOfArena(new_size)
      /\ mmap_next' = Mmap!Wrap(Mmap!Aligned + new_size)
      /\ ram' = Mmap!Put(Mmap!Aligned, bytes)
      /\ regions' =
           (regions \ {r}) \cup {Mmap!RegionAt(Mmap!Aligned, expected)}
  BY DEF Mmap!MremapGrow
<1> HIDE DEF tail, old_size
<1>6. /\ bytes \in Seq(Mmap!Byte)
      /\ Len(bytes) = old_size + (new_size - old_size)
      /\ \A i \in 1 .. old_size : bytes[i] = Mmap!Content(r)[i]
      /\ \A i \in 1 .. new_size - old_size : bytes[old_size + i] = tail[i]
  <2>1. /\ bytes \in Seq(Mmap!Byte)
        /\ Len(bytes) = Len(Mmap!Content(r)) + Len(tail)
        /\ \A i \in 1 .. Len(Mmap!Content(r)) : bytes[i] = Mmap!Content(r)[i]
        /\ \A i \in 1 .. Len(tail) : bytes[Len(Mmap!Content(r)) + i] = tail[i]
    <3>1. Mmap!Content(r) \in Seq(Mmap!Byte) /\ tail \in Seq(Mmap!Byte)
      BY <1>2, <1>3
    <3> QED
      BY <3>1, Concatenation
  <2> HIDE DEF bytes
  <2> QED
    BY <1>2, <1>3, <2>1
<1>7. /\ expected \in Seq(Mmap!Byte)
      /\ Len(expected) = old_size + (new_size - old_size)
      /\ \A i \in 1 .. old_size : expected[i] = r.expected[i]
      /\ \A i \in 1 .. new_size - old_size : expected[old_size + i] = tail[i]
  <2>1. /\ expected \in Seq(Mmap!Byte)
        /\ Len(expected) = Len(r.expected) + Len(tail)
        /\ \A i \in 1 .. Len(r.expected) : expected[i] = r.expected[i]
        /\ \A i \in 1 .. Len(tail) : expected[Len(r.expected) + i] = tail[i]
    <3>1. r.expected \in Seq(Mmap!Byte) /\ tail \in Seq(Mmap!Byte)
      BY <1>1, <1>2
    <3> QED
      BY <3>1, Concatenation
  <2> HIDE DEF expected
  <2> QED
    BY <1>1, <1>2, <2>1
<1>8. old_size + (new_size - old_size) = new_size
  BY <1>1
<1> HIDE DEF bytes, expected
<1>9. ASSUME NEW i \in 1 .. new_size, expected[i] # Stale
      PROVE  bytes[i] = expected[i]
  <2>1. CASE i <= old_size
    <3>1. i \in 1 .. old_size
      BY <1>1, <2>1
    <3> QED
      BY <1>4, <1>6, <1>7, <1>9, <3>1
  <2>2. CASE i > old_size
    <3>1. /\ i - old_size \in 1 .. new_size - old_size
          /\ old_size + (i - old_size) = i
      BY <1>1, <2>2
    <3> QED
      BY <1>6, <1>7, <3>1
  <2> QED
    BY <1>1, <2>1, <2>2
<1>10. regions \ {r} \in SUBSET regions
  OBVIOUS
<1> QED
  BY <1>5, <1>6, <1>7, <1>8, <1>9, <1>10, TakeStep

LEMMA StoreRegion ==
  ASSUME ArenaAssumptions, ArenaInv, NEW r \in regions, NEW v \in Value,
         Mmap!Store(r, v)
  PROVE  ArenaInv'
<1> DEFINE stored == Mmap!Bytes(Mmap!LengthOf(r), v)
           n == Mmap!RegionAt(r.addr, stored)
<1>1. /\ r.addr \in Mmap!Address /\ r.addr \in Nat /\ r.addr % MMAP_PAGE = 0
      /\ Mmap!LengthOf(r) \in Nat /\ 1 <= Mmap!LengthOf(r)
      /\ r.addr + Mmap!LengthOf(r) <= MMAP_LIMIT
  BY DEF ArenaInv, RegionOK, Mmap!Region, Mmap!Address, Mmap!LengthOf,
         ArenaAssumptions, Mmap!ArenaAssumption
<1>2. /\ stored \in Seq(Mmap!Byte) /\ Len(stored) = Mmap!LengthOf(r)
  BY <1>1, BytesFacts DEF Mmap!Byte
<1>3. /\ Mmap!Put(r.addr, stored) \in [Mmap!Address -> Mmap!Byte]
      /\ \A i \in 1 .. Len(stored) :
           Mmap!Put(r.addr, stored)[r.addr + i - 1] = stored[i]
      /\ \A a \in Mmap!Address : a < r.addr \/ r.addr + Len(stored) <= a =>
                              Mmap!Put(r.addr, stored)[a] = ram[a]
  BY <1>1, <1>2, PutBytes
<1>4. /\ ram' = Mmap!Put(r.addr, stored) /\ mmap_next' = mmap_next
      /\ regions' = (regions \ {r}) \cup {n}
  BY DEF Mmap!Store
<1> HIDE DEF stored
<1>5. /\ n \in Mmap!Region /\ n.addr = r.addr /\ n.expected = stored
      /\ Mmap!LengthOf(n) = Mmap!LengthOf(r)
  BY <1>1, <1>2 DEF Mmap!RegionAt, Mmap!Region, Mmap!LengthOf
<1> HIDE DEF n
<1>6. /\ r.addr <= n.addr
      /\ n.addr + Mmap!LengthOf(n) <= r.addr + Mmap!LengthOf(r)
      /\ 1 <= Mmap!LengthOf(n) /\ n.addr % MMAP_PAGE = 0
  BY <1>1, <1>5
<1>7. \A i \in 1 .. Mmap!LengthOf(n) :
        n.expected[i] # Stale => ram'[n.addr + i - 1] = n.expected[i]
  BY <1>2, <1>3, <1>4, <1>5
<1>8. \A a \in Mmap!Address :
        a < n.addr \/ n.addr + Mmap!LengthOf(n) <= a => ram'[a] = ram[a]
  BY <1>2, <1>3, <1>4, <1>5
<1> QED
  BY <1>3, <1>4, <1>5, <1>6, <1>7, <1>8, WithinStep

LEMMA MmapStep ==
  ASSUME ArenaAssumptions, ArenaInv, NEW length \in Length,
         Mmap!Mmap(length) \/ Mmap!MmapReserve(length)
  PROVE  ArenaInv'
<1>1. /\ length \in Nat /\ Zero \in Mmap!Byte /\ Stale \in Mmap!Byte
  BY DEF ArenaAssumptions, Mmap!LengthAssumption, Mmap!Byte
<1>2. CASE Mmap!Mmap(length)
  <2>1. /\ Mmap!Bytes(length, Zero) \in Seq(Mmap!Byte)
        /\ Len(Mmap!Bytes(length, Zero)) = length
    BY <1>1, BytesFacts
  <2> QED
    BY <1>2, <2>1, TakeStep DEF Mmap!Mmap, Mmap!Take
<1>3. CASE Mmap!MmapReserve(length)
  <2> DEFINE bytes == Mmap!Bytes(length, Stale)
             n == Mmap!RegionAt(Mmap!Aligned, bytes)
  <2>1. /\ bytes \in Seq(Mmap!Byte) /\ Len(bytes) = length
        /\ \A i \in 1 .. length : bytes[i] = Stale
    BY <1>1, BytesFacts
  <2>2. /\ ~Mmap!OutOfArena(length)
        /\ mmap_next' = Mmap!Wrap(Mmap!Aligned + length)
        /\ regions' = regions \cup {n} /\ ram' = ram
    BY <1>3 DEF Mmap!MmapReserve
  <2> HIDE DEF bytes
  <2>3. /\ length \in Nat \ {0} /\ Mmap!Aligned \in Nat
        /\ Mmap!Aligned % MMAP_PAGE = 0
        /\ mmap_next' = Mmap!Aligned + length
        /\ mmap_next' \in mmap_next .. MMAP_LIMIT
    BY <2>2, RegionPlacement
    DEF Mmap!Address, ArenaAssumptions, Mmap!ArenaAssumption
  <2>4. /\ n \in Mmap!Region /\ Mmap!LengthOf(n) = length
        /\ n.addr = Mmap!Aligned
        /\ n.expected = bytes /\ \A s \in regions : RegionsApart(n, s)
    BY <2>1, <2>2, Placed
  <2> HIDE DEF n
  <2>5. /\ 1 <= Mmap!LengthOf(n) /\ n.addr % MMAP_PAGE = 0
        /\ n.addr + Mmap!LengthOf(n) <= mmap_next'
        /\ \A i \in 1 .. Mmap!LengthOf(n) :
             n.expected[i] # Stale => ram'[n.addr + i - 1] = n.expected[i]
        /\ ram' \in [Mmap!Address -> Mmap!Byte]
    BY <2>1, <2>2, <2>3, <2>4 DEF ArenaInv
  <2> QED
    BY <2>2, <2>3, <2>4, <2>5, AddRegion
<1> QED
  BY <1>2, <1>3

LEMMA NextArenaInv ==
  ASSUME ArenaAssumptions, ArenaInv, [Mmap!Next]_(Mmap!vars) PROVE ArenaInv'
<1>1. CASE UNCHANGED Mmap!vars
  BY <1>1, FewerStep DEF Mmap!vars
<1>2. ASSUME NEW length \in Length,
             Mmap!Mmap(length) \/ Mmap!MmapReserve(length)
      PROVE  ArenaInv'
  BY <1>2, MmapStep
<1>3. ASSUME NEW length \in Length, Mmap!MmapFails(length) PROVE ArenaInv'
  BY <1>1, <1>3 DEF Mmap!MmapFails
<1>4. ASSUME NEW length \in Length, NEW r \in regions,
             Mmap!MremapShrink(r, length)
      PROVE  ArenaInv'
  BY <1>4, MremapShrinkStep
<1>5. ASSUME NEW length \in Length, NEW r \in regions,
             Mmap!MremapGrow(r, length)
      PROVE  ArenaInv'
  BY <1>5, MremapGrowStep
<1>6. ASSUME NEW length \in Length, NEW r \in regions,
             Mmap!MremapFails(r, length)
      PROVE  ArenaInv'
  BY <1>3, <1>6 DEF Mmap!MremapFails
<1>7. ASSUME NEW r \in regions, Mmap!Munmap(r) PROVE ArenaInv'
  BY <1>7, MunmapStep
<1>8. ASSUME NEW r \in regions, NEW v \in Value, Mmap!Store(r, v)
      PROVE  ArenaInv'
  BY <1>8, StoreRegion
<1> QED
  BY <1>1, <1>2, <1>3, <1>4, <1>5, <1>6, <1>7, <1>8 DEF Mmap!Next

-----------------------------------------------------------------------------
(* The heap and the arena, which share no state. *)

mcVars == <<half, vars, mmapVars>>

LEMMA AlwaysArenaInv == MCSpec => []ArenaInv
<1>1. MCInit => ArenaInv
  BY ArenaAssumed, InitArenaInv DEF MCInit, ArenaAssumptions
<1>2. ASSUME ArenaInv, [MCNext]_mcVars PROVE ArenaInv'
  <2>1. [Mmap!Next]_(Mmap!vars)
    BY <1>2 DEF MCNext, mcVars, mmapVars, Mmap!vars
  <2> QED
    BY <1>2, <2>1, ArenaAssumed, NextArenaInv DEF ArenaAssumptions
<1> QED
  BY <1>1, <1>2, PTL DEF MCSpec, mcVars

\* Mappings start on pages and share none, inside the arena, after any calls of
\* mmap, munmap and mremap (sys_mmap, sys_mremap).
THEOREM MappingsShareNoPage == MCSpec => []RegionsDisjoint
<1>1. ArenaInv => RegionsDisjoint
  BY ArenaAssumed, ArenaInvImplies DEF ArenaAssumptions, RegionsDisjoint
<1> QED
  BY <1>1, AlwaysArenaInv, PTL

\* A mapping reads as zeros or as what the program stored in it, moved by
\* mremap or not (sys_mmap clears, sys_mremap copies).
THEOREM MappingsKeepContents == MCSpec => []RegionsReadBack
<1>1. ArenaInv => RegionsReadBack
  BY ArenaAssumed, ArenaInvImplies DEF ArenaAssumptions, RegionsReadBack
<1> QED
  BY <1>1, AlwaysArenaInv, PTL
=============================================================================
