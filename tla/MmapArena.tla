------------------------------ MODULE MmapArena ------------------------------
(***************************************************************************)
(* The address space behind mmap, munmap and mremap, as the syscall shim   *)
(* (compat/ruby_on_bare_metal_syscall.c) and the C wrappers in front of it *)
(* (compat/ruby_on_bare_metal_malloc.c) keep it: a cursor between two      *)
(* addresses of identity-mapped RAM.  What a program may rely on is kept   *)
(* beside it: the regions it has mapped and the bytes it should find there.*)
(***************************************************************************)
EXTENDS Integers, Sequences

CONSTANTS MMAP_BASE, MMAP_LIMIT,   \* the arena: [MMAP_BASE, MMAP_LIMIT)
          PAGE,        \* 4096
          WORD,        \* 2^64: size_t arithmetic is modulo this
          Length,      \* the lengths given to mmap and mremap
          Value,       \* what the program stores
          Zero,        \* a cleared byte
          Stale        \* a byte left by the firmware or the boot loader

ArenaAssumption ==
  /\ PAGE \in Nat \ {0} /\ WORD \in Nat \ {0}
  /\ MMAP_BASE \in Nat /\ MMAP_LIMIT \in Nat /\ MMAP_BASE <= MMAP_LIMIT
  /\ MMAP_BASE % PAGE = 0 /\ MMAP_LIMIT % PAGE = 0 /\ MMAP_LIMIT + PAGE < WORD
LengthAssumption == Length \subseteq Nat \ {0}
\* The lengths CRuby maps (heap pages, IO buffers) are far below 2^64.
NoWrapAssumption == \A n \in Length : MMAP_LIMIT + n + PAGE < WORD

VARIABLES mmap_next,   \* the arena below this address is given out
          ram,         \* the arena's bytes
          regions      \* what the program has mapped

vars == <<mmap_next, ram, regions>>

-----------------------------------------------------------------------------
Address == MMAP_BASE .. MMAP_LIMIT - 1
Byte == Value \cup {Zero, Stale}

\* expected: what each byte of the region must read as; Stale where the
\* program was promised nothing.
Region == [addr : Address, expected : Seq(Byte)]

RegionAt(addr, expected) == [addr |-> addr, expected |-> expected]
LengthOf(r) == Len(r.expected)
Bytes(n, v) == [i \in 1 .. n |-> v]

Wrap(x) == IF x < WORD THEN x ELSE x % WORD
PageUp(x) == LET y == Wrap(x + PAGE - 1) IN y - (y % PAGE)
\* sys_mmap's aligned, and a defect: the cursor as it is.
AlignedRaw == mmap_next
Aligned == PageUp(mmap_next)

\* ram with the bytes from address "to" on replaced by those of a sequence.
Put(to, bytes) ==
  [a \in Address |-> IF to <= a /\ a < to + Len(bytes)
                     THEN bytes[a - to + 1] ELSE ram[a]]
\* What mremap copies out of a region, and a defect: it copies nothing.
ContentForgotten(r) == Bytes(LengthOf(r), Zero)
Content(r) == [i \in 1 .. LengthOf(r) |-> ram[r.addr + i - 1]]

Init ==
  /\ mmap_next = MMAP_BASE
  /\ \E b \in {Zero, Stale} : ram = [a \in Address |-> b]
  /\ regions = {}

-----------------------------------------------------------------------------
\* sys_mmap's limit check.
OutOfArena(length) == Wrap(Aligned + length) > MMAP_LIMIT

\* Takes the region and leaves in it bytes that a caller may rely on.
Take(length, bytes, others) ==
  /\ ~OutOfArena(length)
  /\ mmap_next' = Wrap(Aligned + length)
  /\ ram' = Put(Aligned, bytes)
  /\ regions' = others \cup {RegionAt(Aligned, bytes)}

MmapFails(length) ==
  /\ OutOfArena(length)
  /\ UNCHANGED vars

\* PROT_READ or PROT_WRITE: the region is cleared.  mremap of the failed
\* result of an earlier mmap comes here too.
Mmap(length) == Take(length, Bytes(length, Zero), regions)

\* PROT_NONE: the bytes stay as the arena has them.
MmapReserve(length) ==
  /\ ~OutOfArena(length)
  /\ mmap_next' = Wrap(Aligned + length)
  /\ regions' = regions \cup {RegionAt(Aligned, Bytes(length, Stale))}
  /\ UNCHANGED ram

\* munmap does nothing to the arena.  The program gives up a region, or the
\* first or last page of it, as an aligned allocation trims its excess.
Munmap(r) ==
  /\ \/ regions' = regions \ {r}
     \/ /\ LengthOf(r) > PAGE
        /\ regions' = (regions \ {r}) \cup
             {RegionAt(r.addr + PAGE,
                       SubSeq(r.expected, PAGE + 1, LengthOf(r)))}
     \/ /\ LengthOf(r) > PAGE
        /\ regions' = (regions \ {r}) \cup
             {RegionAt(r.addr, SubSeq(r.expected, 1, LengthOf(r) - PAGE))}
  /\ UNCHANGED <<mmap_next, ram>>

\* mremap to no more than the old size: the same address, nothing freed.
MremapShrink(r, new_size) ==
  /\ new_size <= LengthOf(r)
  /\ regions' = (regions \ {r}) \cup
       {RegionAt(r.addr, SubSeq(r.expected, 1, new_size))}
  /\ UNCHANGED <<mmap_next, ram>>

\* mremap to more: a cleared region, then a copy of old_size bytes.
MremapGrow(r, new_size) ==
  LET old_size == LengthOf(r)
      tail == Bytes(new_size - old_size, Zero)
  IN  /\ old_size < new_size
      /\ ~OutOfArena(new_size)
      /\ mmap_next' = Wrap(Aligned + new_size)
      /\ ram' = Put(Aligned, Content(r) \o tail)
      /\ regions' = (regions \ {r}) \cup
           {RegionAt(Aligned, r.expected \o tail)}

\* A failed mremap leaves the old region mapped.
MremapFails(r, new_size) == LengthOf(r) < new_size /\ MmapFails(new_size)

\* The program fills a region of its own: mprotect and madvise change nothing
\* and every page is writable, reservations too.
Store(r, v) ==
  LET stored == Bytes(LengthOf(r), v)
  IN  /\ ram' = Put(r.addr, stored)
      /\ regions' = (regions \ {r}) \cup {RegionAt(r.addr, stored)}
      /\ UNCHANGED mmap_next

Next ==
  \/ \E length \in Length :
       \/ Mmap(length) \/ MmapReserve(length) \/ MmapFails(length)
       \/ \E r \in regions :
            \/ MremapShrink(r, length)
            \/ MremapGrow(r, length)
            \/ MremapFails(r, length)
  \/ \E r \in regions : Munmap(r) \/ \E v \in Value : Store(r, v)

Spec == Init /\ [][Next]_vars

-----------------------------------------------------------------------------
\* The cursor and the regions stay in the arena.
TypeOK ==
  /\ mmap_next \in MMAP_BASE .. MMAP_LIMIT
  /\ ram \in [Address -> Byte]
  /\ regions \subseteq Region

PageEnd(r) == PageUp(r.addr + LengthOf(r))

\* Every region starts on a page and no two share a page, so that rounding a
\* length up to pages, trimming and moving never let one program store show
\* in another mapping; all pages lie inside [MMAP_BASE, MMAP_LIMIT).
RegionsDisjoint ==
  /\ \A r \in regions : r.addr % PAGE = 0 /\ PageEnd(r) <= MMAP_LIMIT
  /\ \A r, s \in regions : r # s => \/ PageEnd(r) <= s.addr
                                    \/ PageEnd(s) <= r.addr

\* A mapping reads as zeros wherever the program has not stored, as what it
\* stored elsewhere, and a move by mremap keeps both, whatever the RAM held
\* at boot and whatever else is mapped, trimmed or moved.
RegionsReadBack ==
  \A r \in regions : \A i \in 1 .. LengthOf(r) :
    r.expected[i] # Stale => ram[r.addr + i - 1] = r.expected[i]
=============================================================================
