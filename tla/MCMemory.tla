------------------------------- MODULE MCMemory -------------------------------
(***************************************************************************)
(* The two sources of memory, BumpHeap and MmapArena, in one run: no step  *)
(* of one is a step of the other.  The arena has four pages of two bytes   *)
(* and lengths of half a page to two pages.                                *)
(***************************************************************************)
EXTENDS MCBumpHeap

CONSTANTS MMAP_BASE, MMAP_LIMIT, MMAP_PAGE, Length, Stale
VARIABLES half, mmap_next, ram, regions
Mmap == INSTANCE MmapArena WITH PAGE <- MMAP_PAGE
mmapVars == <<mmap_next, ram, regions>>

ASSUME HeapAssumed == AlignmentsDividePage
ASSUME ArenaAssumed ==
  Mmap!ArenaAssumption /\ Mmap!LengthAssumption /\ Mmap!NoWrapAssumption

MCInit == half \in {"malloc", "mmap"} /\ Init /\ Mmap!Init
MCNext ==
  /\ UNCHANGED half
  /\ \/ half = "malloc" /\ Next /\ UNCHANGED mmapVars
     \/ half = "mmap" /\ Mmap!Next /\ UNCHANGED vars
MCSpec == MCInit /\ [][MCNext]_<<half, vars, mmapVars>>

\* See MmapArena.
RegionsDisjoint == Mmap!RegionsDisjoint
RegionsReadBack == Mmap!RegionsReadBack
=============================================================================
