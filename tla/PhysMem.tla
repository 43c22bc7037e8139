------------------------------- MODULE PhysMem -------------------------------
(***************************************************************************)
(* The physical memory manager, kernel/src/mm/pmm/pmm.c, on the bitmap of  *)
(* external/libs/libds/bitmap.h.                                           *)
(*                                                                         *)
(* Unit: the page frame.  Memory map entries are page aligned (the boot    *)
(* protocol guarantees it for usable memory), so align_up and align_down   *)
(* of base and length do nothing.  An area is named by the index of the    *)
(* memory map entry it was built from; its pmm_area_t sits in the entry's  *)
(* first frame(s).                                                         *)
(***************************************************************************)
EXTENDS Integers, Sequences, FiniteSets, FiniteSetsExt

CONSTANTS MemMaps,  \* the memory maps the bootloader may report
          W,        \* frames between the direct map (hhdm) and the top of the address space
          MaxPages  \* largest request the model makes

\* The longest region the arithmetic of pmm_init is sound for, in frames (3.8 TiB).
PageLimit == 1000000000

Entry == [base : Nat, pages : Nat, usable : BOOLEAN]

\* All the code needs of a memory map: entries do not overlap, and all memory
\* fits in the direct map, which runs from hhdm to the top of the address space.
ASSUME MemMapAssumption ==
  /\ W \in Nat \ {0}
  /\ MaxPages \in Nat
  /\ \A m \in MemMaps :
       /\ m \in Seq(Entry)
       /\ \A i \in 1 .. Len(m) : m[i].base + m[i].pages < W /\ m[i].pages <= PageLimit
       /\ \A i, j \in 1 .. Len(m) :
            i < j => \/ m[i].base + m[i].pages <= m[j].base
                     \/ m[j].base + m[j].pages <= m[i].base

VARIABLES
  memmap,             \* bootctx(memmap)
  loop,               \* pmm_init's i, one past the last entry when it has returned
  area_list,          \* the areas, in the order of the singly linked list
  num_pages,          \* area->num_pages
  free_idx_hint,      \* area->free_idx_hint
  bitmap,             \* the indices whose bit is set in area->bitmap.map
  pmm_free_num_pages,
  granted             \* history: every frame pmm_palloc has returned

vars == <<memmap, loop, area_list, num_pages, free_idx_hint, bitmap,
          pmm_free_num_pages, granted>>
-----------------------------------------------------------------------------
(* Layout of an area in a region of n frames.                              *)

\* num_free_pages: an estimate of what is left beside the header.
NumFree(n) == (8 * (n * 4096 - 4095) - 7) \div (4096 * 8 + 1) + 1

\* align_up(sizeof(pmm_area_t) + bitmap_size, PAGE_SIZE), in frames.
HeaderPages(n) == (40 + (n + 7) \div 8 + 4095) \div 4096

Region == DOMAIN memmap

\* Mutated form of Size: the header takes no room.
SizeWhole(a) == memmap[a].pages

Size(a) == NumFree(memmap[a].pages)                        \* area->bitmap.size
Addr(a) == memmap[a].base + HeaderPages(memmap[a].pages)   \* area->addr
Listed == {area_list[k] : k \in 1 .. Len(area_list)}

Booted == loop > Len(memmap)

\* The frames that hold the header of an area, pmm_area_t and bitmap.
HeaderOf(a) == memmap[a].base .. Addr(a) - 1

\* No header has been handed out.  The frame counted past a region may be the
\* header of the area after it: its new owner overwrites that area's counters,
\* bitmap and link, and what pmm_palloc and pmm_pfree do next is not modelled.
HeadersKept == \A a \in Listed : HeaderOf(a) \cap granted = {}

TypeOK ==
  /\ memmap \in MemMaps
  /\ loop \in 1 .. Len(memmap) + 1
  /\ area_list \in Seq(1 .. loop - 1)
  /\ num_pages \in [Region -> Nat]
  /\ free_idx_hint \in [Region -> Nat]
  /\ bitmap \in [Region -> SUBSET Nat]
  /\ pmm_free_num_pages \in Nat
  /\ granted \in SUBSET Nat
-----------------------------------------------------------------------------
(* The bitmap.                                                             *)

NotFound == -1

\* bitmap_find_contiguous_range_from(&area->bitmap, area->free_idx_hint, n):
\* the first run of n clear bits that starts at the hint or later.
FindFrom(a, n) ==
  LET starts == {i \in free_idx_hint[a] .. Size(a) - n :
                   i .. (i + n - 1) \cap bitmap[a] = {}}
  IN  IF starts = {} THEN NotFound ELSE Min(starts)

\* Both range operations silently do nothing for a range that reaches the
\* last bit: the bound is tested with >=.
ReachesEnd(a, idx, n) == n + idx >= Size(a)

SetRange(a, idx, n) ==
  IF ReachesEnd(a, idx, n) THEN bitmap[a] ELSE bitmap[a] \cup idx .. (idx + n - 1)

UnsetRange(a, idx, n) ==
  IF ReachesEnd(a, idx, n) THEN bitmap[a] ELSE bitmap[a] \ (idx .. (idx + n - 1))
-----------------------------------------------------------------------------
(* pmm_init: one action per turn of its loop.                              *)

Init ==
  /\ memmap \in MemMaps
  /\ loop = 1
  /\ area_list = <<>>
  /\ num_pages = [a \in Region |-> 0]
  /\ free_idx_hint = [a \in Region |-> 0]
  /\ bitmap = [a \in Region |-> {}]
  /\ pmm_free_num_pages = 0
  /\ granted = {}

\* Mutated form of AddArea: the header's frames are counted as free.
AddAreaWhole ==
  /\ ~Booted
  /\ memmap[loop].usable /\ memmap[loop].pages > 1
  /\ loop' = loop + 1
  /\ area_list' = <<loop>> \o area_list
  /\ num_pages' = [num_pages EXCEPT ![loop] = Size(loop)]
  /\ pmm_free_num_pages' = pmm_free_num_pages + memmap[loop].pages
  /\ UNCHANGED <<memmap, free_idx_hint, bitmap, granted>>

\* A usable entry of more than one frame becomes an area at the list's front.
AddArea ==
  /\ ~Booted
  /\ memmap[loop].usable /\ memmap[loop].pages > 1
  /\ loop' = loop + 1
  /\ area_list' = <<loop>> \o area_list
  /\ num_pages' = [num_pages EXCEPT ![loop] = Size(loop)]
  /\ pmm_free_num_pages' = pmm_free_num_pages + Size(loop)
  /\ UNCHANGED <<memmap, free_idx_hint, bitmap, granted>>

\* Any other entry is passed over.
SkipEntry ==
  /\ ~Booted
  /\ ~(memmap[loop].usable /\ memmap[loop].pages > 1)
  /\ loop' = loop + 1
  /\ UNCHANGED <<memmap, area_list, num_pages, free_idx_hint, bitmap,
                 pmm_free_num_pages, granted>>
-----------------------------------------------------------------------------
(* pmm_palloc.                                                             *)

\* Mutated forms of Serves: any area does; an exact fit is refused.
ServesAny(a, n) == TRUE
ServesMore(a, n) == num_pages[a] > n /\ FindFrom(a, n) # NotFound

\* The area has enough pages left and a run of n clear bits.
Serves(a, n) == num_pages[a] >= n /\ FindFrom(a, n) # NotFound

\* pmm_palloc(n) returns 0, which changes nothing, when n is 0 or no area serves.
PallocFails(n) == n = 0 \/ \A a \in Listed : ~Serves(a, n)

\* Mutated form of FramesAt: the index is left out of the address.
FramesAtBase(a, idx, n) == Addr(a) .. Addr(a) + n - 1

\* The frames behind n bits from idx on.
FramesAt(a, idx, n) == Addr(a) + idx .. Addr(a) + idx + n - 1

\* Mutated form of TakeFrom: the hint stays where it was.
TakeKeepHint(a, idx, n) ==
  /\ bitmap' = [bitmap EXCEPT ![a] = SetRange(a, idx, n)]
  /\ num_pages' = [num_pages EXCEPT ![a] = @ - n]
  /\ pmm_free_num_pages' = pmm_free_num_pages - n
  /\ granted' = granted \cup FramesAt(a, idx, n)
  /\ UNCHANGED <<memmap, loop, area_list, free_idx_hint>>

\* The frames of area a go to the caller.
TakeFrom(a, idx, n) ==
  /\ free_idx_hint' = IF idx = free_idx_hint[a]
                        THEN [free_idx_hint EXCEPT ![a] = @ + n]
                        ELSE free_idx_hint
  /\ bitmap' = [bitmap EXCEPT ![a] = SetRange(a, idx, n)]
  /\ num_pages' = [num_pages EXCEPT ![a] = @ - n]
  /\ pmm_free_num_pages' = pmm_free_num_pages - n
  /\ granted' = granted \cup FramesAt(a, idx, n)
  /\ UNCHANGED <<memmap, loop, area_list>>

\* The first area of the list that serves the request does.
Palloc(n) ==
  /\ Booted /\ HeadersKept
  /\ n > 0
  /\ \E k \in 1 .. Len(area_list) :
       /\ Serves(area_list[k], n)
       /\ \A j \in 1 .. k - 1 : ~Serves(area_list[j], n)
       /\ TakeFrom(area_list[k], FindFrom(area_list[k], n), n)
-----------------------------------------------------------------------------
(* pmm_pfree.                                                              *)

\* The to_paddr macro subtracts hhdm from its argument as written: from a
\* pointer to a struct of s bytes it takes s * hhdm.  Frame f in the direct map
\* comes back as f - (s - 1) * hhdm, modulo 2^64: f + (s - 1) * W.
ToPaddr(f, s) == f + (s - 1) * W

SizeofArea == 40      \* sizeof(pmm_area_t)
SizeofVmmArea == 48   \* sizeof(vmm_area_t)

\* Mutated form of Claims: to_paddr of an address, not of a typed pointer.
ClaimsCast(a, f) == memmap[a].base <= f /\ f <= memmap[a].base + Size(a)

\* lower_bound <= addr && addr < higher_bound, for the page aligned address of
\* frame f (higher_bound ends 40 bytes into its last frame).
Claims(a, f) ==
  LET lower == ToPaddr(memmap[a].base, SizeofArea)
  IN  lower <= f /\ f <= lower + Size(a)

\* The index pmm_pfree computes: bytes from the bitmap's first byte, less the
\* bitmap's length, in pages.  Below the bitmap the unsigned result is huge.
IndexOf(a, f) ==
  LET bytes == (f - memmap[a].base) * 4096 - SizeofArea - (Size(a) + 7) \div 8
  IN  IF bytes < 0 THEN 48 * W ELSE bytes \div 4096

\* The bits are cleared and the global count grows; area->num_pages does not.
GiveBackTo(a, idx, n) ==
  /\ free_idx_hint' = IF idx < free_idx_hint[a]
                        THEN [free_idx_hint EXCEPT ![a] = idx]
                        ELSE free_idx_hint
  /\ bitmap' = [bitmap EXCEPT ![a] = UnsetRange(a, idx, n)]
  /\ pmm_free_num_pages' = pmm_free_num_pages + n
  /\ UNCHANGED <<memmap, loop, area_list, num_pages, granted>>

\* The first area of the list that claims the address takes the pages back; if
\* none does, pmm_pfree returns and nothing has changed.
Pfree(f, n) ==
  LET owners == {k \in 1 .. Len(area_list) : Claims(area_list[k], f)}
  IN  IF owners = {}
        THEN UNCHANGED vars
        ELSE LET a == area_list[Min(owners)] IN GiveBackTo(a, IndexOf(a, f), n)

\* pt_unmap gives back the frame of the entry it clears.
FreeFrame == Booted /\ HeadersKept /\ \E f \in granted : Pfree(f, 1)

\* vmm_area_try_merge_with_neighbors gives back the frame of a list node, whose
\* address it takes with to_paddr of a typed pointer.
FreeNode == Booted /\ HeadersKept /\ \E f \in granted : Pfree(ToPaddr(f, SizeofVmmArea), 1)

Next == \/ AddArea
        \/ SkipEntry
        \/ \E n \in 0 .. MaxPages : Palloc(n)
        \/ FreeFrame
        \/ FreeNode

Spec == Init /\ [][Next]_vars
-----------------------------------------------------------------------------
(* Properties.                                                             *)

\* The manager is a bump allocator: in every area the pages left are exactly
\* those from the hint on, and none of those is marked.  That is what makes the
\* hint, the counter and the bitmap of pmm_palloc agree although the bitmap is
\* not written for a range that ends an area.
Bump ==
  \A a \in Listed :
    /\ free_idx_hint[a] + num_pages[a] = Size(a)
    /\ \A i \in bitmap[a] : i < free_idx_hint[a]

\* pmm_free_num_pages, which is updated apart from the areas' own counters, is
\* the number of published frames that were not handed out.
Published == UNION {FramesAt(a, 0, Size(a)) : a \in Listed}
FreeCountExact == pmm_free_num_pages = Cardinality(Published \ granted)

\* The estimate of pmm_init counts one frame too many, the one after the region's
\* last, for regions of two frames and for some longer than 32448 frames.
Overshoot(f) ==
  \E a \in Listed : /\ f = memmap[a].base + memmap[a].pages
                    /\ memmap[a].pages = 2 \/ memmap[a].pages > 32448

\* Apart from the frame right after a region whose free pages pmm_init
\* overestimates, pmm_palloc hands out only frames of usable regions, past their
\* headers.  What is set apart is a defect: that frame need not be usable, and it
\* may be the header of the next area.
FramesUsable ==
  \A f \in granted :
    \/ Overshoot(f)
    \/ \E a \in Listed : /\ Addr(a) <= f
                         /\ f < memmap[a].base + memmap[a].pages

\* pmm_palloc(n) fails only when no area has n consecutive frames that were
\* never handed out.
FailsOnlyWhenShort ==
  Booted =>
    \A n \in 1 .. MaxPages :
      PallocFails(n) =>
        ~ \E a \in Listed : \E i \in 0 .. Size(a) - n :
            FramesAt(a, i, n) \cap granted = {}

GivesNothingBack ==
  Booted => /\ \A a \in Region : /\ bitmap[a] \subseteq bitmap'[a]
                                /\ free_idx_hint[a] <= free_idx_hint'[a]
            /\ pmm_free_num_pages' <= pmm_free_num_pages

\* No call of pmm_pfree the kernel makes gives anything back: no step clears a
\* bit, lowers a hint or raises the free count once pmm_init has returned.
NothingComesBack == [][GivesNothingBack]_vars

\* pmm_palloc returns runs of consecutive frames and never one it has returned
\* before, from whichever area; the free count shrinks by as many.
Ledger == INSTANCE FrameLedger WITH given <- granted, free <- pmm_free_num_pages
ImplementsLedger == Ledger!Spec
=============================================================================
