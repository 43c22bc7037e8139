------------------------------ MODULE AddrSpace ------------------------------
(***************************************************************************)
(* The virtual memory manager, kernel/src/mm/vmm/vmm.c, as the kernel heap *)
(* of kernel/src/mm/vheap.c uses it: a list of areas that tile one range   *)
(* of pages, split by an allocation and merged by a free.                  *)
(*                                                                         *)
(* Unit: the page.  Frames come from pmm_palloc, which hands out each      *)
(* frame once, takes none back (PhysMem) and returns 0 when it has none    *)
(* left.  Page tables are present: pt_map and pt_unmap set and clear one   *)
(* entry.  A call runs to its end; callers that preempt each other inside  *)
(* one are not in this module.                                             *)
(***************************************************************************)
EXTENDS Integers, Sequences, FiniteSets, SequencesExt

CONSTANTS Start,     \* hhdm_end: the first page of the range
          HeapPages, \* how many pages it has
          Frames,    \* how many frames pmm_palloc can give, the list nodes' included
          MaxPages   \* bound on the size of a request

ASSUME HeapAssumption ==
  /\ Start \in Nat \ {0}
  /\ HeapPages \in Nat \ {0}
  /\ Frames \in Nat \ {0}
  /\ MaxPages \in Nat

VARIABLES
  area_list,      \* vmm->area_list_head
  free_num_pages, \* vmm->free_num_pages
  entry,          \* the page table: the frame a page is mapped to
  next_frame,     \* what pmm_palloc returns next, 0 when it has no more
  ret,            \* what the last vmm_palloc returned
  wild            \* a list node was written through paddr_ptr(0)

vars == <<area_list, free_num_pages, entry, next_frame, ret, wild>>

Heap == Start .. Start + HeapPages - 1
Unmapped == -1

\* vmm_init; its area's node took the first frame.
Init ==
  /\ area_list = <<[addr |-> Start, num_pages |-> HeapPages, state |-> "FREE"]>>
  /\ free_num_pages = HeapPages
  /\ entry = [p \in Heap |-> Unmapped]
  /\ next_frame = IF Frames = 1 THEN 0 ELSE 2
  /\ ret = 0
  /\ wild = FALSE

PagesOf(a) == a.addr .. a.addr + a.num_pages - 1
-----------------------------------------------------------------------------
(* Frames.                                                                 *)

\* The k-th frame that pmm_palloc returns from now on.
FrameAfter(k) == IF next_frame = 0 \/ next_frame + k - 1 > Frames THEN 0 ELSE next_frame + k - 1

-----------------------------------------------------------------------------
(* vmm_palloc.                                                             *)

\* Mutated form of Sufficient: the state is not looked at.
SufficientAny(i, n) == area_list[i].num_pages >= n

Sufficient(i, n) == area_list[i].num_pages >= n /\ area_list[i].state = "FREE"

\* Mutated form of Split: the rest goes in front of the area.
SplitBefore(s, i, n) ==
  InsertAt([s EXCEPT ![i].num_pages = n], i,
           [addr |-> s[i].addr + n, num_pages |-> s[i].num_pages - n, state |-> s[i].state])

\* vmm_area_split: the rest becomes an area of its own, right after this one.
Split(s, i, n) ==
  IF n >= s[i].num_pages THEN s
  ELSE InsertAt([s EXCEPT ![i].num_pages = n], i + 1,
                [addr |-> s[i].addr + n, num_pages |-> s[i].num_pages - n,
                 state |-> s[i].state])

\* Mutated form of MapFrom: every page gets the same frame.
MapFromOne(a, first) ==
  [p \in Heap |-> IF p \in PagesOf(a) THEN FrameAfter(first) ELSE entry[p]]

\* vmm_map_area, after first - 1 frames have gone to list nodes.
MapFrom(a, first) ==
  [p \in Heap |-> IF p \in PagesOf(a) THEN FrameAfter(first + p - a.addr) ELSE entry[p]]

\* No area is sufficient, or nothing was asked for.
PallocFails(n) ==
  /\ n = 0 \/ \A i \in DOMAIN area_list : ~Sufficient(i, n)
  /\ ret' = 0
  /\ UNCHANGED <<area_list, free_num_pages, entry, next_frame, wild>>

\* The node of the split's rest is needed and pmm_alloc returns 0: it is
\* written at the start of the direct map, and nothing is known of the rest.
PallocWild(i, n) ==
  /\ n < area_list[i].num_pages /\ FrameAfter(1) = 0
  /\ wild' = TRUE
  /\ UNCHANGED <<area_list, free_num_pages, entry, next_frame, ret>>

PallocFrom(i, n) ==
  LET nodes == IF n < area_list[i].num_pages THEN 1 ELSE 0
  IN  /\ nodes = 1 => FrameAfter(1) # 0
      /\ area_list' = [Split(area_list, i, n) EXCEPT ![i].state = "ALLOCATED"]
      /\ entry' = MapFrom(area_list'[i], nodes + 1)
      /\ next_frame' = FrameAfter(nodes + n + 1)
      /\ free_num_pages' = free_num_pages - n
      /\ ret' = area_list[i].addr
      /\ UNCHANGED wild

\* The first sufficient area of the list serves the request.
Palloc(n) ==
  /\ ~wild
  /\ \/ PallocFails(n)
     \/ /\ n > 0
        /\ \E i \in DOMAIN area_list :
             /\ Sufficient(i, n)
             /\ \A j \in 1 .. i - 1 : ~Sufficient(j, n)
             /\ PallocFrom(i, n) \/ PallocWild(i, n)
-----------------------------------------------------------------------------
(* vmm_free.                                                               *)

IsFree(s, i) == i \in DOMAIN s /\ s[i].state = "FREE"

\* Mutated form of MergePrev: a free neighbour before the area is left alone.
MergePrevNever(s, i) == s

\* vmm_area_try_merge_with_neighbors: the area takes in the one before it ...
MergePrev(s, i) ==
  IF IsFree(s, i - 1)
    THEN RemoveAt([s EXCEPT ![i].addr = s[i - 1].addr,
                            ![i].num_pages = @ + s[i - 1].num_pages], i - 1)
    ELSE s

\* ... and the one after it.  Their nodes' frames are lost to pmm_pfree.
MergeNext(s, i) ==
  IF IsFree(s, i + 1)
    THEN RemoveAt([s EXCEPT ![i].num_pages = @ + s[i + 1].num_pages], i + 1)
    ELSE s

Merge(s, i) == MergeNext(MergePrev(s, i), IF IsFree(s, i - 1) THEN i - 1 ELSE i)

\* vmm_unmap_area
Unmap(a) == [p \in Heap |-> IF p \in PagesOf(a) THEN Unmapped ELSE entry[p]]

\* Mutated form of Returned: the count is not updated.
ReturnedNothing(s, i) == 0

\* What free_num_pages grows by: the size of the area once merged.
Returned(s, i) ==
  LET here == IF IsFree(s, i - 1) THEN i - 1 ELSE i IN Merge(s, i)[here].num_pages

\* A caller frees a block it holds, by the address vmm_palloc returned.
Free ==
  /\ ~wild
  /\ \E i \in DOMAIN area_list :
       /\ area_list[i].state = "ALLOCATED"
       /\ LET freed == [area_list EXCEPT ![i].state = "FREE"]
          IN  /\ area_list' = Merge(freed, i)
              /\ free_num_pages' = free_num_pages + Returned(freed, i)
       /\ entry' = Unmap(area_list[i])
       /\ UNCHANGED <<next_frame, ret, wild>>

Next == Free \/ \E n \in 0 .. MaxPages : Palloc(n)

Spec == Init /\ [][Next]_vars
-----------------------------------------------------------------------------
(* Properties.                                                             *)

\* The areas tile the range in the order of the list, whatever was split and
\* merged, and no two free ones are neighbours.
Tiled ==
  /\ area_list # <<>>
  /\ area_list[1].addr = Start
  /\ Last(area_list).addr + Last(area_list).num_pages = Start + HeapPages
  /\ \A i \in 1 .. Len(area_list) - 1 :
       /\ area_list[i + 1].addr = area_list[i].addr + area_list[i].num_pages
       /\ ~(IsFree(area_list, i) /\ IsFree(area_list, i + 1))

\* A page is mapped exactly if it is in an allocated area, and no two pages
\* share a frame until pmm_palloc has run out; from then on vmm_palloc, which
\* does not look at what pmm_palloc returned, maps pages to frame 0.
Backed ==
  \A p \in Heap :
    /\ entry[p] # Unmapped <=>
         \E i \in DOMAIN area_list : area_list[i].state = "ALLOCATED" /\ p \in PagesOf(area_list[i])
    /\ entry[p] = 0 => next_frame = 0
    /\ \A q \in Heap \ {p} : entry[p] = entry[q] => entry[p] \in {Unmapped, 0}

\* The pages of free areas, and those among them that a step merges with freed ones.
FreePages == {p \in Heap : \E i \in DOMAIN area_list :
                 IsFree(area_list, i) /\ p \in PagesOf(area_list[i])}
CountedAgain ==
  {p \in FreePages : \E i \in DOMAIN area_list' :
     /\ p \in PagesOf(area_list'[i])
     /\ PagesOf(area_list'[i]) \cap (FreePages' \ FreePages) # {}}

\* free_num_pages follows the free pages step by step but for one thing: a free adds the
\* size of its area once merged (vmm.c:142), so the pages of free neighbours, which were
\* counted when they were freed, are counted again, and never taken off.  No other call
\* puts it off, and none of it back.
CountsNeighboursAgain ==
  [][free_num_pages' - free_num_pages =
       Cardinality(FreePages') - Cardinality(FreePages) + Cardinality(CountedAgain)]_vars

\* vmm_palloc and vmm_free are the block allocator of HeapBlocks: first fit over
\* the areas is lowest address, and a request is refused only for want of room,
\* which needs that frees leave no two free areas side by side.
Blocks == {[addr |-> area_list[i].addr, num_pages |-> area_list[i].num_pages] :
             i \in {j \in DOMAIN area_list : area_list[j].state = "ALLOCATED"}}
Abstract == INSTANCE HeapBlocks WITH blocks <- Blocks
ImplementsBlocks == Abstract!Spec
=============================================================================
