----------------------------- MODULE HeapBlocks -----------------------------
(***************************************************************************)
(* What vmalloc and vfree promise the kernel: blocks of consecutive pages  *)
(* of one virtual range, no two of which overlap.  A request is refused    *)
(* only when no gap between the blocks is long enough, and it is given the *)
(* lowest address that fits.  AddrSpace (kernel/src/mm/vmm/vmm.c)          *)
(* implements it.                                                          *)
(***************************************************************************)
EXTENDS Integers, FiniteSetsExt

CONSTANTS Heap,    \* the pages of the range, numbered; 0 is not one of them
          MaxPages \* largest request

VARIABLES blocks,  \* the blocks in use
          ret      \* what the last request was answered

vars == <<blocks, ret>>

Pages(b) == b.addr .. b.addr + b.num_pages - 1

InUse == UNION {Pages(b) : b \in blocks}

\* Where n pages fit.
Fits(n) == {a \in Heap : a .. a + n - 1 \subseteq Heap \ InUse}

Init == blocks = {} /\ ret = 0

Refuse(n) ==
  /\ n = 0 \/ Fits(n) = {}
  /\ ret' = 0
  /\ UNCHANGED blocks

Grant(n) ==
  /\ n > 0 /\ Fits(n) # {}
  /\ ret' = Min(Fits(n))
  /\ blocks' = blocks \cup {[addr |-> ret', num_pages |-> n]}

Release == \E b \in blocks : blocks' = blocks \ {b} /\ UNCHANGED ret

Next == Release \/ \E n \in 0 .. MaxPages : Refuse(n) \/ Grant(n)

Spec == Init /\ [][Next]_vars
=============================================================================
