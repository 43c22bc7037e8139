----------------------------- MODULE FrameLedger -----------------------------
(***************************************************************************)
(* What the rest of the kernel relies on the physical memory manager for:  *)
(* a ledger of page frames.  Memory is published while the machine boots,  *)
(* and from then on runs of consecutive frames are handed out, a frame at  *)
(* most once.  PhysMem (kernel/src/mm/pmm/pmm.c) implements it.            *)
(***************************************************************************)
EXTENDS Integers

VARIABLES given, \* the frames handed out so far
          free   \* how many more the ledger still promises

vars == <<given, free>>

Init == given = {} /\ free = 0

\* Memory found at boot is added before the first frame is handed out.
Publish == /\ given = {}
           /\ free' \in Nat
           /\ free' > free
           /\ UNCHANGED given

\* A run of as many consecutive frames as the promise shrinks by, starting at
\* first, none of them handed out before.
Run(first) == first .. (first + (free - free') - 1)

Hand == /\ free' \in Nat
        /\ free' < free
        /\ \E first \in given' : /\ Run(first) \cap given = {}
                                 /\ given' = given \cup Run(first)

Next == Publish \/ Hand

Spec == Init /\ [][Next]_vars
=============================================================================
