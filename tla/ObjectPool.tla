----------------------------- MODULE ObjectPool -----------------------------
(***************************************************************************)
(* What cache_alloc promises the kernel's caches: an object that no one    *)
(* holds, or NULL when the heap has no memory.  Slab                       *)
(* (kernel/src/mm/slab.c) implements it as long as nothing is freed.       *)
(***************************************************************************)
CONSTANTS Cache,  \* the caches
          Object, \* places in memory
          NULL, FAULT \* answers that are not objects: none, and none at all

VARIABLES held, \* what callers hold: cache and object
          ret   \* what the last call answered: cache and object

vars == <<held, ret>>

Taken == {h.obj : h \in held}

Init == held = {} /\ ret.obj = NULL

Grant(c) ==
  \E o \in Object \ Taken :
    /\ ret' = [cache |-> c, obj |-> o]
    /\ held' = held \cup {ret'}

Refuse(c) ==
  \E o \in {NULL, FAULT} : ret' = [cache |-> c, obj |-> o] /\ UNCHANGED held

Next == \E c \in Cache : Grant(c) \/ Refuse(c)

Spec == Init /\ [][Next]_vars
=============================================================================
