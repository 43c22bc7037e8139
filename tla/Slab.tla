-------------------------------- MODULE Slab --------------------------------
(***************************************************************************)
(* The slab allocator, kernel/src/mm/slab.c, on the linked lists of        *)
(* libds/list.h, pointer by pointer.  A cache has three lists of slabs; a  *)
(* slab links its free objects through their own memory; the header of a   *)
(* slab is itself an object of slabs_cache, except for the slabs of        *)
(* slabs_cache, whose headers come from vmalloc.                           *)
(*                                                                         *)
(* A node is the address of a list_t.  The first member of slab_t and of   *)
(* cache_t is their node, so an object, the header or cache stored in it   *)
(* and its node are one address.  vmalloc may fail at any call.  A store   *)
(* through a NULL pointer stops the machine (FAULT).                       *)
(***************************************************************************)
EXTENDS Integers, Sequences, FiniteSetsExt

CONSTANTS PerSlab,  \* num_objs_per_slab of each cache
          MaxCaches, \* bound on the caches
          MaxSlabs   \* how many slabs the heap has room for

SLABS == 1  \* slabs_cache
CACHES == 2 \* caches_cache

ASSUME SlabAssumption ==
  /\ MaxCaches \in Nat /\ MaxCaches >= CACHES
  /\ MaxSlabs \in Nat
  /\ PerSlab \in [1 .. MaxCaches -> Nat \ {0}]

VARIABLES
  mem,  \* the lists (next, prev), the slabs' headers and the caches
  ret,  \* what the last call of cache_alloc answered, and for which cache
  held, \* the objects that callers hold
  freed \* something was freed

slabVars == <<mem, ret, held, freed>>

(* Nodes: a kind and two numbers.                                          *)
ListHead(c, list) == <<list, c, 0>>
Freelist(s) == <<"freelist", s, 0>>
Obj(s, i) == <<"obj", s, i>>
OwnHeader(s) == <<"slab", s, 0>>
Chain == <<"chain", CACHES, 0>>
NULL == <<"null", 0, 0>>
FAULT == <<"fault", 0, 0>>

SlabLists == {"slabs_free", "slabs_partial", "slabs_full"}
-----------------------------------------------------------------------------
(* libds/list.h                                                            *)

\* Memory after a store of v at x, mapped before or not.
Store(f, x, v) == [y \in DOMAIN f \cup {x} |-> IF y = x THEN v ELSE f[y]]

ListInit(m, n) == [m EXCEPT !.next = Store(@, n, n), !.prev = Store(@, n, n)]

\* list_append, which is list_insert before the head.
ListAppend(m, into, new) ==
  LET a == [m EXCEPT !.next = Store(@, new, into), !.prev = Store(@, new, m.prev[into])]
      b == [a EXCEPT !.next[a.prev[new]] = new]
  IN  [b EXCEPT !.prev[b.next[new]] = new]

\* Mutated form of ListRemove: the node keeps its place.
ListRemoveNot(m, n) == m

ListRemove(m, n) ==
  LET a == [m EXCEPT !.next[m.prev[n]] = m.next[n]]
      b == [a EXCEPT !.prev[a.next[n]] = a.prev[n]]
  IN  [b EXCEPT !.next[n] = n, !.prev[n] = n]

ListNext(m, n) == IF m.next[n] # n THEN m.next[n] ELSE NULL
-----------------------------------------------------------------------------
(* Caches and slabs.                                                       *)

\* cache_init of the cache that becomes number c.
CacheInit(m, c) ==
  LET fresh == [m EXCEPT !.cache = Append(@, [total_num_objs |-> 0, total_num_slabs |-> 0])]
      free == ListInit(fresh, ListHead(c, "slabs_free"))
      partial == ListInit(free, ListHead(c, "slabs_partial"))
  IN  ListInit(partial, ListHead(c, "slabs_full"))

\* slab_init; its two calls of vmalloc are the first ones.
SlabInit ==
  /\ mem = LET none == [next |-> << >>, prev |-> << >>, slab |-> << >>, cache |-> << >>]
           IN  ListInit(CacheInit(CacheInit(none, SLABS), CACHES), Chain)
  /\ ret = [cache |-> CACHES, obj |-> NULL]
  /\ held = {}
  /\ freed = FALSE

\* Memory vmalloc has not handed out, and what it hands out next.
Unused(m) == 1 .. MaxSlabs \ DOMAIN m.slab
NextUnused(m) == CHOOSE s \in Unused(m) : \A t \in Unused(m) : s <= t

\* cache_grow once it has a header and memory: the objects are linked in order.
NewSlab(m, c, header) ==
  LET s == NextUnused(m)
      bare == [m EXCEPT !.slab = Store(@, s, [cache |-> c, num_objs_inuse |-> 0, node |-> header]),
                        !.cache[c].total_num_slabs = @ + 1,
                        !.cache[c].total_num_objs = @ + PerSlab[c]]
      linked[i \in 0 .. PerSlab[c]] ==
        IF i = 0 THEN ListInit(ListInit(bare, header), Freelist(s))
        ELSE ListAppend(linked[i - 1], Freelist(s), Obj(s, i))
  IN  ListAppend(linked[PerSlab[c]], ListHead(c, "slabs_free"), header)

\* slab_select without its growth: a partial slab before a free one.
Selected(m, c) ==
  IF ListNext(m, ListHead(c, "slabs_partial")) # NULL
    THEN ListNext(m, ListHead(c, "slabs_partial"))
    ELSE ListNext(m, ListHead(c, "slabs_free"))

\* Mutated form of Destination: a slab is full one object late.
DestinationLate(m, s) ==
  IF m.slab[s].num_objs_inuse > PerSlab[m.slab[s].cache] THEN "slabs_full" ELSE "slabs_partial"

\* The list that a slab goes to once an object was taken from it.
Destination(m, s) ==
  IF m.slab[s].num_objs_inuse = PerSlab[m.slab[s].cache] THEN "slabs_full" ELSE "slabs_partial"

\* cache_alloc from the slab at node.  A node that is no slab's, and an empty free
\* list, fault; Sound shows that neither comes up before something is freed.
Take(m, c, node) ==
  LET s == CHOOSE t \in DOMAIN m.slab : m.slab[t].node = node
      obj == ListNext(m, Freelist(s))
      taken == [ListRemove(m, obj) EXCEPT !.slab[s].num_objs_inuse = @ + 1]
  IN  IF node \notin {m.slab[t].node : t \in DOMAIN m.slab} \/ obj = NULL
        THEN [obj |-> FAULT, mem |-> m]
        ELSE [obj |-> obj,
              mem |-> ListAppend(ListRemove(taken, node), ListHead(c, Destination(taken, s)), node)]
-----------------------------------------------------------------------------
(* cache_grow and cache_alloc call each other, two levels deep.  Each is   *)
(* the set of its outcomes: an address, NULL or FAULT, and the memory.     *)

Fails(o) == o.obj \in {NULL, FAULT}

\* cache_grow, given the outcomes of getting a header.  What vmalloc returns for
\* the objects is not looked at: their nodes are then stored from address 0 on.
GrowWith(m, c, headers) ==
  UNION {IF Fails(h) THEN {h}
         ELSE {[obj |-> FAULT, mem |-> h.mem]} \cup
              IF Unused(h.mem) = {} THEN {}
              ELSE {[obj |-> h.obj, mem |-> NewSlab(h.mem, c, h.obj)]} : h \in headers}

\* cache_alloc, given the outcomes of a growth.
AllocWith(m, c, growths) ==
  IF Selected(m, c) # NULL THEN {Take(m, c, Selected(m, c))}
  ELSE {IF Fails(g) THEN g ELSE Take(g.mem, c, Selected(g.mem, c)) : g \in growths}

GrowSlabs(m) ==
  LET none == [obj |-> NULL, mem |-> m]
  IN  GrowWith(m, SLABS, IF Unused(m) = {} THEN {none}
                         ELSE {none, [obj |-> OwnHeader(NextUnused(m)), mem |-> m]})

Growths(m, c) ==
  IF c = SLABS THEN GrowSlabs(m) ELSE GrowWith(m, c, AllocWith(m, SLABS, GrowSlabs(m)))

Allocs(m, c) == AllocWith(m, c, Growths(m, c))
-----------------------------------------------------------------------------
(* The calls.                                                              *)

Running == ret.obj # FAULT

Holds(answer) == IF Fails(answer) THEN {} ELSE {answer}

Alloc(c) ==
  /\ Running
  /\ c \in DOMAIN mem.cache \ {SLABS, CACHES}
  /\ \E o \in Allocs(mem, c) :
       /\ mem' = o.mem
       /\ ret' = [cache |-> c, obj |-> o.obj]
       /\ held' = held \cup Holds(ret')
  /\ UNCHANGED freed

\* cache_create; it does not look at what cache_alloc returned.
CacheCreate ==
  /\ Running /\ Len(mem.cache) < MaxCaches
  /\ \E o \in Allocs(mem, CACHES) :
       IF Fails(o)
         THEN mem' = o.mem /\ ret' = [cache |-> CACHES, obj |-> FAULT] /\ UNCHANGED held
         ELSE /\ mem' = ListAppend(CacheInit(o.mem, Len(mem.cache) + 1), Chain, o.obj)
              /\ ret' = [cache |-> CACHES, obj |-> o.obj]
              /\ held' = held \cup {ret'}
  /\ UNCHANGED freed

\* cache_grow called by itself; its result only says whether it had a header.
Grow(c) ==
  /\ Running /\ c \in DOMAIN mem.cache
  /\ \E o \in Growths(mem, c) :
       /\ mem' = o.mem
       /\ ret' = IF o.obj = FAULT THEN [cache |-> c, obj |-> FAULT] ELSE ret
  /\ UNCHANGED <<held, freed>>

\* Memory without the addresses in G.
Without(f, G) == [x \in DOMAIN f \ G |-> f[x]]

\* The list nodes in the memory of slab s.
Gone(m, s) ==
  {n \in DOMAIN m.next : n \in {OwnHeader(s), Freelist(s)} \/ (n[1] = "obj" /\ n[2] = s)}

\* What remains when that memory is given to vfree.
Unmapped(m, s) ==
  [m EXCEPT !.next = Without(@, Gone(m, s)), !.prev = Without(@, Gone(m, s)), !.slab = Without(@, {s}),
            !.cache[m.slab[s].cache].total_num_slabs = @ - 1,
            !.cache[m.slab[s].cache].total_num_objs = @ - PerSlab[m.slab[s].cache]]

SlabOf(m, node) == CHOOSE s \in DOMAIN m.slab : m.slab[s].node = node

\* One call that frees through cache_free is enough to show what becomes of the
\* lists; Once bounds these, and keeps cache_shrink from lists they have broken.
Once == ~freed

\* cache_shrink of slabs_cache: the header is given to vfree as well.
ShrinkSlabs ==
  /\ Running /\ Once
  /\ LET node == ListNext(mem, ListHead(SLABS, "slabs_free"))
     IN  node # NULL /\ mem' = Unmapped(ListRemove(mem, node), SlabOf(mem, node))
  /\ UNCHANGED <<ret, held, freed>>

\* The life of the kernel as long as no call of vmalloc for an inode's private
\* part fails: nothing is freed.
SlabNext == CacheCreate \/ ShrinkSlabs \/ \E c \in 1 .. MaxCaches : Alloc(c) \/ Grow(c)

SlabSpec == SlabInit /\ [][SlabNext]_slabVars
-----------------------------------------------------------------------------
(* cache_free.                                                             *)

\* cache_free_within of the slab s in whose memory the pointer lies.  What is put
\* on the free list is the node of the walk, which is the slab's own.
FreeWithin(m, s) ==
  LET node == m.slab[s].node
      less == [m EXCEPT !.slab[s].num_objs_inuse = @ - 1]
      list == IF less.slab[s].num_objs_inuse = 0 THEN "slabs_free" ELSE "slabs_partial"
  IN  ListAppend(ListAppend(ListRemove(less, node), ListHead(m.slab[s].cache, list), node),
                 Freelist(s), node)

\* A caller frees what it holds, as tmpfs_inode_create does (tmpfs.c:48).
Free ==
  /\ Running /\ Once
  /\ \E h \in held :
       /\ h.cache # CACHES
       /\ mem' = FreeWithin(mem, h.obj[2])
       /\ held' = held \ {h}
  /\ freed' = TRUE
  /\ UNCHANGED ret

\* cache_shrink of another cache frees the header through cache_free.
Shrink(c) ==
  /\ Running /\ Once
  /\ c \in DOMAIN mem.cache \ {SLABS}
  /\ LET node == ListNext(mem, ListHead(c, "slabs_free"))
     IN  /\ node # NULL
         /\ mem' = FreeWithin(Unmapped(ListRemove(mem, node), SlabOf(mem, node)), node[2])
  /\ freed' = TRUE
  /\ UNCHANGED <<ret, held>>

NextFreeing == SlabNext \/ Free \/ \E c \in 1 .. MaxCaches : Shrink(c)

SpecFreeing == SlabInit /\ [][NextFreeing]_slabVars
-----------------------------------------------------------------------------
(* Properties.                                                             *)

\* The nodes that a walk from a list's head meets before it is back.
Ring(m, head) ==
  LET size == Cardinality(DOMAIN m.next)
      at[k \in 0 .. size] == IF k = 0 THEN head ELSE m.next[at[k - 1]]
  IN  {at[k] : k \in 0 .. size} \ {head}

Objects(s) == {Obj(s, i) : i \in 1 .. PerSlab[mem.slab[s].cache]}
SlabsOf(c) == {s \in DOMAIN mem.slab : mem.slab[s].cache = c}
Headers == {mem.slab[s].node : s \in DOMAIN mem.slab}

ListFor(s) ==
  IF mem.slab[s].num_objs_inuse = 0 THEN "slabs_free"
  ELSE IF mem.slab[s].num_objs_inuse = PerSlab[mem.slab[s].cache] THEN "slabs_full"
  ELSE "slabs_partial"

\* The nodes are linked both ways, and the caches' totals are the slabs there are.
Linked ==
  /\ DOMAIN mem.next = DOMAIN mem.prev
  /\ \A n \in DOMAIN mem.next : /\ mem.next[n] \in DOMAIN mem.next /\ mem.prev[mem.next[n]] = n
                                /\ mem.prev[n] \in DOMAIN mem.next /\ mem.next[mem.prev[n]] = n
  /\ \A c \in DOMAIN mem.cache :
       /\ mem.cache[c].total_num_slabs = Cardinality(SlabsOf(c))
       /\ mem.cache[c].total_num_objs = PerSlab[c] * Cardinality(SlabsOf(c))
  /\ \A s \in DOMAIN mem.slab : mem.slab[s].num_objs_inuse \in 0 .. PerSlab[mem.slab[s].cache]

\* Every slab is on the one list of its cache that its count of objects says, an
\* object is on its slab's free list exactly if neither a caller nor a slab's header
\* is in it, and no two slabs share a header, although headers, caches, objects and
\* free lists are linked through the same memory.  (Until the machine stops.)
Sound == Running =>
  /\ Linked
  /\ \A c \in DOMAIN mem.cache, list \in SlabLists :
       Ring(mem, ListHead(c, list)) = {mem.slab[s].node : s \in {t \in SlabsOf(c) : ListFor(t) = list}}
  /\ \A s \in DOMAIN mem.slab :
       /\ Ring(mem, Freelist(s)) = Objects(s) \ (Headers \cup {h.obj : h \in held})
       /\ Cardinality(Ring(mem, Freelist(s))) = PerSlab[mem.slab[s].cache] - mem.slab[s].num_objs_inuse
  /\ Cardinality(Headers) = Cardinality(DOMAIN mem.slab)
  /\ Ring(mem, Chain) = {h.obj : h \in {g \in held : g.cache = CACHES}}

\* What cache_alloc answers is an object of the cache it was asked for.
ObjectsOnly ==
  ~Fails(ret) => ret.obj \in UNION {Objects(s) : s \in SlabsOf(ret.cache)}

\* cache_alloc never hands out memory that someone holds.
Pool == INSTANCE ObjectPool WITH
          Cache <- 1 .. MaxCaches,
          Object <- {Obj(s, i) : s \in 1 .. MaxSlabs, i \in 1 .. Max({PerSlab[c] : c \in 1 .. MaxCaches})}
ImplementsPool == Pool!Spec
=============================================================================
