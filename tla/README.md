# Astralios in TLA+

TLA+ models of the Astralios kernel (x86-64, C), TLC runs that check them on
small instances, and TLAPS proofs for all values of the constants. Paths below
are relative to the repository. The code is built at `-O0` for a single
processor; interrupt gates clear IF. The repository's documentation is a
three-line README, so the code itself is the reference throughout.

## 1. Inventory

Each part with the state it keeps, its operations, what makes it hard, and what
makes it correct. Parts marked * are modelled, parts marked (*) partly.

| Part (source) | State | Operations | Hard behaviour | Correct if |
|---|---|---|---|---|
| * physical memory manager (`kernel/src/mm/pmm/pmm.c`, `libds/bitmap.h`) | list of areas, each a bitmap, a hint and a page count; one global count | `pmm_init`, `pmm_palloc`, `pmm_pfree` | four records of the same fact updated apart; boundary arithmetic | no frame out twice, none outside memory, fails only when short, counts exact |
| (*) virtual memory manager, heap (`mm/vmm/vmm.c`, `mm/vheap.c`) | list of areas tiling a range, page table, free count | `vmm_palloc` (`vmalloc`), `vmm_free` (`vfree`) | split and merge sequences; frames run out half way; preemption inside a call | areas tile the range, blocks disjoint, refused only for want of room |
| (*) scheduler (`tasks/sched.c`, `switch_to.asm`) | four queues, current and idle task, saved stacks | `sched_init`, `sched_switch`, `task_yield`, `task_sleep`, `task_wake_all_up`, `task_postlude`, `kernel_task_create` | a tick between any two instructions with IF = 1 | no task lost, none twice in a queue, no runnable task starves |
| (*) interrupt entry (`ints/isr.asm`, `isr_handlers.c`) | IF, vectors in service | timer, keyboard, mouse, COM1 | the timer handler may leave in another task's stack; the controller is changed while interrupts are on | every interrupt acknowledged before IF is set again |
| * ring buffer (`libds/ringbuf.c`) | array, head, tail, len | `ringbuf_init/write/read/empty` | wrap-around, overwriting | a bounded queue |
| * mouse driver (`drvs/ps2/ps2_mouse.c`) | event buffer, packet bytes | init, interrupt callback, `ps2_mse_read` | reader and handler share the buffer unprotected; lost bytes | events whole, in order, none lost until overflow |
| * start-up and main loop (`kernel.c`) | pointer position | the `*_init` calls in order, event loop | interrupts on all the way through; calls that need an earlier one | reaches its loop with every device working; the pointer is where the movements put it |
| (*) keyboard driver (`drvs/ps2/kbd`) | event buffer, decoder flags | init, callback, `ps2_kbd_read`, decode | as the mouse; prefix bytes; timeouts read as data | each key's press and release decoded as such |
| * PS/2 controller (`drvs/ps2/ps2.c`, `misc.c`) | device registers | init, polled read and write | counted timeouts; one output buffer for answers and both devices | every answer reaches who asked; terminates |
| * paging (`arch/x86_64/mm/paging.c`) | four-level tables | `pt_map`, `pt_unmap`, `pt_join_kernel`, `pt_swap` | tables allocated on the way and written through the map they make; kernel half copied once; cached translations | a walk finds what was mapped; tables stay reachable; nothing stale is used |
| * slab allocator (`mm/slab.c`, `libds/list.h`) | caches, three slab lists each, free lists inside the objects | `cache_create/alloc/free/grow/shrink` | nodes move between lists; a node linked into two | an object out once; lists stay lists |
| * tmpfs (`fs/tmpfs.c`) | inodes, chunk lists | `create`, `lookup`, `read`, `write` | chunk borders, memory running out mid-write | a file is a byte sequence; a name leads to its inode |
| (*) VFS (`fs/vfs.c`), tar (`fs/tar.c`) | root inode | path walk, create, mount, extract | path edge cases, errors mid-way | a created path is found again |
| (*) devices (`devs/dev.c`) | device list | create, find, read, write | lookup by `strcmp`, which accepts prefixes | a name finds its device |
| * interrupt controllers, timer (`ints/apic.c`, `pic.c`, `pit.c`) | registers, tick count | init, EOI, mask, sleep | start-up order: a sleep needs ticks | reaches its end |
| ACPI (`firmware/acpi`), boot stub (`bootstub/limine`) | tables, bump heap | walk, copy | lengths from outside | terminates, stays in bounds |
| (*) graphics, terminal (`gfx`, `terminal`) | surface, cursor | draw, sync | signed coordinates off the screen, two index formulas | writes stay in the surface; the screen shows what was drawn |
| (*) descriptor tables, exceptions (`desc`, `exceptions.c`) | tables | load once | none of its own | n/a |
| C library (`libc`) | none | strings, formatting | `strcmp` equal on prefixes, `strcpy` writes no NUL | agrees with its reference |
| trees, maps (`avltree.c`, `rbtree.c`, `hashmap.c`) | trees | insert, remove | rotations | not called by the kernel |

How they interact: `vmm` takes frames from `pmm` for mappings and for its own
list nodes, and writes page tables through `paging`; `slab`, `tmpfs` chunks and
task stacks come from `vmalloc`; inodes and devices come from `slab`. The timer
interrupt calls the scheduler; the keyboard and mouse interrupts write ring
buffers that the main loop reads through `devs`. `kmain` runs all `*_init`
functions in order with interrupts enabled, then loops over mouse events; it
never calls `sched_init`, so the scheduler is reached only by the tick's early
return (`scheduler_ready` is false) until something calls it.

## 2. Plan

Done, in the order of the plan: `PhysMem`, `RingBuf`, `InputRace`, `Sched`,
`AddrSpace`, `TmpfsFile`, `Slab`, `Vfs`, `Paging`, `Startup` (on `IntCtrl` and
`Ps2`), `Cursor`; proofs of `PhysMem`, `RingBuf`, `InputRace`, `Sched`, `AddrSpace`,
`Paging`, `Startup`, `Cursor`, `TmpfsFile`, `Slab` and `Vfs`.

Left, in this order:

1. `HeapRace`: two tasks inside `vmm_palloc`, and `sched_schedule` against the
   tick, at the granularity of list stores.
2. User tasks: `user_task_create`'s stack, `tss.rsp0`, the first interrupt.
3. Algorithms as operators against references: `strcmp`, the MADT walk, the boot
   stub's heap, the AVL tree.

No module declares a RECURSIVE operator.

## 3. Modules

**FrameLedger, PhysMem, MCPhysMem, PhysMemProofs.** `PhysMem` is `pmm.c`, one
action per turn of `pmm_init`'s loop (`AddArea`, `SkipEntry`), `Palloc(n)` and
the two ways the kernel frees: `FreeFrame` (`pt_unmap`) and `FreeNode` (a merged
heap area's node). The unit is a frame; `NumFree` and `HeaderPages` are the
code's own formulas on byte counts. `Init` leaves `pmm_init` its memory map.
`Pfree` is complete, with the bounds test, the index arithmetic and the updates,
although `NothingComesBack` shows that no call passes the bounds test:
`to_paddr(curr)` subtracts the direct map's offset from a `pmm_area_t *`, so
40 times the offset is subtracted. `FrameLedger` is what callers rely on. The frame
that `pmm_init` counts past a region may be the next area's header; its owner then
overwrites that area's counters and link, so the model goes no further once a header
has been handed out (`HeadersKept`).

**EventQueue, RingBuf, MCRingBuf, StructureProofs.** `RingBuf` is `ringbuf.c` with
each call a step, in both modes; `EventQueue` is a bounded queue that refuses or
drops its oldest. `Garbage` stands for what `alloc_fn` returns uncleared.

**InputRace, MCInputRace, InputRaceProofs.** The reader (`dev_read`, `ps2_mse_read`,
`ringbuf_read`) instruction by instruction against the mouse interrupt, one
step since gates mask interrupts; the writer's step is `RingBuf`'s `WriteOver`.
`hit` records that a write landed in one of four windows: during the copy or
before the store of `head` with the buffer full, or before the store of `len`
with it not full. Outside these windows the events are right; in each of them
the properties fail (they do not hold with any of the four left out).

**Sched, MCSched, SchedProofs.** A stack per context (boot code, idle, reaper, tasks) as a
sequence of program points; the processor executes the last point of
`stack[on]`. `cli`, `sti` and every list call are steps of their own, so the
masked sections are protected by `if_flag` and not by the model; `sched_schedule`,
whose list call the code does not mask, is one step all the same (section 6). `Interrupt`
pushes the handler; `EarlyEoi`, `Tick`, `EoiAndReturn` are its three stages.
`SchedSwitch(p)` is `sched_switch` with its early return, its rotation of the
queue and `switch_to`/`task_switch`, and the fault of the debug line that reads
`curr_task->pid`. `sched_init` is four steps with interrupts on. A few facts the
model makes plain: `task_sleep` returns to a task that keeps running until it is
switched away, a task that finishes is kept for ever (nobody schedules the
reaper), and the boot code is resumed by nobody once it is switched away, since
`dummy_task` is on no queue.

**HeapBlocks, AddrSpace, MCAddrSpace, AddrSpaceProofs.** `AddrSpace` is `vmm.c` as the kernel
heap: `Split`, `Merge`, first fit, mapping and unmapping, with the frames that
mappings and list nodes use up. `HeapBlocks` is a block allocator by lowest
address that refuses only for want of room. When `pmm_alloc` fails for a list
node, the code writes through the start of the direct map: the model stops
there (`wild`). `free_num_pages`, which nothing in `vmm.c` reads, drifts upwards:
`CountsNeighboursAgain` says by how much each call puts it off.

**FileBytes, TmpfsFile, MCTmpfsFile, StructureProofs.** `TmpfsFile` is `tmpfs_read` and
`tmpfs_write` on one file, a whole call a step, with chunk memory that can run
out half way. `FileBytes` is a byte sequence whose failing write may already
have replaced bytes from its offset on.

**ObjectPool, Slab, MCSlab, StructureProofs.** `Slab` is `slab.c` on the nodes of `list.h`: `mem`
holds the two pointers of every node, the slabs' counts and the caches' totals.
The first member of a slab's header, of a cache and of a free object is its node,
so one address may be an object of one cache, the header of another cache's slab
and a member of its lists; `Sound` says that this stays in order. `cache_grow`
and `cache_alloc` call each other two levels deep (an ordinary cache takes its
headers from `slabs_cache`, which takes its own from `vmalloc`); each is the set
of its outcomes, an address, `NULL`, or `FAULT` where the code stores through a
NULL pointer. `SlabSpec` is the life without frees, which is the kernel's until
`vmalloc` fails in `tmpfs_inode_create`; `SpecFreeing` adds one free. `ObjectPool`
hands out what no one holds.

**Err, NameTree, Vfs, MCVfs, StructureProofs.** `Err` has the codes of `err_t` that
`TmpfsFile` and `Vfs` answer with. `Vfs` (`FsSpec`) follows `kmain` from `fs_mount` to the lookup of
the welcome file: mount, `/initrd`, the headers of the archive one by one, the
lookup. A path is a sequence of names and slashes, and `ParentPath`, `Basename`
and `Components` are the walks of `vfs.c` over it; a directory is the sequence of
its entries. A header's call is `vfs_create` and the `inode_write` after it.
Chunks of a directory are not kept, because only the first is ever reached: the
512th entry is written past it, and the model stops there (`unknown`), as it does
when `cache_free` has broken the inode cache. `NameTree` is a map from sequences
of names to nodes in which the first of a name wins.

**AddressMap, Paging, MCPaging, PagingProofs.** `Paging` is `paging.c` with its callers: the
maps of `kmain` (kernel sections, memory map) and of `apic_init` one by one, the
swap, the heap's calls a page at a time, tasks that copy the kernel's half and are
switched to in the middle of a call. A table is a frame's entries, four levels,
and `Walk` is what the processor finds, flags included. `stale` holds the
translations it may have read and its tables no longer contain; `pt_unmap`
invalidates the page of the table (its `table` argument), so only
`vmm_unmap_area`'s own `invplg` drops the right one. Frames come in `PhysMem`'s
order and none returns, and nothing is supposed of where they lie: `pmm_init` may
count a frame past a usable region (`FramesUsable`), and a table put there may be in
memory that `pt_map_memmap` does not map, or that is not there. The model stops
(`wild`) when a table is taken from frame 0, memory having run out; when one is
worked on that the tables in use do not lead to (`InReach`); and it may stop whenever
one outside usable memory is worked on. Such frames as a page's contents, not as a
table, change nothing the model keeps. `AddressMap` is address spaces as sets of translations, other spaces being
views of the kernel's: `pt_join_kernel` copies top-level entries once, so a view
shows later changes in the regions that were in use, and no region that came later.

**IntCtrl, Ps2, Startup, MCStartup, StartupProofs.** `Startup` is `kmain` from `idt_init` to its
loop with interrupts on, on the two modules it extends. `IntCtrl` holds PIC,
local APIC and its timer, I/O APIC and the PIT's ticks: what `pic.c` and `apic.c`
write, and what the hardware does with an edge that is masked (the PIC keeps it,
the I/O APIC forgets it). `Served` is a whole interrupt, with the end of interrupt
sent to whichever controller is in charge when it ends. `Ps2` is the controller's
one output buffer, which answers and both devices share, the two decoders and
the two callbacks; a read that finds nothing is -1, as `ps2_readData`'s is.
`kmain`'s questions are three steps each (writes, `ps2_waitRead`, the read), so a
handler can take the byte between the last two. `odd` records what went other
than usual, and the properties say what each such thing excuses.

**Pointer, Cursor, MCCursor, CursorProofs.** `Cursor` is the loop of `kmain`
after an event: black rectangle, sync, move, yellow rectangle, sync. Back buffer
and framebuffer are memory indexed by cell, with cells before and behind them that
belong to others; `PixelAt` and `Chunk` are the two index formulas and the two
ways of clipping (a conversion to `size_t`, and minima and maxima). `Pointer` is
a square on a picture. Packets have no overflow bits, and none is lost
(`Startup` and `InputRace` are about that).

Names are the source's. Definitions introduced with "Mutated form of" (and those
in `Sched` that stand directly before the definition they vary: `SelectOther`,
`QueueAddFront`, `NoEarlyEoi`, `SleepUncli`, `WakeLeaves`, `PostKeeps`,
`InitForgetsCurr`) are faulty versions of a definition; no specification uses
them, they show that the properties can fail.

## 4. Runs

| Run | Bounds, and why they are enough | Shows |
|---|---|---|
| `phys_mem` | four memory maps with regions of 1 to 8 frames, an overestimated region before a reserved frame and before another area's header, entries out of order; requests of up to 3 frames, on until memory is exhausted or a header handed out | `TypeOK`, `Bump`, `FreeCountExact`, `FramesUsable`, `FailsOnlyWhenShort`, `NothingComesBack`, `ImplementsLedger`; an ASSUME evaluates the overestimate for every region of 2 to 65500 frames |
| `ring_buf` | capacity 3, 3 events: every index wraps, full and empty in every rotation | `TypeOK`, `Aligned`, `ImplementsQueue` |
| `input_race` | capacity 2, 5 events: more than twice around, overflow in every window | `InOrder`, `WholeAndIncreasing`, `HoldsLatest`, `Drains` |
| `sched` | 3 tasks, each created at most once, so that one runs while others wait, sleep or are dead | `TypeOK`, `EveryTaskPlaced`, `DeadNeverRuns`, `TimerStaysAlive`, `CrashOnlyInInit`, `IdleIsForever`, `RunsEventually` |
| `addr_space` | 6 pages, 10 frames, requests of up to 4: free areas on both sides of an allocated one, frames exhausted in a mapping and in a split | `Tiled`, `Backed`, `CountsNeighboursAgain`, `ImplementsBlocks` |
| `slab` | 4 caches, two of them created, slabs of 2 objects and of 1, 5 slabs: a growth nested in a growth, every list of a cache in use, full heap | `Sound`, `ImplementsPool` |
| `slab_freeing` | the same and one free | `ObjectsOnly` is violated (see below) |
| `vfs` | 5 inodes, directories of 3 entries, 5 names of which one may read as another and one is too long, 7 paths: repeated and trailing slashes, a file as a directory, a path without names | `ImplementsTree` |
| `tmpfs_file` | chunks of 2 bytes, memory for 3, calls of up to 3 bytes: any border crossed from either side, memory exhausted half way | `ImplementsFile` |
| `paging` | tables of 6 entries, 19 frames, a heap of 3 pages that begins below the controllers' pages and ends in a top-level entry nobody has used, areas of up to 2 pages, one task's tables made at any time; map entries that begin and end within a page; two usable regions of two frames, whose overestimated frames are a table's in memory nobody maps and one in memory that is mapped but not free; memory runs out | `TablesReachable`, `DirectMapped`, `TlbCoherent`, `ImplementsMap` |
| `start_up` | six machines (the usual one; no APIC; a controller that fails its test; one port; devices that keep the rest of an answer; a mouse already reporting); one key of three bytes with both prefixes, one mouse packet, a sleep of one tick; before the loop at most two of: an unusual machine, a key typed, the mouse moved, an answer late | `Acknowledged`, `ComesUp`, `EventsFaithful`, `StartsUp`, `InputServed` |
| `cursor` | 3 by 3 pixels in rows of 4, a square of 2, steps of 1 and 2, up to 4 pixels from the origin: partly and wholly off every side and corner | `Inside`, `ImplementsPointer` |

Finding. `cache_free_within` appends `node` to the free list (`slab.c:146`), the
node of the slab and not the freed object. In the trace of `slab_freeing` a slab
of one object is emptied, and the next `cache_alloc` of that cache answers the
header of the slab. The comment at `slab.c:36` names small objects as what
corrupts memory; here every size does. The kernel gets there when `vmalloc` fails
for the private part of an inode.

What the three newest runs make plain, each a case their properties name:

- Between the start of the LAPIC's timer (`apic.c:145`) and
  `krnlctx(interrupt_controller) = APIC` (`apic.c:191`) a tick of that timer is
  acknowledged to the PIC. It stays in service and holds back every vector of its
  class: the timer, the keyboard and the mouse (`Acknowledged`, "early tick").
- An interrupt between `idt_init`'s `sti` and the end of `pic_init` is answered
  through a controller that is not known yet (`HandlerFaults`).
- A keyboard that sends the `AA` of its reset after the next command has it taken
  for the `ACK` of that command: the scancode set stays unknown and every key is
  ignored (`ComesUp`, `machine.keeps`).
- Without a working mouse `dev_find` answers NULL and the loop reads through it
  (`LoopFaults`). Without an APIC the mouse is never heard, since line 2 of the
  PIC is not unmasked, and its unread byte holds the keyboard's back.
- A byte that arrives while its I/O APIC line is masked raises no interrupt later,
  and neither device is heard again until someone reads it ("edge lost").
- The heap starts right behind the direct map's last page, which need not be behind
  the controllers' pages: its maps then replace theirs, and the processor may go on
  using the old ones (`TlbCoherent`).
- A heap that grows into a new top-level entry is not seen by tasks created before
  (`AddressMap.Make`).

A defect that the code has cannot be forbidden by a property that holds. Several
properties therefore set one apart by name, and say that nothing else goes wrong:
`FramesUsable` and `TablesReachable` (the overestimated frame), `Backed` (frame 0),
`Acknowledged` and `InputServed` (the early tick, the lost edge), `ComesUp` (whatever
is in `odd`, the missing mouse), `EventsFaithful` (a stray byte). Others state it as
behaviour: `CountsNeighboursAgain`, `NothingComesBack`, `IdleIsForever`, `NameTree`
(names misread or repeated, a missing directory) and `AddressMap` (later top-level
entries). They show a change of such a defect, and not its absence; the notes under
"hazards" in `PROJECT.json` say so for each.

Deadlock is not checked where the system really stops: memory exhausted
(`phys_mem`, `slab`, `paging`), start-up at its loop (`vfs`, `start_up`) or at a fault (`start_up`, `cursor`), the mouse at rest at the bound on events (`input_race`), the
machine halted after a fault (`sched`), a wild write (`addr_space`), and a
blocking buffer in which nothing else can happen (`ring_buf`).

Fairness. `InputRace` assumes WF of the reader: the processor executes the main
loop. `Sched` assumes WF of `Proceed`, the instructions of functions already
entered, and nothing of a task's own code, which may loop; and SF of the timer
interrupt, because the APIC's timer is periodic and a tick that arrives while
IF = 0 stays pending and is delivered once IF is set. `Startup` assumes WF of
`Kmain` and `Interrupt` (the processor goes on, and takes what is pending while
IF = 1), of `Ticks` (the PIT and the timer run freely) and of `Fill` (the PS/2
controller passes on what its devices send); nothing of keys and movements.

## 5. Proofs

`PhysMemProofs`, for every memory map that satisfies `MemMapAssumption` (usable
entries do not overlap, fit in the direct map, and are no longer than 3.8 TiB):
all seven properties of the run. The inductive invariant `Inv` strengthens
`Bump` with what was granted (exactly the frames below each hint), with empty
state for areas not yet listed and with the finiteness of the published frames.
`Bump` is what makes the rest follow: since a free never finds its area
(`NoOwner`, `PfreeIsNoOp`), the search always succeeds at the hint
(`FindAtHint`), so a grant is fresh (`RunIsFresh`), even where the bitmap is not
marked at an area's end. `Layout` proves the bound on `pmm_init`'s two formulas
and `AreasDisjoint` that no two areas share a frame, overestimates included.

`StructureProofs` on `RingBuf`, for every capacity and set of events: the type invariant,
`Aligned`, and the refinement of `EventQueue`. The invariant is `TypeOK` and
`Aligned`; `WriteStep` and `ReadStep` show that what the array holds from `head`
on changes as a queue does, `SuccFacts` and `WrapFacts` remove the modulus.

`StructureProofs` on `TmpfsFile`, for every size of chunk, amount of memory and length
of call: the refinement of `FileBytes`. The invariant says that the length stays within
the chunks there are, which is what keeps a read from a chunk that does not exist;
nothing is said of the bytes, since `Content` is read off the chunks. `Places` and
`Within` turn the quotient and remainder by the size of a chunk into one inequality,
`StoredFacts` says byte by byte what a write leaves, and `WriteRefines` and
`ReadRefines` compare it with the sequence, a write that runs out of memory half way
included: it may only have replaced bytes from its offset on.

`StructureProofs` on `Slab`, for every number of caches and slabs and every number of
objects to a slab that satisfies `SlabAssumption` (a slab has at least one object; the
two caches of the allocator itself are there): `Sound` and the refinement of
`ObjectPool`, as long as nothing is freed by `cache_free` and until the machine stops. The lists are
pointers, and a property of pointers alone, such as `next` and `prev` undoing one
another, does not say which list a node is on. So `SaneInv` says that there is an assignment `own` of
every node to the head of its list, in which each head's nodes are one circle of `next`
through the head (`Owned`, `Circle`), and what it is: a slab's header is on the list of its cache that its
count of objects says, an object on its slab's free list, unless it is the header of
another slab, a cache on the chain, or held (`Placed`). Besides, an ordinary slab's header is an object, that
nobody holds, of a slab of `slabs_cache`, and no two are the same place (`Headed`); and the counts are
the numbers of what is used (`Counted`). `ListInit`, `ListAppend` and `ListRemove` change `own` at one node each; what
follows of `Ring`, which the property follows from a head on, is that it is the nodes
`own` gives to that head. The order of the stores matters, since one address is a header,
an object and a cache at once: `TakeFacts`, `NewSlabFacts`, `CacheInitFacts` and `ShrinkFacts` take one function of
`slab.c` each, and `GrowthsFine` and `AllocsFine` nest them the two levels that
`cache_grow` and `cache_alloc` call each other, with each of `vmalloc`'s failures.
The refinement needs of it only that the object taken off a free list was not held
(`HandedGranted`). `cache_shrink` of `slabs_cache`, which unmaps a header with its slab, is
included.

`StructureProofs` on `Vfs`, for every set of names, of paths and of misreadings that
satisfies `VfsAssumption` (a name may at least read as itself; a path starts with a slash
and has no two names in a row) and every size of a directory: the refinement of
`NameTree`, until an entry past the page or a broken free list makes everything unknown.
Directories are tables of places and `NameTree` knows only names, so the invariant
(`FsInv`, `Table`) says that entries are later inodes, each in one directory, and that
files have none: two ways of names then never lead to one place (`WalkOnce`), and a way to
an inode is no longer than the table, so that what `TreeOf` collects turn by turn is all
that can be walked to (`FoundIs`). A created entry changes no walk that led somewhere, and
of those that did not only the one to its name (`LinkStep`, `LinkWalk`): if the name was
there before, none at all, which is why the first of a name stays (`TreeGrows`). A lost
inode changes none (`LostWalk`). That `parent_path` and `basename_of_path`, which go
through the string from its end, split what `vfs_lookup` reads from its start is
`PathFacts`, trailing slashes and a path without names included; `FindIs` says that the
error of a walk that stops is the one the tree gives.

`InputRaceProofs`, for every capacity and number of events: the three safety
properties. They excuse a write in one of the four windows (`hit`), so the invariant
is `hit` or `Good`, and `Good` has to say what the reader may rely on at each
instruction outside them. Between its stores of `head` and of `len` the two disagree
by one: `Stored` is what is in the buffer from `head` on and `Ungiven` what the caller
has yet to get, and both are `len - 1` there. With them the write index is always
`Stored` places behind `head` (`Latest`), what the registers hold is still so
(`Fresh`), and what was given ends before what is left (`Given`). `Around` replaces
the modulus.

`SchedProofs`, for every set of tasks: the five invariants of the run and
`IdleIsForever`. The assumption is that the boot code, idle, the reaper, NULL and the
tasks are different things. A processor that any tick can interrupt leaves few shapes
of stack: the one it is on holds one function, or code with interrupts enabled and
a handler on it (`Executing`); `switch_to` has left every other in `sched_switch`
called by `task_yield`, in the handler after the tick, or at a task's end (`Resting`). `Flags` ties IF
and the vector in service to the place the processor is at, which is `TimerStaysAlive`.
`Placed` says that a task that has begun is on a queue unless it is the one being
moved, and on the reaper's exactly when it is over; `Current`, that `curr_task` is who
is running once `sched_init` is through, so `Tick` moves the right task. The queues
are disjoint and without repetition (`Queues`), so a removal takes away all of a task
(`RemoveFacts`).

`AddrSpaceProofs`, for every range, number of frames and size of request: all four
properties. For `Tiled` the invariant says that the areas follow one another from end
to end, none of them empty, and that no two free ones are neighbours; `Apart(s, J)`
leaves out the places J where that is not so yet, because a free breaks it on both
sides of its area and each half of the merge mends one (`PrevMerged`, `NextMerged`).
`Glue` and `SplitTiles` are about the list alone. `Backed` and `CountsNeighboursAgain`
add to it (`HeldInv`) that the pages with an entry are those of the blocks in use
(`Held`) and that the frames they have were handed out before `next_frame`, each once.
The free pages are then the pages not held (`FreeAre`), a request takes its own from
them (`GrantDrifts`), and a free adds the size of the merged area, of which only the
freed block's pages are new (`FreeDrifts`). The refinement of `HeapBlocks`
rests on `FitsFree`: where a request fits it fits into one free area, because the
neighbours of a free area are in use, and the first that is large enough is the lowest
place (`Lowest`).

`PagingProofs`, for every size of table, memory map, image, pool of frames, heap and
number of tasks that satisfies `PagingAssumption` (types; each frame once) and
`LayoutAssumption` (what the boot loader, the linker script and the hardware see to:
the direct map and the image are in the kernel's half, the image behind the heap's
range, no framebuffer over usable memory or the controllers' registers): the three safety invariants and the refinement of `AddressMap`. Its core is the shape of the tables. There is an
assignment of levels, 4 for the kernel's table and 0 for what is no table of its tree,
in which every entry above the last level is empty or leads one level down with all
rights, and no two lead to the same table (`Leveled`). So a walk is determined by four
entries (`WalkFacts`), an entry of a last-level table belongs to one page, and
`pt_map` changes what one page leads to, whichever of the tables it had to make
(`EntryFacts`, `PtMapFacts`), writing through no entry it has replaced. On top of it: a
task's table has no entry that is not the kernel's, and all that `kmain`'s maps need
(`Views`); a page outside the heap's mapped ones (`Mapped`) leads where some map of `kmain` put it,
or nowhere, and none of those maps is gone (`Contents`); areas are disjoint and the call under way
has one of them (`Areas`). `TablesReachable` follows since usable memory is mapped (`InDirectMap`) and the heap is
elsewhere; it says nothing of a table outside usable memory, and the frames of
`pmm_palloc` may be any;
`DirectMapped`, since what is wholly inside a stretch of memory survives both
roundings (`WhollyInside`); and `TlbCoherent` is inductive once the rest is known,
because a change can outdate only translations of its own page (`OutdatedFacts`). For
the refinement, `Translations`, which builds a tree's translations level by level, is
shown to be what `Walk` finds page by page (`BelowGraph`, `TranslationsAre`), and a
task's table, whose top-level entries are the kernel's or empty, to show the kernel's
translations in the entries it shares (`TableView`). Two facts of history are added to
the invariant: a task's table is empty below the kernel's half (`KernelOnly`), and what
the last request asked for is there (`Served`). `ChangeRefines` is then one step for
`pt_map` and `pt_unmap` alike.

`StartupProofs`, for every set of keys and packets that satisfies the assumptions of
`Ps2`, every length of the sleep and every bound: `Acknowledged`, `EventsFaithful` and
`ComesUp`, which is an invariant: in a quiet start nothing is wrong when the loop is
reached. That it is reached is `StartsUp`, which is model-checked only.
For the first the invariant says why no end of interrupt goes to the
wrong chip. The PIC is silent once its lines are masked again (`PicSilent`), the
I/O APIC passes nothing on before it is in charge (`IoapicSilent`), so between the
two only the LAPIC's timer is heard, and that is the one exception, `early tick`.
For the second (`BytesInv`) it says who can read a byte, and what is on its way. Who: a
handler runs only once its line is unmasked (`Masks`), so before that `kmain` reads
what `ps2_waitRead` saw (`Reading`); and a request kept for a line stands for a byte
that is there (`Latched`; `Edge` for one the LAPIC keeps), so no handler meets what
is not there. What: `Stream` is what a device has sent and nobody read,
the output buffer first, and `Ahead(s, all, c, o)` says that it is the rest of the
strokes typed, or packets, after `c - 1` whole ones and `o` bytes. The keyboard's
stream has no `02` before the keyboard is asked for its set and only whole strokes
after it (`SetAnswer`), so that the decoder, which works from the moment `02` is
known, starts at the beginning of a stroke; from there `KeyOrder` keeps decoder, stream
and events at one place in what is typed. The mouse's stream is whole packets with
at most one `ACK` among them (`Woven`), which `kmain` takes out (`MouseOrder`). One
case is different: the mouse drops the rest of a packet when it is told to
report, and `kmain` is left with the beginning in the buffer (`Doomed`). It can only take
that for the answer, which is a stray byte, and the property says nothing from
there on.

What `Ps2` assumes: a stroke is prefixes and one code the tables have, `E0` only at its
beginning (Pause, which begins with `E1`, is not typed); a packet has three bytes; and
bytes are named by their meaning, so that no byte of a key or movement has
the name `FA`, `02` or -1. A movement byte that is 0xFA is one named otherwise: where
`kmain` reads it in an answer's place, the model has a stray byte (and the
initialisation fails), where the code would go on as if it were told `ACK`.

`CursorProofs`, for every screen, pointer and mouse that satisfies
`CursorAssumption` (a row's bytes are a multiple of 4 and hold its pixels, a packet's
movements are bytes, and the pointer does not go further than `MaxAway`, so that
`size_t` has room for what a negative coordinate becomes): `Inside` and the refinement of
`Pointer`. `RectIs` and `ChunkIs` show that both ways of clipping, one by the
conversion to `size_t` and one by minima and maxima, give the same cells, `Shown`;
`CellsDiffer` that no two pixels share one. The invariant says which cells of which
buffer hold the pointer between two steps of the loop, and that what `vmalloc` left
in the back buffer is never shown.

Where a fact is about all lengths of a sequence the proofs take a least counterexample
(`LeastNat`, `ShortestSeq`, and the order and coverage of the areas in
`AddrSpaceProofs`), since the library's induction theorems, which have an operator as
parameter, cannot be used here: what the folds of the community modules compute
for every sequence is out of reach except through such facts (`FlattenFacts`, `MaxFacts`).

Only model-checked: all liveness (`Drains`, `RunsEventually`, `StartsUp`, `InputServed`:
fairness and ENABLED are beyond the prover).

## 6. What is not modelled

See `PROJECT.json` for every part with its reason. In short: port and register
I/O, constant tables, pixel output and formatting have no behaviour a state
model adds to (the serial port, the font, `key_to_string`, COM1's line, which is
never unmasked). The MADT walk trusts a record's length, and a record of length 0
would not end it (`acpi.c`); it waits for the algorithms of the plan, as do
`strcmp`, the boot stub's heap and the AVL tree. Functions nothing calls are left
out (`detect_ps2_device_type`, `ps2_kbd_read`, `irq_set_mask`, `vfs_mount`).
Within `Startup`, writes to the PS/2 controller are taken to be accepted, a
handler is one step, and what `kmain` does between the calls modelled there (page
tables, heap, file system) is in modules of its own and touches none of its state;
user-mode tasks wait for a model of `tss.rsp0` (it is 0, so the
first interrupt in user mode faults); preemption inside `vmalloc` and inside
`sched_schedule` is left to the race models of the plan; `reaper_task_entry`
and the loop over `reaper_wait_queue` are unreachable.
