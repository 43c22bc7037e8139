-------------------------------- MODULE Paging --------------------------------
(***************************************************************************)
(* Four-level page tables, kernel/src/arch/x86_64/mm/paging.c: kmain builds *)
(* the kernel's tables and loads them, apic_init adds the pages of its      *)
(* devices, the kernel heap (vmm.c) maps and unmaps pages while tasks with  *)
(* tables of their own come and go, and the processor keeps translations    *)
(* it has read.                                                             *)
(*                                                                          *)
(* Unit: the page; parts of one only in MemMap.  A table is the frame it    *)
(* lies in and is written through the direct map, the pages from Hhdm on.   *)
(* Frames come from pmm_palloc, each once, none back, and some of them lie  *)
(* past the end of a usable region (PhysMem).  A call of the heap is taken  *)
(* a page at a time; no two callers are inside it.                          *)
(***************************************************************************)
EXTENDS Integers, Sequences, FiniteSets, SequencesExt, FiniteSetsExt

CONSTANTS Fanout,      \* entries of a table
          Hhdm,        \* first page of the direct map
          Sub,         \* units of MemMap in a page
          MemMap,      \* the boot protocol's memory map, in its order
          VirtualBase, PhysicalBase, \* where the kernel's image is, virtually and physically
          Section,     \* its text, rodata and mut_data: first page and the one after the last
          Pool,        \* the frames pmm_palloc returns, in order
          Lapic, Ioapic, \* frames of the interrupt controllers' registers
          HeapPages,   \* pages of the kernel heap's range
          MaxArea, MaxUsers \* bounds: pages of an allocation, tables made for tasks

VARIABLES mem,    \* the entries in the frames of Pool, and in frame 0
          next,   \* how many frames of Pool are gone
          pt,     \* krnlctx(pt), 0 before it is created
          cr3,    \* the table the processor uses, 0: the bootloader's
          loop,   \* the next of the start's maps
          areas,  \* allocated areas of the heap
          call,   \* the call of the heap that is under way
          users,  \* tables made for tasks
          stale,  \* translations the processor may hold that its table does not
          request, \* history: what pt_map or pt_unmap was last asked for
          wild    \* nothing is known any more: a table was worked on in frame 0,
                  \* past a usable region or out of reach

vars == <<mem, next, pt, cr3, loop, areas, call, users, stale, request, wild>>

Index == 0 .. Fanout - 1
PoolFrames == Range(Pool)
None == [to |-> 0, flags |-> {}]
KernelHalf == Fanout \div 2 .. Fanout - 1
-----------------------------------------------------------------------------
(* Tables.                                                                 *)

Up(n) == n \div Fanout
Pt1(v) == v % Fanout
Pt2(v) == Up(v) % Fanout
Pt3(v) == Up(Up(v)) % Fanout
Pt4(v) == Up(Up(Up(v))) % Fanout

Present(e) == "P" \in e.flags

\* pmm_palloc(1): the k-th frame from now on, 0 when there is none.
Frame(n, k) == IF n + k > Len(Pool) THEN 0 ELSE Pool[n + k]

Zeroed == [i \in Index |-> None]

\* Mutated form of SetPageEntry: a new table whether the entry has one or not.
SetPageEntryNew(s, t, i) ==
  LET f == Frame(s.next, 1)
  IN  [mem |-> [s.mem EXCEPT ![t][i] = [to |-> f, flags |-> {"P", "W", "U"}], ![f] = Zeroed],
       next |-> s.next + 1]

\* set_page_entry: entry i of table t leads to a table, a new one if need be.
SetPageEntry(s, t, i) ==
  IF Present(s.mem[t][i]) THEN s
  ELSE LET f == Frame(s.next, 1)
       IN  [mem |-> [s.mem EXCEPT ![t][i] = [to |-> f, flags |-> {"P", "W", "U"}], ![f] = Zeroed],
            next |-> s.next + 1]

\* The table of the last level that v's walk from r leads to.
LastTable(m, r, v) == m[m[m[r][Pt4(v)].to][Pt3(v)].to][Pt2(v)].to

\* pt_map
PtMap(s, r, x) ==
  LET v == x.page
      s4 == SetPageEntry(s, r, Pt4(v))
      t3 == s4.mem[r][Pt4(v)].to
      s3 == SetPageEntry(s4, t3, Pt3(v))
      t2 == s3.mem[t3][Pt3(v)].to
      s2 == SetPageEntry(s3, t2, Pt2(v))
      t1 == s2.mem[t2][Pt2(v)].to
  IN  [s2 EXCEPT !.mem[t1][Pt1(v)] = x.to]

\* What the processor finds from table r on: writing and user mode have to be
\* allowed at every level.
Allowed(flags, e) == {f \in flags : f \in {"W", "U"} => f \in e.flags}

Walk(m, r, v) ==
  LET e4 == m[r][Pt4(v)]
      e3 == m[e4.to][Pt3(v)]
      e2 == m[e3.to][Pt2(v)]
      e1 == m[e2.to][Pt1(v)]
  IN  IF Present(e4) /\ Present(e3) /\ Present(e2) /\ Present(e1)
        THEN [to |-> e1.to, flags |-> Allowed(Allowed(Allowed(e1.flags, e2), e3), e4)]
        ELSE None

\* The tables that v's walk from r goes through: what pt_map and pt_unmap work on.
Way(m, r, v) ==
  LET t3 == m[r][Pt4(v)].to
      t2 == m[t3][Pt3(v)].to
  IN  {r, t3, t2, m[t2][Pt2(v)].to}

\* The pages r leads somewhere, and where: one level of entries after the other,
\* each with the number it gives the pages below it.
Below(m, s) == UNION {{[n |-> x.n * Fanout + i, e |-> [to |-> m[x.e.to][i].to,
                                                     flags |-> Allowed(m[x.e.to][i].flags, x.e)]]
                        : i \in {j \in Index : Present(m[x.e.to][j])}} : x \in s}

Translations(m, r) ==
  {[page |-> x.n, to |-> x.e] :
     x \in Below(m, Below(m, Below(m, Below(m,
            {[n |-> 0, e |-> [to |-> r, flags |-> {"P", "W", "U"}]]}))))}

\* Every table the kernel's entries lead to, and the tables of tasks.
Tables ==
  LET Leads(ts) == UNION {{e.to : e \in {x \in Range(mem[t]) : Present(x)}} : t \in ts}
  IN  IF pt = 0 THEN {}
      ELSE {pt} \cup Leads({pt}) \cup Leads(Leads({pt})) \cup Leads(Leads(Leads({pt})))
             \cup Range(users)
-----------------------------------------------------------------------------
(* What kmain maps.                                                        *)

MapAll(start, n, at, flags) ==
  [i \in 1 .. n |-> [page |-> start + i - 1, to |-> [to |-> at + i - 1, flags |-> flags]]]

\* map_kernel_sections_to_pt
SectionMaps(s, flags) ==
  MapAll(s.start, s.end - s.start, PhysicalBase + s.start - VirtualBase, flags)

KernelMaps == SectionMaps(Section.text, {"P"}) \o SectionMaps(Section.rodata, {"P"})
                \o SectionMaps(Section.mut_data, {"P", "W"})

DirectlyMapped == {"FRAMEBUFFER", "USABLE", "BOOTLOADER_RECLAIMABLE", "ACPI_NVS",
                   "EXECUTABLE_AND_MODULES", "ACPI_RECLAIMABLE", "RESERVED_MAPPED"}

\* Mutated form of Base: rounded down.
BaseDown(e) == e.base \div Sub

Base(e) == (e.base + Sub - 1) \div Sub
Length(e) == e.length \div Sub
\* The frames of a map entry, rounded as pt_map_memmap and pmm_init do, and all the
\* usable ones.
FramesOf(e) == Base(e) .. Base(e) + Length(e) - 1
UsableFrames == UNION {FramesOf(e) : e \in {x \in Range(MemMap) : x.type = "USABLE"}}

MemMapMaps(e) ==
  IF e.type \notin DirectlyMapped THEN <<>>
  ELSE MapAll(Hhdm + Base(e), Length(e), Base(e),
              IF e.type = "FRAMEBUFFER" THEN {"P", "W", "PAT", "WT"} ELSE {"P", "W"})

\* Mutated form of HhdmEnd: the length alone.
HhdmEndShort == Hhdm + Max({Length(e) : e \in {x \in Range(MemMap) : x.type \in DirectlyMapped}})

\* hhdm_end once pt_map_memmap has returned: where the heap starts.
HhdmEnd ==
  Hhdm + Max({Base(e) + Length(e) : e \in {x \in Range(MemMap) : x.type \in DirectlyMapped}})

ASSUME PagingAssumption ==
  /\ Fanout \in Nat \ {0, 1} /\ Hhdm \in Nat /\ Sub \in Nat \ {0}
  /\ MemMap \in Seq([base : Nat, length : Nat, type : STRING])
  /\ VirtualBase \in Nat /\ PhysicalBase \in Nat
  /\ Section \in [{"text", "rodata", "mut_data"} -> [start : Nat, end : Nat]]
  /\ Pool \in Seq(Nat \ {0}) /\ IsInjective(Pool)
  /\ Lapic \in Nat /\ Ioapic \in Nat
  /\ HeapPages \in Nat \ {0} /\ MaxArea \in Nat /\ MaxUsers \in Nat

\* Where the boot loader, the linker and the hardware put things: the direct map and
\* what follows it in the kernel's half; the image beyond the heap; no framebuffer over
\* usable memory, nor over the controllers' registers, nor the image over the latter.
\* Of the frames of pmm_palloc nothing is supposed.
Top == Fanout * Fanout * Fanout * Fanout

ASSUME LayoutAssumption ==
  /\ \E e \in Range(MemMap) : e.type \in DirectlyMapped
  /\ \A v \in Hhdm .. Top - 1 : Pt4(v) \in KernelHalf
  /\ HhdmEnd + HeapPages <= Top
  /\ \A s \in Range(Section) :
       /\ HhdmEnd + HeapPages <= s.start /\ s.start <= s.end /\ s.end <= Top
       /\ \A r \in {Lapic, Ioapic} : Hhdm + r < Top /\ Hhdm + r \notin s.start .. s.end - 1
  /\ \A e \in Range(MemMap) : e.type = "FRAMEBUFFER" =>
       (UsableFrames \cup {Lapic, Ioapic}) \cap FramesOf(e) = {}

BootMaps == KernelMaps \o FlattenSeq([i \in DOMAIN MemMap |-> MemMapMaps(MemMap[i])])

\* apic_init
DeviceMaps == MapAll(Hhdm + Lapic, 1, Lapic, {"P", "W"}) \o MapAll(Hhdm + Ioapic, 1, Ioapic, {"P", "W"})

StartMaps == BootMaps \o DeviceMaps
Started == loop > Len(StartMaps)
Heap == HhdmEnd .. HhdmEnd + HeapPages - 1
PagesOf(a) == a.addr .. a.addr + a.num_pages - 1
NoCall == [op |-> "none", addr |-> 0, num_pages |-> 0, i |-> 0]
-----------------------------------------------------------------------------
Init ==
  \* A frame nobody has cleared: every entry of it is taken to be present.
  /\ mem = [f \in PoolFrames \cup {0} |-> [i \in Index |-> [to |-> 0, flags |-> {"P", "W", "U"}]]]
  /\ next = 0 /\ pt = 0 /\ cr3 = 0 /\ loop = 1
  /\ areas = {} /\ call = NoCall /\ users = <<>>
  /\ stale = {} /\ wild = FALSE
  /\ request = [page |-> 0, to |-> None]

\* The translation of v that the processor may have read before the entry changes
\* joins those it may still hold; none is dropped by a change alone.
Outdated(v) ==
  IF cr3 = 0 THEN stale
  ELSE {y \in stale \cup {[page |-> v, to |-> Walk(mem, cr3, v)]} :
          y.to \notin {None, Walk(mem', cr3, y.page)}}

\* The table in use leads to the table in frame f, where the kernel works on it.  The
\* bootloader's own tables, 0, are taken to.
InReach(f) ==
  LET x == Walk(mem, cr3, Hhdm + f)
  IN  cr3 = 0 \/ (x.to = f /\ {"P", "W"} \subseteq x.flags)

\* A step that works on the tables ts.  Out of memory, or out of reach of one, nothing
\* is known from there; and in a frame past a usable region may be no memory, or
\* another's.
WorksOn(ts, out) ==
  /\ wild' \in BOOLEAN
  /\ out \/ (\E f \in ts : ~InReach(f)) => wild'
  /\ wild' => out \/ (\E f \in ts : ~InReach(f) \/ f \notin UsableFrames)

\* A step that calls pt_map after it took k - 1 frames; the tables' frames are
\* not looked at for 0.
Maps(x, taken) ==
  LET s == PtMap([mem |-> mem, next |-> next + taken], pt, x)
  IN  /\ next' = Min({s.next, Len(Pool)})
      /\ WorksOn(Way(s.mem, pt, x.page), s.next > Len(Pool) /\ s.next > next + taken)
      /\ mem' = IF wild' THEN mem ELSE s.mem
      /\ request' = IF wild' THEN request ELSE x
      /\ stale' = Outdated(x.page)

\* kmain's pt_create
CreateKernelTable ==
  /\ ~wild /\ pt = 0
  /\ pt' = Frame(next, 1)
  /\ next' = next + 1
  /\ mem' = [mem EXCEPT ![pt'] = Zeroed]
  /\ WorksOn({pt'}, pt' = 0)
  /\ UNCHANGED <<cr3, loop, areas, call, users, stale, request>>

\* pt_map_kernel, pt_map_memmap; after the swap, apic_init's pages.
StartMap ==
  /\ ~wild /\ pt # 0 /\ ~Started
  /\ loop > Len(BootMaps) => cr3 # 0
  /\ Maps(StartMaps[loop], 0)
  /\ loop' = loop + 1
  /\ UNCHANGED <<pt, cr3, areas, call, users>>

\* kmain's pt_swap
SwapIn ==
  /\ ~wild /\ cr3 = 0 /\ loop = Len(BootMaps) + 1
  /\ cr3' = pt /\ stale' = {}
  /\ UNCHANGED <<mem, next, pt, loop, areas, call, users, request, wild>>

\* apic_init returns at once on a machine without an APIC, or with it disabled.
NoApic ==
  /\ ~wild /\ cr3 # 0 /\ loop = Len(BootMaps) + 1
  /\ loop' = Len(StartMaps) + 1
  /\ UNCHANGED <<mem, next, pt, cr3, areas, call, users, stale, request, wild>>
-----------------------------------------------------------------------------
(* The heap.                                                               *)

\* vmm_palloc takes a free area (which one: AddrSpace) ...
Palloc(a, n) ==
  /\ ~wild /\ Started /\ call = NoCall
  /\ a .. a + n - 1 \subseteq Heap \ UNION {PagesOf(b) : b \in areas}
  /\ areas' = areas \cup {[addr |-> a, num_pages |-> n]}
  /\ call' = [op |-> "map", addr |-> a, num_pages |-> n, i |-> 0]
  /\ UNCHANGED <<mem, next, pt, cr3, loop, users, stale, request, wild>>

\* ... and vmm_map_area maps its pages, each to a frame taken before its tables'.
MapPage ==
  /\ ~wild /\ call.op = "map"
  /\ Maps([page |-> call.addr + call.i, to |-> [to |-> Frame(next, 1), flags |-> {"P", "W"}]], 1)
  /\ call' = IF call.i + 1 = call.num_pages THEN NoCall ELSE [call EXCEPT !.i = @ + 1]
  /\ UNCHANGED <<pt, cr3, loop, areas, users>>

\* vmm_free finds the area ...
Free(a) ==
  /\ ~wild /\ call = NoCall /\ a \in areas
  /\ call' = [op |-> "unmap", addr |-> a.addr, num_pages |-> a.num_pages, i |-> 0]
  /\ UNCHANGED <<mem, next, pt, cr3, loop, areas, users, stale, request, wild>>

PtUnmap(m, r, v) == [m EXCEPT ![LastTable(m, r, v)][Pt1(v)] = None]

\* ... pt_unmap clears the entry, and invalidates the page of the table that is
\* its argument; pmm_free gives nothing back (PhysMem) ...
UnmapPage ==
  /\ ~wild /\ call.op = "unmap"
  /\ LET v == call.addr + call.i
     IN  /\ WorksOn(Way(mem, pt, v), FALSE)
         /\ \/ wild' /\ UNCHANGED <<mem, request, stale, call>>
            \/ /\ ~wild'
               /\ mem' = PtUnmap(mem, pt, v)
               /\ request' = [page |-> v, to |-> None]
               /\ stale' = {x \in Outdated(v) : x.page # Hhdm + pt}
               /\ call' = [call EXCEPT !.op = "invplg"]
  /\ UNCHANGED <<next, pt, cr3, loop, areas, users>>

\* Mutated form of Invalidated: the area's first page each time.
InvalidatedFirst == call.addr

\* What vmm_unmap_area invalidates.
Invalidated == call.addr + call.i

\* ... and vmm_unmap_area invalidates the page.
Invalidate ==
  /\ ~wild /\ call.op = "invplg"
  /\ stale' = {x \in stale : x.page # Invalidated}
  /\ IF call.i + 1 = call.num_pages
       THEN /\ call' = NoCall
            /\ areas' = areas \ {[addr |-> call.addr, num_pages |-> call.num_pages]}
       ELSE call' = [call EXCEPT !.op = "unmap", !.i = @ + 1] /\ UNCHANGED areas
  /\ UNCHANGED <<mem, next, pt, cr3, loop, users, request, wild>>
-----------------------------------------------------------------------------
(* Tasks with tables of their own.                                         *)

\* pt_join_kernel
Joined(i) == IF i \in KernelHalf THEN mem[pt][i] ELSE None

\* user_task_create's pt_create and pt_join_kernel.
CreateUserTable ==
  /\ ~wild /\ Started /\ Len(users) < MaxUsers
  /\ next' = next + 1
  /\ LET f == Frame(next, 1)
     IN  /\ WorksOn({f, pt}, f = 0)
         /\ \/ wild' /\ UNCHANGED <<mem, users>>
            \/ /\ ~wild'
               /\ mem' = [mem EXCEPT ![f] = [i \in Index |-> Joined(i)]]
               /\ users' = Append(users, f)
  /\ UNCHANGED <<pt, cr3, loop, areas, call, stale, request>>

\* task_switch to a task with tables of its own, also in the middle of a heap call.
\* Kernel tasks have none: the tables of the task before them stay loaded.
SwitchTo(u) ==
  /\ ~wild /\ u \in Range(users)
  /\ cr3' = u /\ stale' = {}
  /\ UNCHANGED <<mem, next, pt, loop, areas, call, users, request, wild>>

Next ==
  \/ CreateKernelTable \/ StartMap \/ SwapIn \/ NoApic
  \/ \E n \in 1 .. MaxArea : \E a \in HhdmEnd .. HhdmEnd + HeapPages - n : Palloc(a, n)
  \/ MapPage
  \/ \E a \in areas : Free(a)
  \/ UnmapPage \/ Invalidate
  \/ CreateUserTable
  \/ \E u \in Range(users) : SwitchTo(u)

Spec == Init /\ [][Next]_vars
-----------------------------------------------------------------------------
(* Properties.                                                             *)

\* Once kmain has loaded its tables it can still reach every one of them that lies in
\* usable memory through the table in use, at the frame's own place in the direct map:
\* pt_map works on them there, and so do tasks with tables of their own, whatever the
\* heap has mapped and unmapped since.  Only a table that pmm_palloc put past the end of
\* a usable region may be out of reach.
TablesReachable ==
  cr3 # 0 /\ ~wild =>
    \A f \in Tables \cap UsableFrames :
      Walk(mem, cr3, Hhdm + f) = [to |-> f, flags |-> {"P", "W"}]

\* Every page that lies wholly inside memory of a type the kernel uses is in the
\* direct map from the swap on, although base and length are rounded apart.
DirectMapped ==
  cr3 # 0 =>
    \A e \in Range(MemMap) : e.type \in DirectlyMapped =>
      \A f \in 0 .. (e.base + e.length) \div Sub :
        f * Sub >= e.base /\ (f + 1) * Sub <= e.base + e.length =>
          Present(Walk(mem, cr3, Hhdm + f)) /\ Walk(mem, cr3, Hhdm + f).to = f

\* The processor holds no translation its tables have lost, but for the page
\* between pt_unmap and the invalidation that follows, and but for the controllers'
\* pages when the heap's range reaches them: pt_map replaces their entries and
\* invalidates nothing.
ControllerPages == {Hhdm + Lapic, Hhdm + Ioapic}

TlbCoherent ==
  \A x \in stale :
    \/ call.op = "invplg" /\ x.page = call.addr + call.i
    \/ x.page \in ControllerPages \cap Heap /\ x.to.to = x.page - Hhdm

\* The tables show what was asked for, page by page, and the tables of a task show
\* the kernel's half as it was, and stays, in the top level entries that were
\* there when it was created: a heap that grows into a new one is not seen there.
AllSpaces == [u \in DOMAIN users |->
                [shares |-> {i \in KernelHalf : Present(mem[users[u]][i])},
                 sees |-> Translations(mem, users[u])]]

Abstract ==
  INSTANCE AddressMap WITH
    Region <- LAMBDA v : Pt4(v), Shared <- KernelHalf, Nothing <- None, request <- request,
    map <- IF pt = 0 THEN {} ELSE Translations(mem, pt),
    used <- IF pt = 0 THEN {} ELSE {i \in Index : Present(mem[pt][i])},
    view <- AllSpaces
ImplementsMap == Abstract!Spec
=============================================================================
