---------------------------- MODULE PhysMemProofs ----------------------------
(***************************************************************************)
(* Proofs about PhysMem, for every memory map, direct map and request size *)
(* that MemMapAssumption admits.                                           *)
(***************************************************************************)
EXTENDS PhysMem, TLAPS, FiniteSetTheorems

\* The inductive invariant.  Bump is not inductive alone: it needs to know that
\* an area about to be listed starts empty, and that what was granted in an area
\* is what lies below its hint.
Inv ==
  /\ TypeOK
  /\ \A a \in Listed : memmap[a].usable /\ memmap[a].pages > 1
  /\ \A a \in Region : a >= loop => free_idx_hint[a] = 0 /\ bitmap[a] = {}
  /\ ~Booted => granted = {}
  /\ Bump
  /\ granted = UNION {FramesAt(a, 0, free_idx_hint[a]) : a \in Listed}
  /\ IsFiniteSet(Published)
  /\ FreeCountExact

-----------------------------------------------------------------------------
(* The layout of areas.                                                    *)

\* pmm_init's two formulas: the frames counted free and those of the header
\* exceed the region by one frame at most, and not at all in common sizes.
LEMMA Layout ==
  ASSUME NEW n \in Nat, 2 <= n, n <= PageLimit
  PROVE  /\ NumFree(n) \in Nat
         /\ NumFree(n) <= n
         /\ HeaderPages(n) \in Nat \ {0}
         /\ NumFree(n) + HeaderPages(n) <= n + 1
         /\ 3 <= n /\ n <= 32448 => NumFree(n) + HeaderPages(n) <= n
<1> DEFINE q == (8 * (n * 4096 - 4095) - 7) \div (4096 * 8 + 1)
           r == (n + 7) \div 8
           h == (40 + r + 4095) \div 4096
<1>0. n \in Nat /\ 2 <= n /\ n <= 1000000000
  BY SMT DEF PageLimit
<1>1. q \in Int /\ 32769 * q <= 32768 * n - 32767 /\ 32768 * n - 32767 < 32769 * (q + 1)
  BY <1>0, SMT
<1>2. r \in Int /\ 8 * r <= n + 7 /\ n + 7 < 8 * (r + 1)
  BY <1>0, SMT
<1> HIDE DEF r
<1>3. h \in Int /\ 4096 * h <= 4135 + r /\ 4135 + r < 4096 * (h + 1)
  BY <1>2, SMT
<1> HIDE DEF q, h
<1>4. q + 1 \in Nat /\ q + 1 <= n /\ h >= 1 /\ q + 1 + h <= n + 1
  BY <1>0, <1>1, <1>2, <1>3, SMT
<1>5. n <= 32448 /\ n >= 3 => q + 1 + h <= n
  BY <1>0, <1>1, <1>2, <1>3, SMT
<1>6. NumFree(n) = q + 1 /\ HeaderPages(n) = h
  BY SMT DEF NumFree, HeaderPages, q, r, h
<1> QED BY <1>0, <1>3, <1>4, <1>5, <1>6, SMT

\* The types of a memory map entry, and the assumption about each.
LEMMA EntryFacts ==
  ASSUME TypeOK, NEW a \in Region
  PROVE  /\ a \in 1 .. Len(memmap) /\ a \in Nat
         /\ memmap[a].base \in Nat
         /\ memmap[a].pages \in Nat
         /\ memmap[a].usable \in BOOLEAN
         /\ memmap[a].pages <= PageLimit
         /\ memmap[a].base + memmap[a].pages < W
         /\ W \in Nat
<1>1. memmap \in Seq(Entry) /\ memmap \in MemMaps
  BY MemMapAssumption DEF TypeOK
<1>2. Region = 1 .. Len(memmap) /\ memmap[a] \in Entry /\ Len(memmap) \in Nat
  BY <1>1 DEF Region
<1> QED BY <1>1, <1>2, MemMapAssumption DEF Entry

\* A region of two frames or more has room for an area, and the area's frames end
\* at most one frame past the region.
LEMMA RegionFacts ==
  ASSUME TypeOK, NEW a \in Region, memmap[a].pages > 1
  PROVE  /\ Size(a) \in Nat /\ Size(a) <= memmap[a].pages
         /\ Addr(a) \in Nat /\ memmap[a].base + 1 <= Addr(a)
         /\ Addr(a) + Size(a) <= memmap[a].base + memmap[a].pages + 1
         /\ 3 <= memmap[a].pages /\ memmap[a].pages <= 32448
              => Addr(a) + Size(a) <= memmap[a].base + memmap[a].pages
<1>5. /\ memmap[a].pages \in Nat /\ 2 <= memmap[a].pages /\ memmap[a].pages <= PageLimit
      /\ memmap[a].base \in Nat
  BY EntryFacts
<1> DEFINE n == memmap[a].pages
<1>6. /\ NumFree(n) \in Nat /\ NumFree(n) <= n
      /\ HeaderPages(n) \in Nat \ {0}
      /\ NumFree(n) + HeaderPages(n) <= n + 1
      /\ 3 <= n /\ n <= 32448 => NumFree(n) + HeaderPages(n) <= n
  BY <1>5, Layout
<1>7. Size(a) = NumFree(n) /\ Addr(a) = memmap[a].base + HeaderPages(n)
  BY DEF Size, Addr
<1> DEFINE b == memmap[a].base
           s == NumFree(n)
           h == HeaderPages(n)
<1>b. b \in Nat /\ s \in Nat /\ s <= n /\ h \in Nat /\ 1 <= h /\ n \in Nat /\ s + h <= n + 1
  BY <1>5, <1>6
<1>c. 3 <= n /\ n <= 32448 => s + h <= n
  BY <1>6
<1> HIDE DEF n, b, s, h
<1>8. /\ Size(a) \in Nat /\ Size(a) <= n
      /\ Addr(a) \in Nat /\ memmap[a].base + 1 <= Addr(a)
      /\ Addr(a) + Size(a) <= memmap[a].base + n + 1
      /\ 3 <= n /\ n <= 32448 => Addr(a) + Size(a) <= memmap[a].base + n
  <2>1. Size(a) = s /\ Addr(a) = b + h /\ memmap[a].base = b
    BY <1>7 DEF n, b, s, h
  <2> QED BY <2>1, <1>b, <1>c, SMT
<1> QED BY <1>8 DEF n

\* The same for a listed area.
LEMMA AreaFacts ==
  ASSUME Inv, NEW a \in Listed
  PROVE  /\ a \in Region /\ a \in Nat /\ a < loop
         /\ memmap[a].pages \in Nat /\ 2 <= memmap[a].pages
         /\ memmap[a].base \in Nat
         /\ Size(a) \in Nat /\ Size(a) <= memmap[a].pages
         /\ Addr(a) \in Nat /\ memmap[a].base + 1 <= Addr(a)
         /\ Addr(a) + Size(a) <= memmap[a].base + memmap[a].pages + 1
         /\ 3 <= memmap[a].pages /\ memmap[a].pages <= 32448
              => Addr(a) + Size(a) <= memmap[a].base + memmap[a].pages
         /\ memmap[a].base + memmap[a].pages < W
         /\ W \in Nat
<1>1. PICK k \in 1 .. Len(area_list) : a = area_list[k]
  BY DEF Listed
<1>2. a \in 1 .. loop - 1 /\ loop \in 1 .. Len(memmap) + 1
  BY <1>1 DEF Inv, TypeOK
<1>3. memmap \in Seq(Entry) /\ memmap[a].pages > 1
  BY MemMapAssumption DEF Inv, TypeOK
<1>4. a \in Region /\ a \in Nat /\ a < loop
  BY <1>2, <1>3 DEF Region
<1>5. /\ memmap[a].pages \in Nat /\ 2 <= memmap[a].pages
      /\ memmap[a].base \in Nat
      /\ memmap[a].base + memmap[a].pages < W
      /\ W \in Nat
  BY <1>3, <1>4, EntryFacts DEF Inv
<1> QED BY <1>3, <1>4, <1>5, RegionFacts DEF Inv

\* The areas of two regions share no frame, overshoot included.
LEMMA AreasDisjoint ==
  ASSUME TypeOK, NEW a \in Region, NEW b \in Region, a # b,
         memmap[a].pages > 1, memmap[b].pages > 1
  PROVE  Addr(a) + Size(a) <= Addr(b) \/ Addr(b) + Size(b) <= Addr(a)
<1>1. memmap \in MemMaps /\ memmap \in Seq(Entry)
  BY MemMapAssumption DEF TypeOK
<1>2. a \in 1 .. Len(memmap) /\ b \in 1 .. Len(memmap) /\ (a < b \/ b < a)
  BY <1>1 DEF Region
<1>3. \/ memmap[a].base + memmap[a].pages <= memmap[b].base
      \/ memmap[b].base + memmap[b].pages <= memmap[a].base
  BY <1>1, <1>2, MemMapAssumption
<1>4. /\ memmap[a].base \in Nat /\ memmap[a].pages \in Nat
      /\ memmap[b].base \in Nat /\ memmap[b].pages \in Nat
  BY EntryFacts
<1> QED BY <1>3, <1>4, RegionFacts

-----------------------------------------------------------------------------
(* What the operations compute in a reachable state.                       *)

\* The search starts at the hint and finds the run right there, or the area is
\* short of pages: FindFrom never skips over a marked bit.
LEMMA FindAtHint ==
  ASSUME Inv, NEW a \in Listed, NEW n \in Nat \ {0}
  PROVE  /\ Serves(a, n) <=> num_pages[a] >= n
         /\ num_pages[a] >= n => FindFrom(a, n) = free_idx_hint[a]
<1> DEFINE h == free_idx_hint[a]
           starts == {i \in h .. Size(a) - n : i .. (i + n - 1) \cap bitmap[a] = {}}
<1>1. a \in Region /\ Size(a) \in Nat
  BY AreaFacts
<1>2. h \in Nat /\ num_pages[a] \in Nat /\ bitmap[a] \subseteq Nat
  BY <1>1 DEF Inv, TypeOK
<1>3. h + num_pages[a] = Size(a) /\ \A i \in bitmap[a] : i < h
  BY DEF Inv, Bump
<1>4. ASSUME num_pages[a] >= n
      PROVE  FindFrom(a, n) = h
  <2>1. h \in starts /\ \A i \in starts : h <= i
    BY <1>1, <1>2, <1>3, <1>4
  <2>2. Min(starts) = h
    BY <2>1, <1>1, <1>2 DEF Min
  <2> QED BY <2>1, <2>2 DEF FindFrom
<1> QED BY <1>2, <1>4 DEF Serves, NotFound

\* A frame that was granted lies in the span of a listed area.
LEMMA GrantedFacts ==
  ASSUME Inv, NEW f \in granted
  PROVE  f \in Nat /\ f < W /\ \E a \in Listed : Addr(a) <= f /\ f < Addr(a) + Size(a)
<1>1. PICK a \in Listed : f \in FramesAt(a, 0, free_idx_hint[a])
  BY DEF Inv
<1>a. a \in Region
  BY AreaFacts
<1>2. a \in Region /\ free_idx_hint[a] \in Nat /\ num_pages[a] \in Nat
  BY <1>a DEF Inv, TypeOK
<1>3. free_idx_hint[a] <= Size(a)
  BY <1>2, AreaFacts DEF Inv, Bump
<1> QED BY <1>1, <1>2, <1>3, AreaFacts DEF FramesAt

\* Neither address the kernel gives to pmm_pfree falls in the range that
\* to_paddr computes for an area.
LEMMA NoOwner ==
  ASSUME Inv, NEW f \in granted, NEW a \in Listed
  PROVE  ~Claims(a, f) /\ ~Claims(a, ToPaddr(f, SizeofVmmArea))
<1>1. f \in Nat /\ f < W
  BY GrantedFacts
<1>2. /\ memmap[a].base \in Nat /\ Size(a) \in Nat /\ W \in Nat
      /\ memmap[a].base + Size(a) < W
  BY AreaFacts
<1> QED BY <1>1, <1>2 DEF Claims, ToPaddr, SizeofArea, SizeofVmmArea

\* So pmm_pfree never does anything.
LEMMA PfreeIsNoOp ==
  ASSUME Inv, FreeFrame \/ FreeNode
  PROVE  UNCHANGED vars
<1>1. \A k \in 1 .. Len(area_list) : area_list[k] \in Listed
  BY DEF Listed
<1>2. CASE FreeFrame
  BY <1>1, <1>2, NoOwner DEF FreeFrame, Pfree
<1>3. CASE FreeNode
  BY <1>1, <1>3, NoOwner DEF FreeNode, Pfree
<1> QED BY <1>2, <1>3

-----------------------------------------------------------------------------
(* The invariant is inductive.                                             *)

\* Nothing is listed and nothing granted before pmm_init runs.
LEMMA InitInv == Init => Inv
<1> SUFFICES ASSUME Init PROVE Inv
  OBVIOUS
<1>1. memmap \in Seq(Entry) /\ Len(memmap) \in Nat
  BY MemMapAssumption DEF Init
<1>2. Listed = {} /\ Published = {}
  BY DEF Init, Listed, Published
<1>3. TypeOK
  BY <1>1 DEF Init, TypeOK
<1>4. IsFiniteSet(Published) /\ FreeCountExact
  BY <1>2, FS_EmptySet DEF Init, FreeCountExact
<1> QED BY <1>2, <1>3, <1>4 DEF Init, Inv, Bump

\* The number of frames behind n bits.
LEMMA FramesCount ==
  ASSUME NEW a, Addr(a) \in Nat, NEW i \in Nat, NEW n \in Nat
  PROVE  IsFiniteSet(FramesAt(a, i, n)) /\ Cardinality(FramesAt(a, i, n)) = n
<1> DEFINE first == Addr(a) + i
           last == first + n - 1
<1>1. first \in Int /\ last \in Int /\ (IF first > last THEN 0 ELSE last - first + 1) = n
  OBVIOUS
<1> HIDE DEF last, first
<1>2. IsFiniteSet(first .. last) /\ Cardinality(first .. last) = n
  BY <1>1, FS_Interval
<1>3. FramesAt(a, i, n) = first .. last
  BY DEF FramesAt, first, last
<1> QED BY <1>2, <1>3

\* A frame granted to one area's hint cannot be in another's run.
LEMMA RunIsFresh ==
  ASSUME Inv, NEW a \in Listed, NEW n \in Nat \ {0}, num_pages[a] >= n
  PROVE  /\ FramesAt(a, free_idx_hint[a], n) \subseteq Published \ granted
         /\ IsFiniteSet(FramesAt(a, free_idx_hint[a], n))
         /\ Cardinality(FramesAt(a, free_idx_hint[a], n)) = n
<1> DEFINE h == free_idx_hint[a]
           run == FramesAt(a, h, n)
<1>1. a \in Region /\ Size(a) \in Nat /\ Addr(a) \in Nat
  BY AreaFacts
<1>2. h \in Nat /\ num_pages[a] \in Nat /\ h + num_pages[a] = Size(a)
  BY <1>1 DEF Inv, TypeOK, Bump
<1>3. run = Addr(a) + h .. Addr(a) + h + n - 1
  BY DEF FramesAt
<1>4. run \subseteq FramesAt(a, 0, Size(a))
  BY <1>1, <1>2, <1>3 DEF FramesAt
<1>5. run \subseteq Published
  BY <1>4 DEF Published
<1>6. ASSUME NEW f \in run, f \in granted
      PROVE  FALSE
  <2>1. PICK b \in Listed : f \in FramesAt(b, 0, free_idx_hint[b])
    BY <1>6 DEF Inv
  <2>2. b \in Region /\ Size(b) \in Nat /\ Addr(b) \in Nat
    BY AreaFacts
  <2>3. free_idx_hint[b] \in Nat /\ free_idx_hint[b] <= Size(b)
    BY <2>2 DEF Inv, TypeOK, Bump
  <2>4. Addr(b) <= f /\ f < Addr(b) + free_idx_hint[b] /\ f \in Int
    BY <2>1, <2>2, <2>3 DEF FramesAt
  <2>5. Addr(a) + h <= f /\ f < Addr(a) + Size(a)
    BY <1>1, <1>2, <1>3, <1>6, <2>4
  <2>6. a # b
    BY <2>4, <2>5, <1>1, <1>2
  <2>7. Addr(a) + Size(a) <= Addr(b) \/ Addr(b) + Size(b) <= Addr(a)
    BY <2>2, <2>6, <1>1, AreasDisjoint DEF Inv
  <2> QED BY <1>1, <1>2, <2>2, <2>3, <2>4, <2>5, <2>7
<1>7. IsFiniteSet(run) /\ Cardinality(run) = n
  BY <1>1, <1>2, FramesCount
<1> QED BY <1>5, <1>6, <1>7

\* In a reachable state pmm_palloc takes the pages right at an area's hint.
LEMMA PallocAtHint ==
  ASSUME Inv, NEW n \in Nat, Palloc(n)
  PROVE  \E a \in Listed : n # 0 /\ num_pages[a] >= n /\ TakeFrom(a, free_idx_hint[a], n)
<1>1. n \in Nat \ {0}
  BY DEF Palloc
<1>2. PICK k \in 1 .. Len(area_list) :
        Serves(area_list[k], n) /\ TakeFrom(area_list[k], FindFrom(area_list[k], n), n)
  BY DEF Palloc
<1>3. area_list[k] \in Listed
  BY DEF Listed
<1> QED BY <1>1, <1>2, <1>3, FindAtHint

\* Definitions over memmap alone do not change with it.
LEMMA SameMap ==
  ASSUME memmap' = memmap
  PROVE  /\ Region' = Region
         /\ \A a : Size(a)' = Size(a) /\ Addr(a)' = Addr(a)
         /\ \A a, i, n : FramesAt(a, i, n)' = FramesAt(a, i, n)
BY DEF Region, Size, Addr, FramesAt

\* Adding an area preserves the invariant.
LEMMA AddAreaInv == Inv /\ AddArea => Inv'
<1> SUFFICES ASSUME Inv, AddArea PROVE Inv'
  OBVIOUS
<1>0. PICK a : a = loop
  OBVIOUS
<1>a. /\ memmap \in Seq(Entry) /\ Len(memmap) \in Nat
      /\ a \in 1 .. Len(memmap) + 1
  BY <1>0, MemMapAssumption DEF Inv, TypeOK
<1>b. a <= Len(memmap) /\ granted = {}
  <2>1. ~Booted
    BY DEF AddArea
  <2>2. a <= Len(memmap)
    BY <1>0, <1>a, <2>1 DEF Booted
  <2> QED BY <2>1, <2>2 DEF Inv
<1>1. /\ memmap' = memmap /\ loop' = a + 1 /\ free_idx_hint' = free_idx_hint
      /\ bitmap' = bitmap /\ granted' = granted /\ granted = {}
      /\ area_list' = <<a>> \o area_list
      /\ num_pages' = [num_pages EXCEPT ![a] = Size(a)]
      /\ pmm_free_num_pages' = pmm_free_num_pages + Size(a)
      /\ memmap[a].usable /\ memmap[a].pages > 1 /\ a <= Len(memmap)
  BY <1>0, <1>b DEF AddArea
<1>2. a \in Region /\ a \in Nat \ {0}
  BY <1>a, <1>b DEF Region
<1>3. Size(a) \in Nat /\ Addr(a) \in Nat
  BY <1>1, <1>2, RegionFacts DEF Inv
<1>4. Listed' = Listed \cup {a} /\ a \notin Listed
  <2>1. area_list \in Seq(1 .. a - 1)
    BY <1>0 DEF Inv, TypeOK
  <2>2. \A b \in Listed : b < a /\ b \in Nat
    BY <1>0, AreaFacts
  <2>3. /\ Len(area_list') = Len(area_list) + 1
        /\ area_list'[1] = a
        /\ \A k \in 1 .. Len(area_list) : area_list'[k + 1] = area_list[k]
        /\ \A k \in 2 .. Len(area_list) + 1 : area_list'[k] = area_list[k - 1]
    BY <1>1, <2>1
  <2>4. \A k \in 1 .. Len(area_list') : area_list'[k] \in Listed \cup {a}
    BY <2>1, <2>3 DEF Listed
  <2>5. Listed \cup {a} \subseteq Listed'
    BY <2>1, <2>3 DEF Listed
  <2>6. Listed' \subseteq Listed \cup {a}
    BY <2>4 DEF Listed
  <2> QED BY <1>2, <2>2, <2>5, <2>6
<1>5. TypeOK'
  <2>1. area_list' \in Seq(1 .. loop' - 1)
    BY <1>0, <1>1, <1>2 DEF Inv, TypeOK
  <2>2. loop' \in 1 .. Len(memmap) + 1
    BY <1>a, <1>b, <1>1
  <2>3. num_pages' \in [Region -> Nat]
    BY <1>1, <1>2, <1>3 DEF Inv, TypeOK
  <2>4. pmm_free_num_pages' \in Nat
    BY <1>1, <1>3 DEF Inv, TypeOK
  <2> QED BY <1>1, <2>1, <2>2, <2>3, <2>4, SameMap DEF Inv, TypeOK
<1>6. Bump'
  <2> SUFFICES ASSUME NEW b \in Listed'
               PROVE  /\ free_idx_hint'[b] + num_pages'[b] = Size(b)
                      /\ \A i \in bitmap'[b] : i < free_idx_hint'[b]
    BY <1>1 DEF Bump, Size
  <2>1. CASE b = a
    <3>1. num_pages'[a] = Size(a)
      BY <1>1, <1>2 DEF Inv, TypeOK
    <3>2. free_idx_hint[a] = 0 /\ bitmap[a] = {}
      BY <1>0, <1>2 DEF Inv
    <3> QED BY <1>1, <1>3, <2>1, <3>1, <3>2
  <2>2. CASE b \in Listed /\ b # a
    <3>1. b \in Region
      BY <2>2, AreaFacts
    <3>2. num_pages'[b] = num_pages[b]
      BY <1>1, <2>2, <3>1 DEF Inv, TypeOK
    <3> QED BY <1>1, <2>2, <3>2 DEF Inv, Bump
  <2> QED BY <1>4, <2>1, <2>2
<1>7. granted' = UNION {FramesAt(b, 0, free_idx_hint[b])' : b \in Listed'}
  <2>1. free_idx_hint[a] = 0
    BY <1>0, <1>2 DEF Inv
  <2>2. FramesAt(a, 0, free_idx_hint[a]) = {}
    BY <1>3, <2>1 DEF FramesAt
  <2>3. granted = UNION {FramesAt(b, 0, free_idx_hint[b]) : b \in Listed}
    BY DEF Inv
  <2>4. granted' = UNION {FramesAt(b, 0, free_idx_hint[b]) : b \in Listed'}
    BY <1>1, <1>4, <2>2, <2>3
  <2> QED BY <1>1, <2>4 DEF FramesAt, Addr
<1>8. IsFiniteSet(Published') /\ FreeCountExact'
  <2> DEFINE new == FramesAt(a, 0, Size(a))
  <2>1. Published' = Published \cup new
    BY <1>1, <1>4, SameMap DEF Published
  <2>2. Published \cap new = {}
    <3> SUFFICES ASSUME NEW f \in Published, f \in new PROVE FALSE
      OBVIOUS
    <3>1. PICK b \in Listed : f \in FramesAt(b, 0, Size(b))
      BY DEF Published
    <3>2. b \in Region /\ b # a /\ memmap[b].pages > 1 /\ Size(b) \in Nat /\ Addr(b) \in Nat
      BY <1>4, AreaFacts DEF Inv
    <3>3. Addr(a) + Size(a) <= Addr(b) \/ Addr(b) + Size(b) <= Addr(a)
      BY <1>1, <1>2, <3>2, AreasDisjoint DEF Inv
    <3> QED BY <1>3, <3>1, <3>2, <3>3 DEF FramesAt
  <2>3. IsFiniteSet(new) /\ Cardinality(new) = Size(a)
    BY <1>3, FramesCount
  <2>4. IsFiniteSet(Published) /\ pmm_free_num_pages = Cardinality(Published)
    BY <1>1 DEF Inv, FreeCountExact
  <2>5. /\ IsFiniteSet(Published \cup new)
        /\ Cardinality(Published \cup new) = Cardinality(Published) + Size(a)
    <3>1. Cardinality(Published) \in Nat
      BY <2>4, FS_CardinalityType
    <3>2. /\ IsFiniteSet(Published \cup new)
          /\ Cardinality(Published \cup new)
               = Cardinality(Published) + Cardinality(new) - Cardinality(Published \cap new)
      BY <2>3, <2>4, FS_Union
    <3>3. Cardinality(Published \cap new) = 0
      BY <2>2, FS_EmptySet
    <3> QED BY <1>3, <2>3, <3>1, <3>2, <3>3
  <2> QED BY <1>1, <2>1, <2>4, <2>5 DEF FreeCountExact
<1>9. \A b \in Listed' : memmap'[b].usable /\ memmap'[b].pages > 1
  BY <1>1, <1>4 DEF Inv
<1>10. \A b \in Region' : b >= loop' => free_idx_hint'[b] = 0 /\ bitmap'[b] = {}
  <2> SUFFICES ASSUME NEW b \in Region, b >= a + 1
               PROVE  free_idx_hint[b] = 0 /\ bitmap[b] = {}
    BY <1>1, SameMap
  <2>1. b >= loop
    BY <1>0, <1>2, EntryFacts DEF Inv
  <2> QED BY <2>1 DEF Inv
<1> QED BY <1>1, <1>5, <1>6, <1>7, <1>8, <1>9, <1>10 DEF Inv

\* Handing out the pages at an area's hint preserves the invariant.
LEMMA TakeInv ==
  ASSUME Inv, Booted, NEW a \in Listed, NEW n \in Nat \ {0}, num_pages[a] >= n,
         TakeFrom(a, free_idx_hint[a], n)
  PROVE  Inv'
<1> DEFINE h == free_idx_hint[a]
           run == FramesAt(a, h, n)
<1>1. /\ memmap' = memmap /\ loop' = loop /\ area_list' = area_list
      /\ free_idx_hint' = [free_idx_hint EXCEPT ![a] = @ + n]
      /\ bitmap' = [bitmap EXCEPT ![a] = SetRange(a, h, n)]
      /\ num_pages' = [num_pages EXCEPT ![a] = @ - n]
      /\ pmm_free_num_pages' = pmm_free_num_pages - n
      /\ granted' = granted \cup run
  BY DEF TakeFrom
<1>2. a \in Region /\ Size(a) \in Nat /\ Addr(a) \in Nat /\ a < loop
  BY AreaFacts
<1>3. /\ h \in Nat /\ num_pages[a] \in Nat /\ bitmap[a] \subseteq Nat
      /\ num_pages \in [Region -> Nat] /\ free_idx_hint \in [Region -> Nat]
      /\ bitmap \in [Region -> SUBSET Nat]
      /\ h + num_pages[a] = Size(a)
      /\ \A i \in bitmap[a] : i < h
  BY <1>2 DEF Inv, TypeOK, Bump
<1>4. SetRange(a, h, n) \subseteq Nat /\ \A i \in SetRange(a, h, n) : i < h + n
  BY <1>3 DEF SetRange
<1>5. run \subseteq Nat
  BY <1>2, <1>3 DEF FramesAt
<1>6. /\ run \subseteq Published \ granted
      /\ IsFiniteSet(run) /\ Cardinality(run) = n
  BY RunIsFresh
<1>7. Listed' = Listed /\ Published' = Published
  BY <1>1 DEF Listed, Published, FramesAt, Addr, Size
<1>8. IsFiniteSet(Published') /\ FreeCountExact' /\ pmm_free_num_pages' \in Nat
  <2> DEFINE left == Published \ granted
  <2>1. IsFiniteSet(left) /\ pmm_free_num_pages = Cardinality(left)
    BY FS_Difference DEF Inv, FreeCountExact
  <2>2. Published' \ granted' = left \ run
    BY <1>1, <1>7
  <2>3. left \cap run = run
    BY <1>6
  <2> HIDE DEF left
  <2>4. IsFiniteSet(left \ run) /\ Cardinality(left \ run) = Cardinality(left) - Cardinality(left \cap run)
    BY <2>1, FS_Difference
  <2>5. Cardinality(left \ run) = pmm_free_num_pages - n
    BY <1>6, <2>1, <2>3, <2>4
  <2>6. Cardinality(left \ run) \in Nat
    BY <2>4, FS_CardinalityType
  <2> QED BY <1>1, <1>7, <2>2, <2>5, <2>6 DEF Inv, FreeCountExact
<1>9. TypeOK'
  <2>1. free_idx_hint' \in [Region -> Nat] /\ num_pages' \in [Region -> Nat]
    BY <1>1, <1>2, <1>3
  <2>2. bitmap' \in [Region -> SUBSET Nat]
    BY <1>1, <1>2, <1>3, <1>4
  <2>3. granted' \in SUBSET Nat
    BY <1>1, <1>5 DEF Inv, TypeOK
  <2> QED BY <1>1, <1>8, <2>1, <2>2, <2>3 DEF Inv, TypeOK, Region
<1>10. Bump'
  <2> SUFFICES ASSUME NEW b \in Listed
               PROVE  /\ free_idx_hint'[b] + num_pages'[b] = Size(b)
                      /\ \A i \in bitmap'[b] : i < free_idx_hint'[b]
    BY <1>1, <1>7 DEF Bump, Size
  <2>1. CASE b = a
    BY <1>1, <1>2, <1>3, <1>4, <2>1
  <2>2. CASE b # a
    <3>1. b \in Region
      BY AreaFacts
    <3>2. /\ free_idx_hint'[b] = free_idx_hint[b] /\ num_pages'[b] = num_pages[b]
          /\ bitmap'[b] = bitmap[b]
      BY <1>1, <1>3, <2>2, <3>1
    <3> QED BY <3>2 DEF Inv, Bump
  <2> QED BY <2>1, <2>2
<1>11. granted' = UNION {FramesAt(b, 0, free_idx_hint'[b]) : b \in Listed}
  <2>1. FramesAt(a, 0, free_idx_hint'[a]) = FramesAt(a, 0, h) \cup run
    BY <1>1, <1>2, <1>3 DEF FramesAt
  <2>2. \A b \in Listed : b # a => FramesAt(b, 0, free_idx_hint'[b]) = FramesAt(b, 0, free_idx_hint[b])
    BY <1>1, <1>3, AreaFacts
  <2>3. granted = UNION {FramesAt(b, 0, free_idx_hint[b]) : b \in Listed}
    BY DEF Inv
  <2> QED BY <1>1, <2>1, <2>2, <2>3
<1>12. granted' = UNION {FramesAt(b, 0, free_idx_hint[b])' : b \in Listed'}
  BY <1>1, <1>7, <1>11 DEF FramesAt, Addr
<1>13. \A b \in Region : b >= loop => free_idx_hint'[b] = 0 /\ bitmap'[b] = {}
  <2> SUFFICES ASSUME NEW b \in Region, b >= loop
               PROVE  free_idx_hint'[b] = 0 /\ bitmap'[b] = {}
    OBVIOUS
  <2>1. b # a
    BY <1>2, AreaFacts, EntryFacts, SMTT(30) DEF Inv, TypeOK
  <2> QED BY <1>1, <1>3, <2>1 DEF Inv
<1>14. Booted'
  BY <1>1 DEF Booted
<1> QED BY <1>1, <1>7, <1>8, <1>9, <1>10, <1>12, <1>13, <1>14 DEF Inv, Region

\* Every step preserves the invariant.
LEMMA NextInv == Inv /\ [Next]_vars => Inv'
<1> SUFFICES ASSUME Inv, [Next]_vars PROVE Inv'
  OBVIOUS
<1>0. ASSUME UNCHANGED vars PROVE Inv'
  <2>1. /\ memmap' = memmap /\ loop' = loop /\ area_list' = area_list
        /\ num_pages' = num_pages /\ free_idx_hint' = free_idx_hint /\ bitmap' = bitmap
        /\ pmm_free_num_pages' = pmm_free_num_pages /\ granted' = granted
    BY <1>0 DEF vars
  <2>2. Listed' = Listed /\ Published' = Published /\ Bump' /\ (Booted' <=> Booted)
    BY <2>1 DEF Inv, Listed, Published, FramesAt, Addr, Size, Bump, Booted
  <2>3. TypeOK'
    BY <2>1 DEF Inv, TypeOK, Region
  <2>4. granted' = UNION {FramesAt(b, 0, free_idx_hint[b])' : b \in Listed'}
    BY <2>1, <2>2 DEF Inv, FramesAt, Addr
  <2> QED BY <2>1, <2>2, <2>3, <2>4 DEF Inv, FreeCountExact, Region
<1>1. CASE AddArea
  BY <1>1, AddAreaInv
<1>2. CASE SkipEntry
  <2>1. /\ memmap' = memmap /\ loop' = loop + 1 /\ area_list' = area_list
        /\ num_pages' = num_pages /\ free_idx_hint' = free_idx_hint /\ bitmap' = bitmap
        /\ pmm_free_num_pages' = pmm_free_num_pages /\ granted' = granted
    BY <1>2 DEF SkipEntry
  <2>2. memmap \in Seq(Entry) /\ Len(memmap) \in Nat
    BY MemMapAssumption DEF Inv, TypeOK
  <2>3. ~Booted
    BY <1>2 DEF SkipEntry
  <2>4. loop \in Nat /\ loop <= Len(memmap) /\ loop + 1 \in 1 .. Len(memmap) + 1
    BY <2>2, <2>3 DEF Inv, TypeOK, Booted
  <2>5. area_list \in Seq(1 .. (loop + 1) - 1)
    BY <2>4 DEF Inv, TypeOK
  <2>6. TypeOK'
    BY <2>1, <2>4, <2>5 DEF Inv, TypeOK, Region
  <2>7. Listed' = Listed /\ Published' = Published /\ Bump'
    BY <2>1 DEF Inv, Listed, Published, FramesAt, Addr, Size, Bump
  <2>8. granted' = {}
    BY <2>1, <2>3 DEF Inv
  <2>9. \A b \in Region : b >= loop + 1 => free_idx_hint[b] = 0 /\ bitmap[b] = {}
    <3> SUFFICES ASSUME NEW b \in Region, b >= loop + 1
                 PROVE  free_idx_hint[b] = 0 /\ bitmap[b] = {}
      OBVIOUS
    <3>1. b >= loop
      BY <2>4, EntryFacts DEF Inv
    <3> QED BY <3>1 DEF Inv
  <2>10. granted' = UNION {FramesAt(b, 0, free_idx_hint[b])' : b \in Listed'}
    BY <2>1, <2>7 DEF Inv, FramesAt, Addr
  <2> QED BY <2>1, <2>6, <2>7, <2>8, <2>9, <2>10 DEF Inv, FreeCountExact, Region
<1>3. CASE \E n \in 0 .. MaxPages : Palloc(n)
  <2>1. PICK n \in Nat : Palloc(n)
    BY <1>3, MemMapAssumption
  <2>2. Booted
    BY <2>1 DEF Palloc
  <2> QED BY <2>1, <2>2, PallocAtHint, TakeInv
<1>4. CASE FreeFrame \/ FreeNode
  BY <1>0, <1>4, PfreeIsNoOp
<1> QED BY <1>0, <1>1, <1>2, <1>3, <1>4 DEF Next

\* The invariant holds in every reachable state.
THEOREM Invariance == Spec => []Inv
BY InitInv, NextInv, PTL DEF Spec

-----------------------------------------------------------------------------
(* The properties of PhysMem.                                              *)

\* Type correctness: in particular no page counter ever goes below zero.
THEOREM TypeCorrect == Spec => []TypeOK
<1>1. Inv => TypeOK
  BY DEF Inv
<1> QED BY <1>1, Invariance, PTL

\* Every area is a bump allocator.
THEOREM BumpAllocator == Spec => []Bump
<1>1. Inv => Bump
  BY DEF Inv
<1> QED BY <1>1, Invariance, PTL

\* The global free count is exact.
THEOREM FreeCount == Spec => []FreeCountExact
<1>1. Inv => FreeCountExact
  BY DEF Inv
<1> QED BY <1>1, Invariance, PTL

\* Apart from the frame after an overestimated region, whatever it is, only frames of
\* usable regions past their headers are handed out.
THEOREM HandsOutUsable == Spec => []FramesUsable
<1>1. ASSUME Inv PROVE FramesUsable
  <2> SUFFICES ASSUME NEW f \in granted
               PROVE  \/ Overshoot(f)
                      \/ \E a \in Listed : /\ Addr(a) <= f
                                           /\ f < memmap[a].base + memmap[a].pages
    BY DEF FramesUsable
  <2>1. f \in Nat
    BY <1>1, GrantedFacts
  <2>2. PICK a \in Listed : Addr(a) <= f /\ f < Addr(a) + Size(a)
    BY <1>1, GrantedFacts
  <2>3. /\ memmap[a].pages \in Nat /\ 2 <= memmap[a].pages /\ memmap[a].base \in Nat
        /\ Addr(a) + Size(a) \in Nat
        /\ Addr(a) + Size(a) <= memmap[a].base + memmap[a].pages + 1
        /\ 3 <= memmap[a].pages /\ memmap[a].pages <= 32448
             => Addr(a) + Size(a) <= memmap[a].base + memmap[a].pages
    BY <1>1, AreaFacts
  <2>4. CASE f < memmap[a].base + memmap[a].pages
    BY <2>2, <2>4
  <2>5. CASE f = memmap[a].base + memmap[a].pages
    BY <2>2, <2>3, <2>5 DEF Overshoot
  <2> QED BY <2>1, <2>2, <2>3, <2>4, <2>5
<1> QED BY <1>1, Invariance, PTL

\* pmm_palloc fails only when no area has the run that was asked for.
THEOREM FailsOnlyShort == Spec => []FailsOnlyWhenShort
<1>1. ASSUME Inv PROVE FailsOnlyWhenShort
  <2> SUFFICES ASSUME NEW n \in 1 .. MaxPages, PallocFails(n),
                      NEW a \in Listed, NEW i \in 0 .. Size(a) - n,
                      FramesAt(a, i, n) \cap granted = {}
               PROVE  FALSE
    BY DEF FailsOnlyWhenShort
  <2>1. n \in Nat \ {0}
    BY MemMapAssumption
  <2>2. a \in Region /\ Size(a) \in Nat /\ Addr(a) \in Nat /\ i \in Nat /\ i + n <= Size(a)
    BY <1>1, <2>1, AreaFacts
  <2>3. ~Serves(a, n)
    BY <2>1 DEF PallocFails
  <2>4. num_pages[a] \in Nat /\ free_idx_hint[a] \in Nat /\ num_pages[a] < n
    <3>1. num_pages[a] \in Nat /\ free_idx_hint[a] \in Nat
      BY <1>1, <2>2 DEF Inv, TypeOK
    <3> QED BY <1>1, <2>1, <2>3, <3>1, FindAtHint
  <2>5. i < free_idx_hint[a]
    BY <1>1, <2>1, <2>2, <2>4 DEF Inv, Bump
  <2>6. Addr(a) + i \in FramesAt(a, i, n) /\ Addr(a) + i \in FramesAt(a, 0, free_idx_hint[a])
    BY <2>1, <2>2, <2>4, <2>5 DEF FramesAt
  <2>7. Addr(a) + i \in granted
    BY <1>1, <2>6 DEF Inv
  <2> QED BY <2>6, <2>7
<1> QED BY <1>1, Invariance, PTL

\* No memory is ever given back: pmm_pfree leaves the manager as it was, and
\* everything else only takes.
THEOREM Leaks == Spec => NothingComesBack
<1>1. ASSUME Inv, [Next]_vars PROVE [GivesNothingBack]_vars
  <2> SUFFICES ASSUME Next, Booted, ~UNCHANGED vars PROVE GivesNothingBack
    BY <1>1 DEF GivesNothingBack
  <2>1. ~AddArea /\ ~SkipEntry
    BY DEF AddArea, SkipEntry
  <2>2. ~(FreeFrame \/ FreeNode)
    BY <1>1, PfreeIsNoOp
  <2>3. PICK n \in Nat : Palloc(n)
    BY <2>1, <2>2, MemMapAssumption DEF Next
  <2>4. PICK a \in Listed : n # 0 /\ TakeFrom(a, free_idx_hint[a], n)
    BY <1>1, <2>3, PallocAtHint
  <2>5. /\ free_idx_hint' = [free_idx_hint EXCEPT ![a] = @ + n]
        /\ bitmap' = [bitmap EXCEPT ![a] = SetRange(a, free_idx_hint[a], n)]
        /\ pmm_free_num_pages' = pmm_free_num_pages - n
    BY <2>4 DEF TakeFrom
  <2>6. bitmap[a] \subseteq SetRange(a, free_idx_hint[a], n)
    BY DEF SetRange
  <2>7. /\ free_idx_hint \in [Region -> Nat] /\ bitmap \in [Region -> SUBSET Nat]
        /\ pmm_free_num_pages \in Nat
    BY <1>1 DEF Inv, TypeOK
  <2>8. \A b \in Region : /\ bitmap[b] \subseteq bitmap'[b]
                          /\ free_idx_hint[b] <= free_idx_hint'[b]
    BY <2>5, <2>6, <2>7
  <2> QED BY <2>5, <2>7, <2>8 DEF GivesNothingBack
<1>2. Inv /\ [Next]_vars => [GivesNothingBack]_vars
  BY <1>1
<1> QED BY <1>2, Invariance, PTL DEF Spec, NothingComesBack

\* The manager implements the ledger: a step is a publication, a run of fresh
\* frames handed out, or no step of the ledger at all.
THEOREM Refinement == Spec => ImplementsLedger
<1>1. Init => Ledger!Init
  BY DEF Init, Ledger!Init
<1>2. Inv /\ [Next]_vars => [Ledger!Next]_(Ledger!vars)
  <2> SUFFICES ASSUME Inv, Next PROVE Ledger!Next \/ UNCHANGED <<granted, pmm_free_num_pages>>
    BY DEF vars, Ledger!vars
  <2>1. CASE AddArea
    <3>1. loop \in Region /\ memmap[loop].pages > 1
      <4>1. memmap \in Seq(Entry)
        BY MemMapAssumption DEF Inv, TypeOK
      <4>2. loop \in Nat \ {0} /\ loop <= Len(memmap)
        BY <2>1, <4>1 DEF AddArea, Booted, Inv, TypeOK
      <4> QED BY <2>1, <4>1, <4>2 DEF AddArea, Region
    <3>2. granted = {} /\ granted' = granted /\ pmm_free_num_pages' = pmm_free_num_pages + Size(loop)
      BY <2>1 DEF AddArea, Inv
    <3>3. pmm_free_num_pages \in Nat /\ Size(loop) \in Nat
      BY <3>1, RegionFacts DEF Inv, TypeOK
    <3> QED BY <3>2, <3>3 DEF Ledger!Next, Ledger!Publish
  <2>2. CASE SkipEntry
    BY <2>2 DEF SkipEntry
  <2>3. CASE \E n \in 0 .. MaxPages : Palloc(n)
    <3>1. PICK n \in Nat : Palloc(n)
      BY <2>3, MemMapAssumption
    <3>2. PICK a \in Listed : n # 0 /\ num_pages[a] >= n /\ TakeFrom(a, free_idx_hint[a], n)
      BY <3>1, PallocAtHint
    <3> DEFINE run == FramesAt(a, free_idx_hint[a], n)
               first == Addr(a) + free_idx_hint[a]
    <3>3. granted' = granted \cup run /\ pmm_free_num_pages' = pmm_free_num_pages - n
      BY <3>2 DEF TakeFrom
    <3>4. run \cap granted = {}
      BY <3>2, RunIsFresh
    <3>5. pmm_free_num_pages \in Nat /\ pmm_free_num_pages' \in Nat
      BY NextInv DEF Inv, TypeOK
    <3>6. first \in Nat /\ run = first .. (first + n - 1) /\ first \in run
      <4>1. a \in Region /\ Addr(a) \in Nat
        BY AreaFacts
      <4>2. free_idx_hint[a] \in Nat
        BY <4>1 DEF Inv, TypeOK
      <4> QED BY <3>2, <4>1, <4>2 DEF FramesAt
    <3>7. pmm_free_num_pages - pmm_free_num_pages' = n /\ pmm_free_num_pages' < pmm_free_num_pages
      BY <3>2, <3>3, <3>5
    <3>8. Ledger!Run(first) = run
      BY <3>6, <3>7 DEF Ledger!Run
    <3>9. Ledger!Hand
      BY <3>3, <3>4, <3>5, <3>6, <3>7, <3>8 DEF Ledger!Hand
    <3> QED BY <3>9 DEF Ledger!Next
  <2>4. CASE FreeFrame \/ FreeNode
    BY <2>4, PfreeIsNoOp DEF vars
  <2> QED BY <2>1, <2>2, <2>3, <2>4 DEF Next
<1> QED BY <1>1, <1>2, Invariance, PTL DEF Spec, ImplementsLedger, Ledger!Spec
=============================================================================
