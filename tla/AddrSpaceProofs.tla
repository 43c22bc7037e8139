--------------------------- MODULE AddrSpaceProofs ---------------------------
(* Proofs about AddrSpace: whatever is split and merged, the areas tile the *)
(* range, for every range, number of frames and size of request.           *)
EXTENDS AddrSpace, TLAPS, FiniteSetTheorems, WellFoundedInduction

Area == [addr : Int, num_pages : Nat \ {0}, state : {"FREE", "ALLOCATED"}]

End(a) == a.addr + a.num_pages

\* The areas of s follow one another from one end of the range to the other.
Tiles(s) ==
  /\ s \in Seq(Area) /\ Len(s) >= 1
  /\ s[1].addr = Start /\ End(s[Len(s)]) = Start + HeapPages
  /\ \A j \in 1 .. Len(s) - 1 : s[j + 1].addr = End(s[j])

\* No two free areas are neighbours, but for those that J names.
Apart(s, J) ==
  \A j \in (1 .. Len(s) - 1) \ J : ~(s[j].state = "FREE" /\ s[j + 1].state = "FREE")

Inv == Tiles(area_list) /\ Apart(area_list, {})

-----------------------------------------------------------------------------
(* Sequences.                                                              *)

LEMMA ConcatFacts ==
  ASSUME NEW S, NEW u \in Seq(S), NEW v \in Seq(S)
  PROVE  /\ u \o v \in Seq(S) /\ Len(u \o v) = Len(u) + Len(v)
         /\ \A j \in 1 .. Len(u) : (u \o v)[j] = u[j]
         /\ \A k \in 1 .. Len(v) : (u \o v)[Len(u) + k] = v[k]
OBVIOUS

LEMMA InsertFacts ==
  ASSUME NEW s \in Seq(Area), NEW i \in 1 .. Len(s) + 1, NEW e \in Area
  PROVE  /\ InsertAt(s, i, e) \in Seq(Area) /\ Len(InsertAt(s, i, e)) = Len(s) + 1
         /\ \A j \in 1 .. Len(s) + 1 :
              InsertAt(s, i, e)[j] = IF j < i THEN s[j] ELSE IF j = i THEN e ELSE s[j - 1]
<1> DEFINE u == SubSeq(s, 1, i - 1)
           v == SubSeq(s, i, Len(s))
<1>1. /\ u \in Seq(Area) /\ Len(u) = i - 1 /\ \A j \in 1 .. i - 1 : u[j] = s[j]
      /\ v \in Seq(Area) /\ Len(v) = Len(s) - i + 1
      /\ \A j \in 1 .. Len(s) - i + 1 : v[j] = s[j + i - 1]
  OBVIOUS
<1>2. InsertAt(s, i, e) = (u \o <<e>>) \o v
  BY DEF InsertAt
<1> HIDE DEF u, v
<1> DEFINE w == u \o <<e>>
<1>3. /\ w \in Seq(Area) /\ Len(w) = i
      /\ \A j \in 1 .. i : w[j] = IF j < i THEN s[j] ELSE e
  BY <1>1
<1>4. InsertAt(s, i, e) = w \o v
  BY <1>2
<1> HIDE DEF w
<1> DEFINE t == w \o v
<1>5. /\ t \in Seq(Area) /\ Len(t) = Len(s) + 1
      /\ \A j \in 1 .. i : t[j] = w[j]
      /\ \A k \in 1 .. Len(s) - i + 1 : t[i + k] = v[k]
  <2>1. Len(t) = Len(w) + Len(v) /\ t \in Seq(Area)
    BY <1>1, <1>3, ConcatFacts
  <2>2. /\ \A j \in 1 .. Len(w) : t[j] = w[j]
        /\ \A k \in 1 .. Len(v) : t[Len(w) + k] = v[k]
    BY <1>1, <1>3, ConcatFacts
  <2> HIDE DEF t
  <2> QED BY <1>1, <1>3, <2>1, <2>2
<1> HIDE DEF t
<1>6. ASSUME NEW j \in 1 .. Len(s) + 1
      PROVE  t[j] = IF j < i THEN s[j] ELSE IF j = i THEN e ELSE s[j - 1]
  <2>1. CASE j <= i
    BY <1>3, <1>5, <2>1
  <2>2. CASE j > i
    <3>1. PICK k \in 1 .. Len(s) - i + 1 : j = i + k /\ j - 1 = k + i - 1
      <4>1. j - i \in 1 .. Len(s) - i + 1 /\ j = i + (j - i) /\ j - 1 = (j - i) + i - 1
        BY <2>2
      <4> QED BY <4>1
    <3>2. t[j] = v[k] /\ v[k] = s[j - 1]
      BY <1>1, <1>5, <3>1
    <3> QED BY <2>2, <3>2
  <2> QED BY <2>1, <2>2
<1> QED BY <1>4, <1>5, <1>6 DEF t

LEMMA RemoveFacts ==
  ASSUME NEW s \in Seq(Area), NEW i \in 1 .. Len(s)
  PROVE  /\ RemoveAt(s, i) \in Seq(Area) /\ Len(RemoveAt(s, i)) = Len(s) - 1
         /\ \A j \in 1 .. Len(s) - 1 : RemoveAt(s, i)[j] = IF j < i THEN s[j] ELSE s[j + 1]
<1> DEFINE u == SubSeq(s, 1, i - 1)
           v == SubSeq(s, i + 1, Len(s))
<1>1. /\ u \in Seq(Area) /\ Len(u) = i - 1 /\ \A j \in 1 .. i - 1 : u[j] = s[j]
      /\ v \in Seq(Area) /\ Len(v) = Len(s) - i
      /\ \A j \in 1 .. Len(s) - i : v[j] = s[j + i]
  OBVIOUS
<1>2. RemoveAt(s, i) = u \o v
  BY DEF RemoveAt
<1> HIDE DEF u, v
<1> DEFINE t == u \o v
<1>3. /\ t \in Seq(Area) /\ Len(t) = Len(s) - 1
      /\ \A j \in 1 .. i - 1 : t[j] = u[j]
      /\ \A k \in 1 .. Len(s) - i : t[i - 1 + k] = v[k]
  <2>1. Len(t) = Len(u) + Len(v) /\ t \in Seq(Area)
    BY <1>1, ConcatFacts
  <2>2. /\ \A j \in 1 .. Len(u) : t[j] = u[j]
        /\ \A k \in 1 .. Len(v) : t[Len(u) + k] = v[k]
    BY <1>1, ConcatFacts
  <2> HIDE DEF t
  <2> QED BY <1>1, <2>1, <2>2
<1> HIDE DEF t
<1>4. ASSUME NEW j \in 1 .. Len(s) - 1
      PROVE  t[j] = IF j < i THEN s[j] ELSE s[j + 1]
  <2>1. CASE j < i
    BY <1>1, <1>3, <2>1
  <2>2. CASE j >= i
    <3>1. PICK k \in 1 .. Len(s) - i : j = i - 1 + k /\ j + 1 = k + i
      <4>1. /\ j - i + 1 \in 1 .. Len(s) - i /\ j = i - 1 + (j - i + 1)
            /\ j + 1 = (j - i + 1) + i
        BY <2>2
      <4> QED BY <4>1
    <3>2. t[j] = v[k] /\ v[k] = s[j + 1]
      BY <1>1, <1>3, <3>1
    <3> QED BY <2>2, <3>2
  <2> QED BY <2>1, <2>2
<1> QED BY <1>2, <1>3, <1>4 DEF t

LEMMA ReplaceFacts ==
  ASSUME NEW s \in Seq(Area), NEW i \in 1 .. Len(s), NEW e \in Area
  PROVE  /\ [s EXCEPT ![i] = e] \in Seq(Area) /\ Len([s EXCEPT ![i] = e]) = Len(s)
         /\ \A j \in 1 .. Len(s) : [s EXCEPT ![i] = e][j] = IF j = i THEN e ELSE s[j]
OBVIOUS

-----------------------------------------------------------------------------
(* The order of the areas.                                                 *)

\* The least-number principle, from the well-foundedness of < on Nat.
LEMMA LeastNat ==
  ASSUME NEW T, T \subseteq Nat, T # {}
  PROVE  \E x \in T : \A y \in T : x <= y
<1> DEFINE R == OpToRel(<, Nat)
<1>1. IsWellFoundedOn(R, Nat)
  BY NatLessThanWellFounded
<1>2. \A x, y \in Nat : <<y, x>> \in R <=> y < x
  BY DEF OpToRel
<1> HIDE DEF R
<1>3. PICK x \in T : \A y \in T : ~(<<y, x>> \in R)
  BY <1>1, WFMin
<1>4. ASSUME NEW y \in T PROVE x <= y
  <2>1. x \in Nat /\ y \in Nat
    OBVIOUS
  <2>2. ~(y < x)
    BY <1>2, <1>3, <2>1, Zenon
  <2> QED BY <2>1, <2>2
<1> QED BY <1>4

LEMMA AreaFacts ==
  ASSUME NEW s, Tiles(s)
  PROVE  /\ Len(s) \in Nat /\ Len(s) >= 1 /\ DOMAIN s = 1 .. Len(s) /\ s \in Seq(Area)
         /\ s[1].addr = Start /\ End(s[Len(s)]) = Start + HeapPages
         /\ \A j \in 1 .. Len(s) :
              /\ s[j] \in Area /\ s[j].addr \in Int /\ s[j].num_pages \in Nat \ {0}
              /\ s[j].state \in {"FREE", "ALLOCATED"}
              /\ End(s[j]) \in Int /\ s[j].addr < End(s[j])
              /\ PagesOf(s[j]) = {p \in Int : s[j].addr <= p /\ p < End(s[j])}
              /\ j < Len(s) => s[j + 1].addr = End(s[j])
<1>1. /\ s \in Seq(Area) /\ Len(s) >= 1 /\ s[1].addr = Start /\ End(s[Len(s)]) = Start + HeapPages
      /\ \A j \in 1 .. Len(s) - 1 : s[j + 1].addr = End(s[j])
  BY DEF Tiles
<1>2. ASSUME NEW a \in Area
      PROVE  /\ a.addr \in Int /\ a.num_pages \in Nat \ {0} /\ a.state \in {"FREE", "ALLOCATED"}
             /\ End(a) \in Int /\ a.addr < End(a)
             /\ PagesOf(a) = {p \in Int : a.addr <= p /\ p < End(a)}
  <2>1. a.addr \in Int /\ a.num_pages \in Nat \ {0} /\ a.state \in {"FREE", "ALLOCATED"}
    BY DEF Area
  <2> QED BY <2>1 DEF End, PagesOf
<1> QED BY <1>1, <1>2

\* An area ends where a later one begins, or before.
LEMMA Ordered ==
  ASSUME NEW s, Tiles(s), NEW i \in 1 .. Len(s), NEW j \in 1 .. Len(s), i < j
  PROVE  End(s[i]) <= s[j].addr
<1> DEFINE T == {k \in 1 .. Len(s) : i < k /\ ~(End(s[i]) <= s[k].addr)}
<1>0. /\ Len(s) \in Nat
      /\ \A k \in 1 .. Len(s) : s[k].addr \in Int /\ End(s[k]) \in Int /\ s[k].addr < End(s[k])
      /\ \A k \in 1 .. Len(s) : k < Len(s) => s[k + 1].addr = End(s[k])
  BY AreaFacts
<1>1. SUFFICES ASSUME T # {} PROVE FALSE
  OBVIOUS
<1>2. T \subseteq Nat
  OBVIOUS
<1>3. PICK k \in T : \A m \in T : k <= m
  BY <1>1, <1>2, LeastNat
<1>4. PICK m \in 1 .. Len(s) : k = m + 1 /\ m < Len(s) /\ i <= m
  <2>1. k - 1 \in 1 .. Len(s) /\ k = (k - 1) + 1 /\ k - 1 < Len(s) /\ i <= k - 1
    BY <1>0
  <2> QED BY <2>1
<1>5. s[k].addr = End(s[m])
  BY <1>0, <1>4
<1>6. m \notin T
  BY <1>0, <1>3, <1>4
<1>7. m = i \/ End(s[i]) <= s[m].addr
  BY <1>4, <1>6
<1> QED BY <1>0, <1>5, <1>7

\* The areas are inside the range and do not overlap ...
LEMMA Disjoint ==
  ASSUME NEW s, Tiles(s), NEW i \in 1 .. Len(s)
  PROVE  /\ PagesOf(s[i]) \subseteq Heap /\ s[i].addr \in Heap
         /\ Start <= s[i].addr /\ End(s[i]) <= Start + HeapPages
         /\ \A j \in 1 .. Len(s) : \A p \in PagesOf(s[i]) : p \in PagesOf(s[j]) => i = j
         /\ \A j \in 1 .. Len(s) : s[i].addr = s[j].addr => i = j
<1>1. /\ Len(s) \in Nat /\ Len(s) >= 1
      /\ s[1].addr = Start /\ End(s[Len(s)]) = Start + HeapPages
      /\ \A j \in 1 .. Len(s) :
           /\ s[j].addr \in Int /\ End(s[j]) \in Int /\ s[j].addr < End(s[j])
           /\ PagesOf(s[j]) = {p \in Int : s[j].addr <= p /\ p < End(s[j])}
  BY AreaFacts
<1>2. \A k, j \in 1 .. Len(s) : k < j => End(s[k]) <= s[j].addr
  BY Ordered
<1>3. Start <= s[i].addr
  <2>1. 1 \in 1 .. Len(s)
    BY <1>1
  <2>2. i = 1 \/ End(s[1]) <= s[i].addr
    BY <1>1, <1>2, <2>1
  <2> QED BY <1>1, <2>1, <2>2
<1>4. End(s[i]) <= Start + HeapPages
  <2>1. Len(s) \in 1 .. Len(s)
    BY <1>1
  <2>2. i = Len(s) \/ End(s[i]) <= s[Len(s)].addr
    BY <1>1, <1>2, <2>1
  <2> QED BY <1>1, <2>1, <2>2
<1>5. PagesOf(s[i]) \subseteq Heap /\ s[i].addr \in Heap
  <2>1. s[i].addr \in Int /\ End(s[i]) \in Int /\ s[i].addr < End(s[i])
        /\ PagesOf(s[i]) = {p \in Int : s[i].addr <= p /\ p < End(s[i])}
    BY <1>1
  <2>2. \A p \in Int : s[i].addr <= p /\ p < End(s[i]) => p \in Heap
    BY <1>3, <1>4, <2>1, HeapAssumption DEF Heap
  <2> QED BY <2>1, <2>2
<1>6. ASSUME NEW j \in 1 .. Len(s), NEW p \in PagesOf(s[i]), p \in PagesOf(s[j]) PROVE i = j
  <2>1. p \in Int /\ s[i].addr <= p /\ p < End(s[i]) /\ s[j].addr <= p /\ p < End(s[j])
    BY <1>1, <1>6
  <2>2. ~(i < j) /\ ~(j < i)
    BY <1>1, <1>2, <2>1
  <2> QED BY <2>2
<1>7. ASSUME NEW j \in 1 .. Len(s), s[i].addr = s[j].addr PROVE i = j
  <2>1. /\ s[i].addr \in Int /\ End(s[i]) \in Int /\ s[i].addr < End(s[i])
        /\ s[j].addr \in Int /\ End(s[j]) \in Int /\ s[j].addr < End(s[j])
    BY <1>1
  <2>2. i < j => End(s[i]) <= s[j].addr
    BY <1>2
  <2>3. j < i => End(s[j]) <= s[i].addr
    BY <1>2
  <2>4. ~(i < j) /\ ~(j < i)
    BY <1>7, <2>1, <2>2, <2>3
  <2> QED BY <2>4
<1> QED BY <1>3, <1>4, <1>5, <1>6, <1>7

\* ... and leave no page out.
LEMMA Covered ==
  ASSUME NEW s, Tiles(s), NEW p \in Heap
  PROVE  \E j \in 1 .. Len(s) : p \in PagesOf(s[j])
<1> DEFINE T == {k \in 1 .. Len(s) : p < End(s[k])}
<1>0. /\ Len(s) \in Nat /\ Len(s) >= 1
      /\ s[1].addr = Start /\ End(s[Len(s)]) = Start + HeapPages
      /\ \A j \in 1 .. Len(s) :
           /\ s[j].addr \in Int /\ End(s[j]) \in Int
           /\ PagesOf(s[j]) = {q \in Int : s[j].addr <= q /\ q < End(s[j])}
           /\ j < Len(s) => s[j + 1].addr = End(s[j])
  BY AreaFacts
<1>1. p \in Int /\ Start <= p /\ p < Start + HeapPages
  BY HeapAssumption DEF Heap
<1>2. T \subseteq Nat /\ Len(s) \in T
  BY <1>0, <1>1
<1>3. PICK j \in T : \A m \in T : j <= m
  BY <1>2, LeastNat
<1>4. s[j].addr <= p
  <2>1. CASE j = 1
    BY <1>0, <1>1, <2>1
  <2>2. CASE j # 1
    <3>1. PICK m \in 1 .. Len(s) : j = m + 1 /\ m < Len(s)
      <4>1. j - 1 \in 1 .. Len(s) /\ j = (j - 1) + 1 /\ j - 1 < Len(s)
        BY <1>0, <2>2
      <4> QED BY <4>1
    <3>2. m \notin T
      BY <1>0, <1>3, <3>1
    <3>3. End(s[m]) <= p /\ s[j].addr = End(s[m])
      BY <1>0, <1>1, <3>1, <3>2
    <3> QED BY <3>3
  <2> QED BY <2>1, <2>2
<1> QED BY <1>0, <1>1, <1>3, <1>4

-----------------------------------------------------------------------------
(* The blocks in use.                                                      *)

Block(a) == [addr |-> a.addr, num_pages |-> a.num_pages]

BlocksOf(s) == {Block(s[j]) : j \in {k \in 1 .. Len(s) : s[k].state = "ALLOCATED"}}

\* Neighbours that are not in use are glued.
LEMMA BlocksGlued ==
  ASSUME NEW s, NEW t, Len(s) \in Nat, Len(t) = Len(s) - 1, NEW i \in 1 .. Len(t),
         s[i].state # "ALLOCATED", s[i + 1].state # "ALLOCATED", t[i].state # "ALLOCATED",
         \A j \in 1 .. Len(t) : (j < i => t[j] = s[j]) /\ (j > i => t[j] = s[j + 1])
  PROVE  BlocksOf(t) = BlocksOf(s)
<1>1. ASSUME NEW j \in 1 .. Len(t), t[j].state = "ALLOCATED"
      PROVE  \E k \in 1 .. Len(s) : s[k].state = "ALLOCATED" /\ Block(s[k]) = Block(t[j])
  <2>1. CASE j < i
    BY <1>1, <2>1
  <2>2. CASE j > i
    <3>1. j + 1 \in 1 .. Len(s) /\ t[j] = s[j + 1]
      BY <2>2
    <3> QED BY <1>1, <3>1
  <2> QED BY <1>1, <2>1, <2>2
<1>2. ASSUME NEW k \in 1 .. Len(s), s[k].state = "ALLOCATED"
      PROVE  \E j \in 1 .. Len(t) : t[j].state = "ALLOCATED" /\ Block(t[j]) = Block(s[k])
  <2>1. CASE k < i
    BY <1>2, <2>1
  <2>2. CASE k > i
    <3>1. PICK j \in 1 .. Len(t) : k = j + 1 /\ j > i
      <4>1. k # i + 1
        BY <1>2
      <4>2. k - 1 \in 1 .. Len(t) /\ k = (k - 1) + 1 /\ k - 1 > i
        BY <2>2, <4>1
      <4> QED BY <4>2
    <3> QED BY <1>2, <3>1
  <2> QED BY <1>2, <2>1, <2>2
<1> QED BY <1>1, <1>2 DEF BlocksOf

\* An area becomes a block.
LEMMA BlocksMarked ==
  ASSUME NEW s, NEW t, Len(t) = Len(s), NEW i \in 1 .. Len(s),
         s[i].state # "ALLOCATED", t[i].state = "ALLOCATED",
         \A j \in 1 .. Len(s) : j # i => t[j] = s[j]
  PROVE  BlocksOf(t) = BlocksOf(s) \cup {Block(t[i])}
BY DEF BlocksOf

\* A block becomes free.
LEMMA BlocksFreed ==
  ASSUME NEW s, Tiles(s), NEW t, Len(t) = Len(s), NEW i \in 1 .. Len(s),
         s[i].state = "ALLOCATED", t[i].state # "ALLOCATED",
         \A j \in 1 .. Len(s) : j # i => t[j] = s[j]
  PROVE  BlocksOf(t) = BlocksOf(s) \ {Block(s[i])}
<1>1. \A j \in 1 .. Len(s) : Block(s[j]) = Block(s[i]) => j = i
  <2>1. \A j \in 1 .. Len(s) : s[i].addr = s[j].addr => i = j
    BY Disjoint
  <2>2. \A a : Block(a).addr = a.addr
    BY DEF Block
  <2> QED BY <2>1, <2>2
<1> QED BY <1>1 DEF BlocksOf

-----------------------------------------------------------------------------
(* Splitting and gluing areas.                                             *)

\* An area that takes in its successor leaves the range tiled: all other areas keep
\* their order, and it is as free as its state says.
LEMMA Glue ==
  ASSUME NEW s, Tiles(s), NEW i \in 1 .. Len(s) - 1, NEW t \in Seq(Area), Len(t) = Len(s) - 1,
         t[i].addr = s[i].addr, t[i].num_pages = s[i].num_pages + s[i + 1].num_pages,
         \A j \in 1 .. Len(t) : (j < i => t[j] = s[j]) /\ (j > i => t[j] = s[j + 1])
  PROVE  Tiles(t)
<1>0. /\ Len(s) \in Nat /\ Len(s) >= 2 /\ s \in Seq(Area)
      /\ s[1].addr = Start /\ End(s[Len(s)]) = Start + HeapPages
      /\ \A j \in 1 .. Len(s) - 1 : s[j + 1].addr = End(s[j])
  <2>1. /\ Len(s) \in Nat /\ Len(s) >= 1 /\ s \in Seq(Area)
        /\ s[1].addr = Start /\ End(s[Len(s)]) = Start + HeapPages
        /\ \A j \in 1 .. Len(s) : j < Len(s) => s[j + 1].addr = End(s[j])
    BY AreaFacts
  <2>2. Len(s) >= 2
    BY <2>1
  <2>3. \A j \in 1 .. Len(s) - 1 : j \in 1 .. Len(s) /\ j < Len(s)
    BY <2>1
  <2> QED BY <2>1, <2>2, <2>3
<1>1. /\ \A j \in 1 .. Len(s) : s[j].addr \in Int /\ s[j].num_pages \in Int
      /\ \A j \in 1 .. Len(t) : t[j].addr \in Int /\ t[j].num_pages \in Int
  <2>1. /\ \A j \in 1 .. Len(s) : s[j] \in Area
        /\ \A j \in 1 .. Len(t) : t[j] \in Area
    BY <1>0
  <2>2. \A a \in Area : a.addr \in Int /\ a.num_pages \in Int
    BY DEF Area
  <2> QED BY <2>1, <2>2
<1>2. End(t[i]) = End(s[i + 1])
  <2>1. i \in 1 .. Len(s) /\ i + 1 \in 1 .. Len(s)
    BY <1>0
  <2>2. /\ s[i].addr \in Int /\ s[i].num_pages \in Int
        /\ s[i + 1].addr \in Int /\ s[i + 1].num_pages \in Int
    BY <1>1, <2>1
  <2>3. s[i + 1].addr = s[i].addr + s[i].num_pages
    BY <1>0 DEF End
  <2>4. End(t[i]) = t[i].addr + t[i].num_pages /\ End(s[i + 1]) = s[i + 1].addr + s[i + 1].num_pages
    BY DEF End
  <2> QED BY <2>2, <2>3, <2>4
<1>3. t[1].addr = Start
  BY <1>0
<1>4. End(t[Len(t)]) = Start + HeapPages
  <2>1. CASE i = Len(t)
    <3>1. i + 1 = Len(s)
      BY <1>0, <2>1
    <3> QED BY <1>0, <1>2, <2>1, <3>1
  <2>2. CASE i < Len(t)
    <3>1. Len(t) \in 1 .. Len(t) /\ Len(t) > i /\ Len(t) + 1 = Len(s)
      BY <1>0, <2>2
    <3> QED BY <1>0, <3>1
  <2> QED BY <1>0, <2>1, <2>2
<1>5. ASSUME NEW j \in 1 .. Len(t) - 1 PROVE t[j + 1].addr = End(t[j])
  <2>0. j \in 1 .. Len(t) /\ j + 1 \in 1 .. Len(t) /\ j \in 1 .. Len(s) - 1 /\ j + 1 \in 1 .. Len(s) - 1
    BY <1>0
  <2>1. CASE j + 1 < i
    <3>1. t[j] = s[j] /\ t[j + 1] = s[j + 1]
      BY <2>0, <2>1
    <3> QED BY <1>0, <2>0, <3>1
  <2>2. CASE j + 1 = i
    BY <1>0, <2>2
  <2>3. CASE j = i
    <3>1. t[j + 1] = s[j + 2] /\ j + 1 \in 1 .. Len(s) - 1
      BY <1>0, <2>3
    <3>2. s[(j + 1) + 1].addr = End(s[j + 1])
      BY <1>0, <3>1
    <3> QED BY <1>2, <2>3, <3>1, <3>2
  <2>4. CASE j > i
    <3>1. j > i /\ j + 1 > i
      BY <2>0, <2>4
    <3>2. t[j] = s[j + 1] /\ t[j + 1] = s[(j + 1) + 1]
      BY <2>0, <3>1
    <3>3. s[(j + 1) + 1].addr = End(s[j + 1])
      BY <1>0, <2>0
    <3> QED BY <3>2, <3>3
  <2> QED BY <1>0, <2>1, <2>2, <2>3, <2>4
<1> QED BY <1>0, <1>3, <1>4, <1>5 DEF Tiles

\* An area is replaced by one of the same pages.
LEMMA Replaced ==
  ASSUME NEW s, Tiles(s), NEW i \in 1 .. Len(s),
         NEW e \in Area, e.addr = s[i].addr, End(e) = End(s[i])
  PROVE  LET t == [s EXCEPT ![i] = e]
         IN  /\ Tiles(t) /\ Len(t) = Len(s) /\ t[i] = e
             /\ \A j \in 1 .. Len(s) : j # i => t[j] = s[j]
<1> DEFINE t == [s EXCEPT ![i] = e]
<1>0. /\ Len(s) \in Nat /\ Len(s) >= 1 /\ s \in Seq(Area)
      /\ s[1].addr = Start /\ End(s[Len(s)]) = Start + HeapPages
      /\ \A j \in 1 .. Len(s) - 1 : s[j + 1].addr = End(s[j])
  BY DEF Tiles
<1>1. t \in Seq(Area) /\ Len(t) = Len(s) /\ \A j \in 1 .. Len(s) : t[j] = IF j = i THEN e ELSE s[j]
  BY <1>0, ReplaceFacts
<1> HIDE DEF t
<1>2. \A j \in 1 .. Len(s) : t[j].addr = s[j].addr /\ End(t[j]) = End(s[j])
  BY <1>1
<1>3. \A j \in 1 .. Len(s) - 1 : t[j + 1].addr = End(t[j])
  <2> SUFFICES ASSUME NEW j \in 1 .. Len(s) - 1 PROVE t[j + 1].addr = End(t[j])
    OBVIOUS
  <2>1. j \in 1 .. Len(s) /\ j + 1 \in 1 .. Len(s)
    BY <1>0
  <2> QED BY <1>0, <1>2, <2>1
<1>4. Tiles(t)
  BY <1>0, <1>1, <1>2, <1>3 DEF Tiles
<1> QED BY <1>1, <1>4 DEF t

\* The state of one area is changed.
WithState(s, i, state) == [s EXCEPT ![i].state = state]

Marks(s, i, state, t) ==
  /\ Tiles(t) /\ Len(t) = Len(s) /\ t[i].state = state
  /\ t[i].addr = s[i].addr /\ t[i].num_pages = s[i].num_pages
  /\ \A j \in 1 .. Len(s) : j # i => t[j] = s[j]

LEMMA Marked ==
  ASSUME NEW s, Tiles(s), NEW i \in 1 .. Len(s), NEW state \in {"FREE", "ALLOCATED"}
  PROVE  Marks(s, i, state, WithState(s, i, state))
<1>1. s[i] \in Area
  BY DEF Tiles
<1> DEFINE e == [s[i] EXCEPT !.state = state]
           t == [s EXCEPT ![i] = e]
<1>2. e \in Area /\ e.state = state /\ e.addr = s[i].addr /\ End(e) = End(s[i])
      /\ e.num_pages = s[i].num_pages
  BY <1>1 DEF Area, End
<1>3. WithState(s, i, state) = t
  BY DEF WithState
<1> HIDE DEF e
<1>4. /\ Tiles(t) /\ Len(t) = Len(s) /\ t[i] = e
      /\ \A j \in 1 .. Len(s) : j # i => t[j] = s[j]
  BY <1>2, Replaced
<1> HIDE DEF t
<1> QED BY <1>2, <1>3, <1>4 DEF Marks

\* vmm_area_split: t is s with its area i cut after n pages.
Cut(s, i, n, t) ==
  /\ Tiles(t) /\ Len(t) = Len(s) + 1
  /\ \A j \in 1 .. Len(t) : (j < i => t[j] = s[j]) /\ (j > i + 1 => t[j] = s[j - 1])
  /\ t[i].addr = s[i].addr /\ t[i].num_pages = n
  /\ t[i].state = s[i].state /\ t[i + 1].state = s[i].state

LEMMA SplitTiles ==
  ASSUME NEW s, Tiles(s), NEW i \in 1 .. Len(s), NEW n \in Nat \ {0}, n < s[i].num_pages,
         NEW t, t = Split(s, i, n)
  PROVE  Cut(s, i, n, t)
<1> DEFINE e == [s[i] EXCEPT !.num_pages = n]
           r == [addr |-> s[i].addr + n, num_pages |-> s[i].num_pages - n, state |-> s[i].state]
           u == [s EXCEPT ![i] = e]
<1>0. /\ Len(s) \in Nat /\ Len(s) >= 1 /\ s \in Seq(Area) /\ s[i] \in Area
      /\ s[1].addr = Start /\ End(s[Len(s)]) = Start + HeapPages
      /\ \A j \in 1 .. Len(s) - 1 : s[j + 1].addr = End(s[j])
  <2> HIDE DEF e, r, u
  <2>1. /\ Len(s) \in Nat /\ Len(s) >= 1 /\ s \in Seq(Area)
        /\ s[1].addr = Start /\ End(s[Len(s)]) = Start + HeapPages
        /\ \A j \in 1 .. Len(s) : s[j] \in Area /\ (j < Len(s) => s[j + 1].addr = End(s[j]))
    BY AreaFacts
  <2>2. \A j \in 1 .. Len(s) - 1 : j \in 1 .. Len(s) /\ j < Len(s)
    BY <2>1
  <2> QED BY <2>1, <2>2
<1>1. /\ e \in Area /\ e.addr = s[i].addr /\ e.num_pages = n /\ e.state = s[i].state
      /\ r \in Area /\ r.addr = End(e) /\ End(r) = End(s[i]) /\ r.state = s[i].state
  <2>1. /\ s[i].addr \in Int /\ s[i].num_pages \in Nat \ {0}
        /\ s[i].state \in {"FREE", "ALLOCATED"}
    BY <1>0 DEF Area
  <2>2. e \in Area /\ e.addr = s[i].addr /\ e.num_pages = n /\ e.state = s[i].state
    BY <1>0 DEF Area
  <2>3. s[i].num_pages - n \in Nat \ {0} /\ s[i].addr + n \in Int
    BY <2>1
  <2>4. r \in Area
    BY <2>1, <2>3 DEF Area
  <2>5. r.addr = End(e) /\ End(r) = End(s[i]) /\ r.state = s[i].state
    BY <2>1, <2>2 DEF End
  <2> QED BY <2>2, <2>4, <2>5
<1>2. t = InsertAt(u, i + 1, r)
  <2>1. ~(n >= s[i].num_pages)
    BY <1>0 DEF Area
  <2>2. [s EXCEPT ![i].num_pages = n] = u
    OBVIOUS
  <2> QED BY <2>1, <2>2 DEF Split
<1> HIDE DEF e, r
<1>3. u \in Seq(Area) /\ Len(u) = Len(s) /\ \A j \in 1 .. Len(s) : u[j] = IF j = i THEN e ELSE s[j]
  BY <1>0, <1>1, ReplaceFacts
<1> HIDE DEF u
<1>4. /\ t \in Seq(Area) /\ Len(t) = Len(s) + 1
      /\ \A j \in 1 .. Len(s) + 1 : t[j] = IF j < i + 1 THEN u[j] ELSE IF j = i + 1 THEN r ELSE u[j - 1]
  <2>1. PICK k \in 1 .. Len(u) + 1 : k = i + 1
    BY <1>0, <1>3
  <2>2. /\ InsertAt(u, k, r) \in Seq(Area) /\ Len(InsertAt(u, k, r)) = Len(u) + 1
        /\ \A j \in 1 .. Len(u) + 1 :
             InsertAt(u, k, r)[j] = IF j < k THEN u[j] ELSE IF j = k THEN r ELSE u[j - 1]
    <3>1. u \in Seq(Area) /\ r \in Area
      BY <1>1, <1>3
    <3> QED BY <3>1, InsertFacts
  <2>3. InsertAt(u, k, r) = t
    BY <1>2, <2>1
  <2> QED BY <1>3, <2>1, <2>2, <2>3
<1>5. /\ \A j \in 1 .. Len(s) + 1 : (j < i => t[j] = s[j]) /\ (j > i + 1 => t[j] = s[j - 1])
      /\ t[i] = e /\ t[i + 1] = r
  <2>1. ASSUME NEW j \in 1 .. Len(s) + 1, j > i + 1 PROVE t[j] = s[j - 1]
    <3>1. j - 1 \in 1 .. Len(s) /\ j - 1 # i /\ ~(j < i + 1) /\ j # i + 1
      BY <1>0, <2>1
    <3>2. t[j] = u[j - 1]
      BY <1>4, <3>1
    <3> QED BY <1>3, <3>1, <3>2
  <2>2. ASSUME NEW j \in 1 .. Len(s) + 1, j < i PROVE t[j] = s[j]
    BY <1>0, <1>3, <1>4, <2>2
  <2>3. t[i] = e /\ t[i + 1] = r
    BY <1>0, <1>3, <1>4
  <2> QED BY <2>1, <2>2, <2>3
<1>6. t[1].addr = Start
  BY <1>0, <1>1, <1>5
<1>7. End(t[Len(t)]) = Start + HeapPages
  <2>1. CASE i = Len(s)
    BY <1>0, <1>1, <1>4, <1>5, <2>1
  <2>2. CASE i < Len(s)
    <3>1. Len(t) \in 1 .. Len(s) + 1 /\ Len(t) > i + 1 /\ Len(t) - 1 = Len(s)
      BY <1>0, <1>4, <2>2
    <3> QED BY <1>0, <1>5, <3>1
  <2> QED BY <1>0, <2>1, <2>2
<1>8. ASSUME NEW j \in 1 .. Len(t) - 1 PROVE t[j + 1].addr = End(t[j])
  <2>0. j \in 1 .. Len(s) + 1 /\ j + 1 \in 1 .. Len(s) + 1 /\ j \in 1 .. Len(s)
    BY <1>0, <1>4
  <2>1. CASE j + 1 < i
    <3>1. j \in 1 .. Len(s) - 1 /\ j < i
      BY <1>0, <2>0, <2>1
    <3> QED BY <1>0, <1>5, <2>0, <2>1, <3>1
  <2>2. CASE j + 1 = i
    BY <1>0, <1>1, <1>5, <2>0, <2>2
  <2>3. CASE j = i
    BY <1>1, <1>5, <2>3
  <2>4. CASE j = i + 1
    <3>1. j + 1 > i + 1 /\ (j + 1) - 1 = i + 1 /\ i \in 1 .. Len(s) - 1
      BY <1>0, <2>0, <2>4
    <3> QED BY <1>0, <1>1, <1>5, <2>0, <2>4, <3>1
  <2>5. CASE j > i + 1
    <3>1. t[j] = s[j - 1] /\ t[j + 1] = s[j]
      <4>1. j + 1 > i + 1 /\ (j + 1) - 1 = j
        BY <2>0, <2>5
      <4> QED BY <1>5, <2>0, <2>5, <4>1
    <3>2. j - 1 \in 1 .. Len(s) - 1 /\ (j - 1) + 1 = j
      BY <1>0, <2>0, <2>5
    <3> QED BY <1>0, <3>1, <3>2
  <2> QED BY <2>0, <2>1, <2>2, <2>3, <2>4, <2>5
<1>9. Tiles(t)
  BY <1>0, <1>4, <1>6, <1>7, <1>8 DEF Tiles
<1> QED BY <1>1, <1>4, <1>5, <1>9 DEF Cut

\* Two neighbours i and i + 1 become one, e, in the place of one of them, k; the
\* other one, o, goes.
Join(s, k, o, e) == RemoveAt([s EXCEPT ![k] = e], o)

LEMMA Joined ==
  ASSUME NEW s, Tiles(s), NEW i \in 1 .. Len(s) - 1,
         NEW k, NEW o, (k = i /\ o = i + 1) \/ (k = i + 1 /\ o = i), NEW e \in Area,
         e.addr = s[i].addr, e.num_pages = s[i].num_pages + s[i + 1].num_pages
  PROVE  LET t == Join(s, k, o, e)
         IN  /\ Tiles(t) /\ Len(t) = Len(s) - 1 /\ t[i] = e
             /\ \A j \in 1 .. Len(t) : (j < i => t[j] = s[j]) /\ (j > i => t[j] = s[j + 1])
<1> DEFINE u == [s EXCEPT ![k] = e]
           t == RemoveAt(u, o)
<1>0. Len(s) \in Nat /\ Len(s) >= 2 /\ s \in Seq(Area) /\ k \in 1 .. Len(s)
  BY DEF Tiles
<1>1. u \in Seq(Area) /\ Len(u) = Len(s) /\ \A j \in 1 .. Len(s) : u[j] = IF j = k THEN e ELSE s[j]
  BY <1>0, ReplaceFacts
<1>2. Join(s, k, o, e) = t
  BY DEF Join
<1> HIDE DEF u
<1>3. o \in 1 .. Len(u)
  BY <1>0, <1>1
<1>4. /\ t \in Seq(Area) /\ Len(t) = Len(u) - 1
      /\ \A j \in 1 .. Len(u) - 1 : t[j] = IF j < o THEN u[j] ELSE u[j + 1]
  BY <1>1, <1>3, RemoveFacts
<1> HIDE DEF t
<1>5. t[i] = e
  <2>1. i \in 1 .. Len(u) - 1 /\ i + 1 \in 1 .. Len(s) /\ i \in 1 .. Len(s)
    BY <1>0, <1>1
  <2>2. CASE k = i
    BY <1>1, <1>3, <1>4, <2>1, <2>2
  <2>3. CASE k = i + 1
    BY <1>1, <1>3, <1>4, <2>1, <2>3
  <2> QED BY <2>2, <2>3
<1>6. ASSUME NEW j \in 1 .. Len(t)
      PROVE  (j < i => t[j] = s[j]) /\ (j > i => t[j] = s[j + 1])
  <2>1. j \in 1 .. Len(u) - 1 /\ j \in 1 .. Len(s) /\ j + 1 \in 1 .. Len(s)
    BY <1>0, <1>1, <1>4
  <2>2. ASSUME j < i PROVE t[j] = s[j]
    BY <1>0, <1>1, <1>3, <1>4, <2>1, <2>2
  <2>3. ASSUME j > i PROVE t[j] = s[j + 1]
    BY <1>0, <1>1, <1>3, <1>4, <2>1, <2>3
  <2> QED BY <2>2, <2>3
<1>7. Len(t) = Len(s) - 1 /\ t \in Seq(Area)
  BY <1>1, <1>4
<1>8. Tiles(t)
  <2>1. t[i].addr = s[i].addr /\ t[i].num_pages = s[i].num_pages + s[i + 1].num_pages
    BY <1>5
  <2>2. \A j \in 1 .. Len(t) : (j < i => t[j] = s[j]) /\ (j > i => t[j] = s[j + 1])
    BY <1>6
  <2> QED BY <1>7, <2>1, <2>2, Glue
<1> QED BY <1>5, <1>6, <1>7, <1>8, <1>2, Zenon

\* If both were free, so is the result, and it has a free neighbour only where the
\* second one had.
LEMMA ApartJoined ==
  ASSUME NEW s, Tiles(s), NEW i \in 1 .. Len(s) - 1, s[i].state = "FREE", s[i + 1].state = "FREE",
         NEW J \in {{i}, {i, i + 1}}, Apart(s, J),
         NEW t, Len(t) = Len(s) - 1,
         \A j \in 1 .. Len(t) : (j < i => t[j] = s[j]) /\ (j > i => t[j] = s[j + 1])
  PROVE  Apart(t, J \ {i + 1}) /\ (J = {i} => Apart(t, {}))
<1>0. Len(s) \in Nat /\ Len(s) >= 2
  BY DEF Tiles
<1>1. ASSUME NEW j \in 1 .. Len(s) - 1, j \notin J
      PROVE  ~(s[j].state = "FREE" /\ s[j + 1].state = "FREE")
  BY <1>1 DEF Apart
<1>2. ASSUME NEW j \in 1 .. Len(t) - 1, j # i
      PROVE  ~(t[j].state = "FREE" /\ t[j + 1].state = "FREE")
  <2>1. CASE j + 1 < i
    <3>1. j \in 1 .. Len(t) /\ j + 1 \in 1 .. Len(t) /\ j < i /\ j \in 1 .. Len(s) - 1
      BY <1>0, <2>1
    <3>2. t[j] = s[j] /\ t[j + 1] = s[j + 1]
      BY <2>1, <3>1
    <3> QED BY <1>1, <2>1, <3>1, <3>2
  <2>2. CASE j + 1 = i
    <3>1. j \in 1 .. Len(s) - 1 /\ j \notin J /\ j \in 1 .. Len(t) /\ j < i
      BY <1>0, <2>2
    <3> QED BY <1>1, <2>2, <3>1
  <2>3. CASE j > i
    <3>1. t[j] = s[j + 1] /\ t[j + 1] = s[(j + 1) + 1]
      <4>1. j \in 1 .. Len(t) /\ j + 1 \in 1 .. Len(t) /\ j + 1 > i
        BY <1>0, <2>3
      <4> QED BY <2>3, <4>1
    <3>2. j + 1 \in 1 .. Len(s) - 1 /\ j + 1 \notin J
      BY <1>0, <2>3
    <3> QED BY <1>1, <3>1, <3>2
  <2> QED BY <1>0, <1>2, <2>1, <2>2, <2>3
<1>3. ASSUME J = {i}, i \in 1 .. Len(t) - 1 PROVE t[i + 1].state # "FREE"
  <2>1. i + 1 \in 1 .. Len(t) /\ i + 1 > i /\ i + 1 \in 1 .. Len(s) - 1 /\ i + 1 \notin J
    BY <1>0, <1>3
  <2>2. t[i + 1] = s[(i + 1) + 1]
    BY <2>1
  <2> QED BY <1>1, <2>1, <2>2
<1> QED BY <1>2, <1>3 DEF Apart

-----------------------------------------------------------------------------
(* vmm_area_try_merge_with_neighbors.                                      *)

LEMMA PrevMerged ==
  ASSUME NEW s, Tiles(s), NEW i \in 1 .. Len(s), s[i].state = "FREE", Apart(s, {i - 1, i})
  PROVE  LET m == MergePrev(s, i)
             h == IF IsFree(s, i - 1) THEN i - 1 ELSE i
         IN  /\ Tiles(m) /\ h \in 1 .. Len(m) /\ m[h].state = "FREE" /\ Apart(m, {h})
             /\ BlocksOf(m) = BlocksOf(s) /\ PagesOf(s[i]) \subseteq PagesOf(m[h])
<1>0. /\ Len(s) \in Nat /\ Len(s) >= 1 /\ s \in Seq(Area) /\ DOMAIN s = 1 .. Len(s)
      /\ \A j \in 1 .. Len(s) : s[j] \in Area
  BY DEF Tiles
<1>1. CASE IsFree(s, i - 1)
  <2>1. PICK k \in 1 .. Len(s) - 1 : k = i - 1 /\ i = k + 1
    <3>1. i - 1 \in 1 .. Len(s) - 1 /\ i = (i - 1) + 1
      BY <1>0, <1>1 DEF IsFree
    <3> QED BY <3>1
  <2> DEFINE e == [s[i] EXCEPT !.addr = s[i - 1].addr, !.num_pages = @ + s[i - 1].num_pages]
             t == Join(s, i, k, e)
  <2>2. s[k] \in Area /\ s[k + 1] \in Area /\ s[k].state = "FREE"
    BY <1>0, <1>1, <2>1 DEF IsFree
  <2>3. /\ e \in Area /\ e.addr = s[k].addr /\ e.state = "FREE"
        /\ e.num_pages = s[k].num_pages + s[k + 1].num_pages
    <3>1. PICK a \in Area : a = s[i] /\ a = s[k + 1] /\ a.state = "FREE"
      BY <2>1, <2>2
    <3>2. PICK b \in Area : b = s[i - 1] /\ b = s[k]
      BY <2>1, <2>2
    <3>3. PICK n \in Nat \ {0} : n = a.num_pages + b.num_pages /\ n = b.num_pages + a.num_pages
      <4>1. a.num_pages \in Nat \ {0} /\ b.num_pages \in Nat \ {0}
        BY DEF Area
      <4>2. \A x, y \in Nat \ {0} : x + y \in Nat \ {0} /\ x + y = y + x
        OBVIOUS
      <4> QED BY <4>1, <4>2
    <3>4. e = [a EXCEPT !.addr = b.addr, !.num_pages = n]
      BY <3>1, <3>2, <3>3
    <3>5. b.addr \in Int
      BY DEF Area
    <3>6. LET c == [a EXCEPT !.addr = b.addr, !.num_pages = n]
          IN  c \in Area /\ c.addr = b.addr /\ c.state = a.state /\ c.num_pages = n
      BY <3>5 DEF Area
    <3> QED BY <3>1, <3>2, <3>3, <3>4, <3>6
  <2>4. MergePrev(s, i) = t
    BY <1>1, <2>1 DEF MergePrev, Join
  <2> HIDE DEF e
  <2>5. /\ Tiles(t) /\ Len(t) = Len(s) - 1 /\ t[k] = e
        /\ \A j \in 1 .. Len(t) : (j < k => t[j] = s[j]) /\ (j > k => t[j] = s[j + 1])
    BY <2>1, <2>3, Joined
  <2> HIDE DEF t
  <2>6. Apart(s, {k, k + 1}) /\ s[k + 1].state = "FREE"
    BY <2>1
  <2>7. Apart(t, {k, k + 1} \ {k + 1})
    BY <2>2, <2>5, <2>6, ApartJoined
  <2>8. {k, k + 1} \ {k + 1} = {k}
    OBVIOUS
  <2>9. k \in 1 .. Len(t)
    BY <1>0, <2>5
  <2>10. BlocksOf(t) = BlocksOf(s)
    <3>1. s[k].state # "ALLOCATED" /\ s[k + 1].state # "ALLOCATED" /\ t[k].state # "ALLOCATED"
      BY <2>2, <2>3, <2>5, <2>6
    <3> QED BY <1>0, <2>5, <2>9, <3>1, BlocksGlued
  <2>11. PagesOf(s[i]) \subseteq PagesOf(t[k])
    <3>1. /\ s[k].addr \in Int /\ s[k].num_pages \in Nat /\ s[i].addr \in Int /\ s[i].num_pages \in Nat
          /\ s[i].addr = s[k].addr + s[k].num_pages
      BY <2>1, AreaFacts DEF End
    <3>2. t[k].addr = s[k].addr /\ t[k].num_pages = s[k].num_pages + s[i].num_pages
      BY <2>1, <2>3, <2>5
    <3>3. ASSUME NEW x \in Int, NEW m \in Nat, NEW n \in Nat
          PROVE  x + m .. x + m + n - 1 \subseteq x .. x + (m + n) - 1
      OBVIOUS
    <3>4. s[k].addr + s[k].num_pages .. s[k].addr + s[k].num_pages + s[i].num_pages - 1
            \subseteq s[k].addr .. s[k].addr + (s[k].num_pages + s[i].num_pages) - 1
      BY ONLY <3>1, <3>3
    <3> QED BY <3>1, <3>2, <3>4, Zenon DEF PagesOf
  <2> QED BY <1>1, <2>1, <2>3, <2>4, <2>5, <2>7, <2>8, <2>9, <2>10, <2>11
<1>2. CASE ~IsFree(s, i - 1)
  <2>1. MergePrev(s, i) = s
    BY <1>2 DEF MergePrev
  <2>2. ASSUME NEW j \in (1 .. Len(s) - 1) \ {i}
        PROVE  ~(s[j].state = "FREE" /\ s[j + 1].state = "FREE")
    <3>1. CASE j = i - 1
      BY <1>0, <1>2, <3>1 DEF IsFree
    <3>2. CASE j # i - 1
      BY <3>2 DEF Apart
    <3> QED BY <3>1, <3>2
  <2> QED BY <1>2, <2>1, <2>2 DEF Apart
<1> QED BY <1>1, <1>2

LEMMA NextMerged ==
  ASSUME NEW s, Tiles(s), NEW i \in 1 .. Len(s), s[i].state = "FREE", Apart(s, {i})
  PROVE  LET m == MergeNext(s, i)
         IN  /\ Tiles(m) /\ Apart(m, {})
             /\ BlocksOf(m) = BlocksOf(s)
             /\ i \in 1 .. Len(m) /\ m[i].state = "FREE" /\ PagesOf(s[i]) \subseteq PagesOf(m[i])
<1>0. /\ Len(s) \in Nat /\ Len(s) >= 1 /\ s \in Seq(Area) /\ DOMAIN s = 1 .. Len(s)
      /\ \A j \in 1 .. Len(s) : s[j] \in Area
  BY DEF Tiles
<1>1. CASE IsFree(s, i + 1)
  <2> DEFINE e == [s[i] EXCEPT !.num_pages = @ + s[i + 1].num_pages]
             t == Join(s, i, i + 1, e)
  <2>1. i \in 1 .. Len(s) - 1 /\ s[i] \in Area /\ s[i + 1] \in Area /\ s[i + 1].state = "FREE"
    BY <1>0, <1>1 DEF IsFree
  <2>2. /\ e \in Area /\ e.addr = s[i].addr /\ e.state = "FREE"
        /\ e.num_pages = s[i].num_pages + s[i + 1].num_pages
    <3>1. s[i].num_pages \in Nat \ {0} /\ s[i + 1].num_pages \in Nat \ {0}
      BY <2>1 DEF Area
    <3>2. PICK k \in Nat \ {0} : k = s[i].num_pages + s[i + 1].num_pages
      BY <3>1
    <3>3. e = [s[i] EXCEPT !.num_pages = k]
      BY <3>2
    <3> HIDE DEF e
    <3> QED BY <2>1, <3>2, <3>3 DEF Area
  <2>3. MergeNext(s, i) = t
    BY <1>1 DEF MergeNext, Join
  <2> HIDE DEF e
  <2>4. /\ Tiles(t) /\ Len(t) = Len(s) - 1 /\ t[i] = e
        /\ \A j \in 1 .. Len(t) : (j < i => t[j] = s[j]) /\ (j > i => t[j] = s[j + 1])
    BY <2>1, <2>2, Joined
  <2> HIDE DEF t
  <2>5. {i} \in {{i}, {i, i + 1}}
    OBVIOUS
  <2>6. Apart(t, {})
    BY <2>1, <2>4, <2>5, ApartJoined
  <2>7. BlocksOf(t) = BlocksOf(s)
    <3>1. i \in 1 .. Len(t) /\ s[i].state # "ALLOCATED" /\ s[i + 1].state # "ALLOCATED"
          /\ t[i].state # "ALLOCATED"
      BY <1>0, <2>1, <2>2, <2>4
    <3> QED BY <1>0, <2>4, <3>1, BlocksGlued
  <2>8. i \in 1 .. Len(t) /\ t[i].state = "FREE" /\ PagesOf(s[i]) \subseteq PagesOf(t[i])
    <3>1. s[i].addr \in Int /\ s[i].num_pages \in Nat /\ s[i + 1].num_pages \in Nat
      BY <2>1 DEF Area
    <3>2. t[i].addr = s[i].addr /\ t[i].num_pages = s[i].num_pages + s[i + 1].num_pages
      BY <2>2, <2>4
    <3>3. PagesOf(s[i]) \subseteq PagesOf(t[i])
      BY <3>1, <3>2 DEF PagesOf
    <3> QED BY <1>0, <2>1, <2>2, <2>4, <3>3
  <2> QED BY <2>3, <2>4, <2>6, <2>7, <2>8
<1>2. CASE ~IsFree(s, i + 1)
  <2>1. MergeNext(s, i) = s
    BY <1>2 DEF MergeNext
  <2>2. ASSUME NEW j \in 1 .. Len(s) - 1
        PROVE  ~(s[j].state = "FREE" /\ s[j + 1].state = "FREE")
    <3>1. CASE j = i
      BY <1>0, <1>2, <3>1 DEF IsFree
    <3>2. CASE j # i
      BY <3>2 DEF Apart
    <3> QED BY <3>1, <3>2
  <2> QED BY <2>1, <2>2 DEF Apart
<1> QED BY <1>1, <1>2

-----------------------------------------------------------------------------
(* The invariant.                                                          *)

LEMMA InitInv == Init => Inv
<1> SUFFICES ASSUME Init PROVE Inv
  OBVIOUS
<1> DEFINE a == [addr |-> Start, num_pages |-> HeapPages, state |-> "FREE"]
<1>1. a \in Area /\ a.addr = Start /\ End(a) = Start + HeapPages
  BY HeapAssumption DEF Area, End
<1>2. area_list = <<a>>
  BY DEF Init
<1> HIDE DEF a
<1>3. Tiles(area_list)
  BY <1>1, <1>2 DEF Tiles
<1>4. Apart(area_list, {})
  BY <1>2 DEF Apart
<1> QED BY <1>3, <1>4 DEF Inv

\* The area that serves a request, split or not, becomes allocated: no free area
\* has got a new neighbour but the rest of the split, whose own was not free.
LEMMA Served ==
  ASSUME NEW s, Tiles(s), Apart(s, {}), NEW i \in 1 .. Len(s), s[i].state = "FREE",
         NEW n \in Nat \ {0}, n <= s[i].num_pages
  PROVE  LET t == WithState(Split(s, i, n), i, "ALLOCATED")
         IN  /\ Tiles(t) /\ Apart(t, {})
             /\ i \in DOMAIN t /\ t[i].addr = s[i].addr /\ t[i].num_pages = n
             /\ BlocksOf(t) = BlocksOf(s) \cup {Block(t[i])}
<1>0. Len(s) \in Nat /\ s \in Seq(Area) /\ s[i] \in Area /\ s[i].num_pages \in Nat
  <2>1. Len(s) \in Nat /\ s \in Seq(Area) /\ s[i] \in Area
    BY DEF Tiles
  <2> QED BY <2>1 DEF Area
<1>1. ASSUME NEW j \in 1 .. Len(s) - 1
      PROVE  ~(s[j].state = "FREE" /\ s[j + 1].state = "FREE")
  BY DEF Apart
<1>2. PICK u : u = Split(s, i, n)
  OBVIOUS
<1> DEFINE t == WithState(u, i, "ALLOCATED")
<1>3. CASE s[i].num_pages = n
  <2>1. u = s
    BY <1>0, <1>2, <1>3 DEF Split
  <2>2. /\ Tiles(t) /\ Len(t) = Len(s) /\ t[i].state = "ALLOCATED"
        /\ t[i].addr = s[i].addr /\ t[i].num_pages = n
        /\ \A j \in 1 .. Len(s) : j # i => t[j] = s[j]
    BY <1>3, <2>1, Marked DEF Marks
  <2> HIDE DEF t
  <2>3. ASSUME NEW j \in 1 .. Len(t) - 1
        PROVE  ~(t[j].state = "FREE" /\ t[j + 1].state = "FREE")
    <3>1. j \in 1 .. Len(s) - 1 /\ j \in 1 .. Len(s) /\ j + 1 \in 1 .. Len(s)
      BY <1>0, <2>2
    <3> QED BY <1>1, <2>2, <3>1
  <2>4. BlocksOf(t) = BlocksOf(s) \cup {Block(t[i])}
    BY <2>2, BlocksMarked
  <2>5. i \in DOMAIN t
    BY <2>2 DEF Tiles
  <2> QED BY <1>2, <2>2, <2>3, <2>4, <2>5 DEF Apart, t
<1>4. CASE s[i].num_pages > n
  <2>1. /\ Tiles(u) /\ Len(u) = Len(s) + 1
        /\ \A j \in 1 .. Len(u) : (j < i => u[j] = s[j]) /\ (j > i + 1 => u[j] = s[j - 1])
        /\ u[i].addr = s[i].addr /\ u[i].num_pages = n
        /\ u[i].state = "FREE" /\ u[i + 1].state = "FREE"
    <3>1. n < s[i].num_pages
      BY <1>0, <1>4
    <3>2. Cut(s, i, n, u)
      BY <1>2, <3>1, SplitTiles
    <3> QED BY <3>2 DEF Cut
  <2>2. i \in 1 .. Len(u) /\ u[i] \in Area
    BY <1>0, <2>1 DEF Tiles
  <2>3. /\ Tiles(t) /\ Len(t) = Len(u) /\ t[i].state = "ALLOCATED"
        /\ t[i].addr = u[i].addr /\ t[i].num_pages = u[i].num_pages
        /\ \A j \in 1 .. Len(u) : j # i => t[j] = u[j]
    BY <2>1, <2>2, Marked DEF Marks
  <2> HIDE DEF t
  <2>4. ASSUME NEW j \in 1 .. Len(t) - 1
        PROVE  ~(t[j].state = "FREE" /\ t[j + 1].state = "FREE")
    <3>0. j \in 1 .. Len(u) /\ j + 1 \in 1 .. Len(u)
      BY <1>0, <2>1, <2>3
    <3>1. CASE j = i \/ j + 1 = i
      BY <2>3, <3>1
    <3>2. CASE j + 1 < i
      <4>1. t[j] = s[j] /\ t[j + 1] = s[j + 1] /\ j \in 1 .. Len(s) - 1
        BY <1>0, <2>1, <2>3, <3>0, <3>2
      <4> QED BY <1>1, <4>1
    <3>3. CASE j = i + 1
      <4>1. j + 1 > i + 1 /\ j + 1 # i /\ (j + 1) - 1 = i + 1 /\ i \in 1 .. Len(s) - 1
        BY <1>0, <2>1, <3>0, <3>3
      <4>2. t[j + 1] = s[i + 1]
        BY <2>1, <2>3, <3>0, <4>1
      <4>3. s[i].state = "FREE"
        OBVIOUS
      <4> QED BY <1>1, <3>3, <4>1, <4>2, <4>3
    <3>4. CASE j > i + 1
      <4>1. /\ j + 1 > i + 1 /\ j # i /\ j + 1 # i /\ (j + 1) - 1 = j
            /\ j - 1 \in 1 .. Len(s) - 1 /\ (j - 1) + 1 = j
        BY <1>0, <2>1, <3>0, <3>4
      <4>2. t[j] = s[j - 1] /\ t[j + 1] = s[j]
        BY <2>1, <2>3, <3>0, <3>4, <4>1
      <4> QED BY <1>1, <4>1, <4>2
    <3> QED BY <1>0, <3>0, <3>1, <3>2, <3>3, <3>4
  <2>5. BlocksOf(s) = BlocksOf(u)
    <3>1. ASSUME NEW j \in 1 .. Len(s) PROVE (j < i => s[j] = u[j]) /\ (j > i => s[j] = u[j + 1])
      <4>1. j \in 1 .. Len(u) /\ j + 1 \in 1 .. Len(u) /\ (j + 1) - 1 = j /\ (j > i => j + 1 > i + 1)
        BY <1>0, <2>1
      <4> QED BY <2>1, <4>1
    <3>2. Len(u) \in Nat /\ Len(s) = Len(u) - 1
      BY <1>0, <2>1
    <3> QED BY <2>1, <3>1, <3>2, BlocksGlued
  <2>6. BlocksOf(t) = BlocksOf(s) \cup {Block(t[i])}
    <3>1. i \in 1 .. Len(u) /\ u[i].state # "ALLOCATED"
      BY <2>1, <2>2
    <3>2. BlocksOf(t) = BlocksOf(u) \cup {Block(t[i])}
      BY <2>3, <3>1, BlocksMarked
    <3> QED BY <2>5, <3>2
  <2>7. i \in DOMAIN t
    BY <2>2, <2>3 DEF Tiles
  <2> QED BY <1>2, <2>1, <2>3, <2>4, <2>6, <2>7 DEF Apart, t
<1> QED BY <1>0, <1>3, <1>4

LEMMA PallocInv ==
  ASSUME Inv, NEW n \in Nat \ {0}, NEW i \in DOMAIN area_list, Sufficient(i, n), PallocFrom(i, n)
  PROVE  Inv'
<1>1. /\ Tiles(area_list) /\ Apart(area_list, {}) /\ i \in 1 .. Len(area_list)
      /\ area_list[i] \in Area
  BY DEF Inv, Tiles
<1>2. area_list[i].state = "FREE" /\ n <= area_list[i].num_pages
  BY <1>1 DEF Sufficient, Area
<1>3. area_list' = WithState(Split(area_list, i, n), i, "ALLOCATED")
  BY DEF PallocFrom, WithState
<1> QED BY <1>1, <1>2, <1>3, Served DEF Inv

\* A block is freed: only around it can free areas have become neighbours, and those
\* are merged, into an area of the size that the count grows by.
LEMMA Freed ==
  ASSUME NEW s, Tiles(s), Apart(s, {}), NEW i \in 1 .. Len(s), s[i].state = "ALLOCATED"
  PROVE  LET f == WithState(s, i, "FREE")
         IN  /\ Tiles(Merge(f, i)) /\ Apart(Merge(f, i), {})
             /\ BlocksOf(Merge(f, i)) = BlocksOf(s) \ {Block(s[i])}
             /\ \E k \in 1 .. Len(Merge(f, i)) :
                  /\ Merge(f, i)[k].state = "FREE" /\ PagesOf(s[i]) \subseteq PagesOf(Merge(f, i)[k])
                  /\ Returned(f, i) = Merge(f, i)[k].num_pages
<1> DEFINE f == WithState(s, i, "FREE")
<1>1. /\ Tiles(f) /\ Len(f) = Len(s) /\ f[i].state = "FREE" /\ f[i].num_pages = s[i].num_pages
      /\ f[i].addr = s[i].addr
      /\ \A j \in 1 .. Len(s) : j # i => f[j] = s[j]
  BY Marked DEF Marks
<1> HIDE DEF f
<1>2. Apart(f, {i - 1, i})
  <2> SUFFICES ASSUME NEW j \in (1 .. Len(f) - 1) \ {i - 1, i}
               PROVE  ~(f[j].state = "FREE" /\ f[j + 1].state = "FREE")
    BY DEF Apart
  <2>1. /\ j \in 1 .. Len(s) - 1 /\ j \in 1 .. Len(s) /\ j # i
        /\ j + 1 \in 1 .. Len(s) /\ j + 1 # i
    BY <1>1 DEF Tiles
  <2> QED BY <1>1, <2>1 DEF Apart
<1>3. BlocksOf(f) = BlocksOf(s) \ {Block(s[i])}
  BY <1>1, BlocksFreed
<1> DEFINE m == MergePrev(f, i)
           h == IF IsFree(f, i - 1) THEN i - 1 ELSE i
<1>4. /\ Tiles(m) /\ h \in 1 .. Len(m) /\ m[h].state = "FREE" /\ Apart(m, {h})
      /\ BlocksOf(m) = BlocksOf(f) /\ PagesOf(f[i]) \subseteq PagesOf(m[h])
  BY <1>1, <1>2, PrevMerged
<1>5. Merge(f, i) = MergeNext(m, h) /\ Returned(f, i) = MergeNext(m, h)[h].num_pages
  BY DEF Merge, Returned
<1> HIDE DEF m, h
<1>6. /\ Tiles(MergeNext(m, h)) /\ Apart(MergeNext(m, h), {})
      /\ BlocksOf(MergeNext(m, h)) = BlocksOf(m)
      /\ h \in 1 .. Len(MergeNext(m, h)) /\ MergeNext(m, h)[h].state = "FREE"
      /\ PagesOf(m[h]) \subseteq PagesOf(MergeNext(m, h)[h])
  BY <1>4, NextMerged
<1>7. PagesOf(f[i]) = PagesOf(s[i])
  BY <1>1 DEF PagesOf
<1>8. PagesOf(s[i]) \subseteq PagesOf(MergeNext(m, h)[h])
  BY <1>4, <1>6, <1>7
<1> QED BY <1>3, <1>4, <1>5, <1>6, <1>8 DEF f

LEMMA FreeInv == ASSUME Inv, Free PROVE Inv'
<1>1. PICK i \in DOMAIN area_list :
        area_list[i].state = "ALLOCATED" /\ area_list' = Merge([area_list EXCEPT ![i].state = "FREE"], i)
  BY DEF Free
<1>2. Tiles(area_list) /\ Apart(area_list, {}) /\ i \in 1 .. Len(area_list)
  BY DEF Inv, Tiles
<1>3. area_list' = Merge(WithState(area_list, i, "FREE"), i)
  BY <1>1 DEF WithState
<1> QED BY <1>1, <1>2, <1>3, Freed DEF Inv

LEMMA NextInv == Inv /\ [Next]_vars => Inv'
<1> SUFFICES ASSUME Inv, [Next]_vars PROVE Inv'
  OBVIOUS
<1>1. CASE Free
  BY <1>1, FreeInv
<1>2. ASSUME NEW n \in 0 .. MaxPages, Palloc(n) PROVE Inv'
  <2>1. CASE PallocFails(n)
    BY <2>1 DEF PallocFails, Inv
  <2>2. ASSUME n > 0, NEW i \in DOMAIN area_list, Sufficient(i, n), PallocFrom(i, n) PROVE Inv'
    <3>1. n \in Nat \ {0}
      BY <1>2, <2>2, HeapAssumption
    <3> QED BY <2>2, <3>1, PallocInv
  <2>3. ASSUME NEW i \in DOMAIN area_list, PallocWild(i, n) PROVE Inv'
    BY <2>3 DEF PallocWild, Inv
  <2> QED BY <1>2, <2>1, <2>2, <2>3 DEF Palloc
<1>3. CASE UNCHANGED vars
  BY <1>3 DEF vars, Inv
<1> QED BY <1>1, <1>2, <1>3 DEF Next

LEMMA InvTiled == Inv => Tiled
<1> SUFFICES ASSUME Inv PROVE Tiled
  OBVIOUS
<1>1. Last(area_list) = area_list[Len(area_list)] /\ area_list # <<>>
  BY DEF Last, Inv, Tiles
<1> QED BY <1>1 DEF Inv, Tiles, Apart, Tiled, IsFree, End

\* For every range, number of frames and bound of a request, the areas of vmm.c
\* tile the range in the order of the list and no two free ones are neighbours.
THEOREM AlwaysTiled == Spec => []Tiled
<1>1. Spec => []Inv
  BY InitInv, NextInv, PTL DEF Spec
<1> QED BY <1>1, InvTiled, PTL
-----------------------------------------------------------------------------
(* Pages and frames.                                                       *)

\* The pages of the blocks in use.
Held(s) == {p \in Heap : \E j \in 1 .. Len(s) : s[j].state = "ALLOCATED" /\ p \in PagesOf(s[j])}

\* What the page table holds, and that every frame it names was handed out before the
\* one that pmm_palloc returns next.
Mapped ==
  /\ entry \in [Heap -> Int] /\ next_frame \in 0 .. Frames
  /\ \A p \in Heap :
       /\ entry[p] # Unmapped <=> p \in Held(area_list)
       /\ entry[p] = Unmapped \/ next_frame = 0 \/ entry[p] \in 1 .. next_frame - 1
  /\ \A p, q \in Heap : p # q /\ entry[p] = entry[q] => entry[p] \in {Unmapped, 0}

HeldInv == Inv /\ Mapped /\ free_num_pages \in Int

Interval(a, n) == {p \in Int : a <= p /\ p < a + n}

LEMMA HeldBlocks ==
  ASSUME NEW s, Tiles(s)
  PROVE  \A p \in Heap : p \in Held(s) <=> \E b \in BlocksOf(s) : p \in Interval(b.addr, b.num_pages)
<1>1. ASSUME NEW j \in 1 .. Len(s)
      PROVE  PagesOf(s[j]) = Interval(Block(s[j]).addr, Block(s[j]).num_pages)
  BY AreaFacts DEF Interval, Block, End
<1> QED BY <1>1 DEF Held, BlocksOf

\* What an allocation and a free do to the pages in use.
LEMMA HeldServed ==
  ASSUME NEW s, Tiles(s), NEW t, Tiles(t), NEW i \in DOMAIN t, NEW a, NEW n,
         t[i].addr = a, t[i].num_pages = n, BlocksOf(t) = BlocksOf(s) \cup {Block(t[i])}
  PROVE  Held(t) = Held(s) \cup Interval(a, n)
<1>1. i \in 1 .. Len(t)
  BY AreaFacts
<1>2. Block(t[i]).addr = a /\ Block(t[i]).num_pages = n
  BY DEF Block
<1>3. PagesOf(t[i]) = Interval(a, n) /\ Interval(a, n) \subseteq Heap
  <2>1. PagesOf(t[i]) = Interval(a, n)
    BY <1>1, AreaFacts DEF Interval, End
  <2> QED BY <1>1, <2>1, Disjoint
<1>4. \A p \in Heap : p \in Held(t) <=> p \in Held(s) \/ p \in Interval(a, n)
  BY <1>2, HeldBlocks
<1> QED BY <1>3, <1>4 DEF Held

LEMMA HeldFreed ==
  ASSUME NEW s, Tiles(s), NEW t, Tiles(t), NEW i \in 1 .. Len(s), s[i].state = "ALLOCATED",
         BlocksOf(t) = BlocksOf(s) \ {Block(s[i])}
  PROVE  /\ Held(t) = Held(s) \ PagesOf(s[i]) /\ PagesOf(s[i]) \subseteq Held(s)
         /\ Block(s[i]) \in BlocksOf(s)
<1>1. PagesOf(s[i]) \subseteq Held(s) /\ Block(s[i]) \in BlocksOf(s)
  BY Disjoint DEF Held, BlocksOf
<1>2. \A p \in Heap : p \in Held(s) <=> \E b \in BlocksOf(s) : p \in Interval(b.addr, b.num_pages)
  BY HeldBlocks
<1>3. \A p \in Heap : p \in Held(t) <=> \E b \in BlocksOf(t) : p \in Interval(b.addr, b.num_pages)
  BY HeldBlocks
<1>4. PagesOf(s[i]) = Interval(Block(s[i]).addr, Block(s[i]).num_pages)
  BY AreaFacts DEF Interval, Block, End
<1>5. ASSUME NEW b \in BlocksOf(s), b # Block(s[i]), NEW p \in PagesOf(s[i])
      PROVE  p \notin Interval(b.addr, b.num_pages)
  <2>1. PICK j \in 1 .. Len(s) : b = Block(s[j]) /\ j # i
    BY <1>5 DEF BlocksOf
  <2>2. PagesOf(s[j]) = Interval(b.addr, b.num_pages)
    BY <2>1, AreaFacts DEF Interval, Block, End
  <2>3. p \in PagesOf(s[j]) => i = j
    BY Disjoint
  <2> QED BY <2>1, <2>2, <2>3
<1>6. ASSUME NEW p \in Heap PROVE p \in Held(t) <=> p \in Held(s) /\ p \notin PagesOf(s[i])
  BY <1>2, <1>3, <1>4, <1>5, Zenon
<1> QED BY <1>1, <1>6 DEF Held

\* A free area holds no page that is in use.
LEMMA FreeNotHeld ==
  ASSUME NEW s, Tiles(s), NEW i \in 1 .. Len(s), s[i].state = "FREE"
  PROVE  PagesOf(s[i]) \cap Held(s) = {}
BY Disjoint DEF Held

-----------------------------------------------------------------------------
(* vmm_map_area and vmm_unmap_area keep the page table true to the areas.  *)

LEMMA HeldInit == Init => HeldInv
<1> SUFFICES ASSUME Init PROVE HeldInv
  OBVIOUS
<1>1. Inv
  BY InitInv
<1>2. Held(area_list) = {}
  BY DEF Init, Held
<1>3. Mapped
  <2>1. next_frame \in 0 .. Frames
    BY HeapAssumption DEF Init
  <2> QED BY <1>2, <2>1 DEF Init, Mapped, Unmapped
<1>4. free_num_pages \in Int
  BY HeapAssumption DEF Init
<1> QED BY <1>1, <1>3, <1>4 DEF HeldInv

\* The frames that one call maps and those of the nodes it makes.
LEMMA FrameFacts ==
  ASSUME next_frame \in 0 .. Frames, NEW k \in Nat \ {0}
  PROVE  \/ FrameAfter(k) = 0 /\ (next_frame = 0 \/ next_frame + k - 1 > Frames)
         \/ /\ next_frame # 0 /\ FrameAfter(k) = next_frame + k - 1
            /\ FrameAfter(k) \in 1 .. Frames /\ next_frame <= FrameAfter(k)
BY HeapAssumption DEF FrameAfter

\* The n pages from a on are taken and mapped, after nodes frames went to list nodes.
Takes(a, n, nodes) ==
  /\ Interval(a, n) \subseteq Heap /\ Interval(a, n) \cap Held(area_list) = {}
  /\ Held(area_list') = Held(area_list) \cup Interval(a, n)
  /\ entry' = [p \in Heap |-> IF p \in Interval(a, n) THEN FrameAfter(nodes + 1 + p - a)
                              ELSE entry[p]]
  /\ next_frame' = FrameAfter(nodes + n + 1)

LEMMA MappedServed ==
  ASSUME Mapped, NEW a \in Int, NEW n \in Nat \ {0}, NEW nodes \in {0, 1}, Takes(a, n, nodes)
  PROVE  Mapped'
<1>0. /\ Interval(a, n) \subseteq Heap /\ Interval(a, n) \cap Held(area_list) = {}
      /\ Held(area_list') = Held(area_list) \cup Interval(a, n)
      /\ entry' = [p \in Heap |-> IF p \in Interval(a, n) THEN FrameAfter(nodes + 1 + p - a)
                                  ELSE entry[p]]
      /\ next_frame' = FrameAfter(nodes + n + 1)
  BY DEF Takes
<1>1. /\ entry \in [Heap -> Int] /\ next_frame \in 0 .. Frames /\ Frames \in Nat
      /\ \A p \in Heap :
           /\ entry[p] # Unmapped <=> p \in Held(area_list)
           /\ entry[p] = Unmapped \/ next_frame = 0 \/ entry[p] \in 1 .. next_frame - 1
      /\ \A p, q \in Heap : p # q /\ entry[p] = entry[q] => entry[p] \in {Unmapped, 0}
  BY HeapAssumption DEF Mapped
<1>2. ASSUME NEW p \in Interval(a, n)
      PROVE  /\ entry'[p] = FrameAfter(nodes + 1 + p - a)
             /\ nodes + 1 + p - a \in 1 .. nodes + n
             /\ \/ entry'[p] = 0 /\ (next_frame = 0 \/ next_frame + (nodes + p - a) > Frames)
                \/ /\ next_frame # 0 /\ entry'[p] = next_frame + (nodes + p - a)
                   /\ entry'[p] \in 1 .. Frames /\ next_frame <= entry'[p]
  <2>1. p \in Heap /\ p \in Int /\ a <= p /\ p < a + n
    BY <1>0 DEF Interval
  <2>2. nodes + 1 + p - a \in 1 .. nodes + n /\ nodes + 1 + p - a \in Nat \ {0}
        /\ next_frame + (nodes + 1 + p - a) - 1 = next_frame + (nodes + p - a)
    BY <1>1, <2>1
  <2>3. entry'[p] = FrameAfter(nodes + 1 + p - a)
    BY <1>0, <2>1
  <2> QED BY <1>1, <2>2, <2>3, FrameFacts
<1>3. ASSUME NEW p \in Heap, p \notin Interval(a, n) PROVE entry'[p] = entry[p]
  BY <1>0, <1>3
<1>4. next_frame' \in 0 .. Frames /\
      (next_frame' = 0 \/ (/\ next_frame # 0 /\ next_frame' = next_frame + nodes + n
                           /\ next_frame + nodes + n <= Frames))
  <2>1. nodes + n + 1 \in Nat \ {0} /\ next_frame + (nodes + n + 1) - 1 = next_frame + nodes + n
    BY <1>1
  <2> QED BY <1>0, <1>1, <2>1, FrameFacts
<1>5. entry' \in [Heap -> Int]
  <2>1. \A p \in Heap : entry'[p] \in Int
    BY <1>1, <1>2, <1>3
  <2> QED BY <1>0, <2>1
<1>6. ASSUME NEW p \in Heap
      PROVE  /\ entry'[p] # Unmapped <=> p \in Held(area_list')
             /\ entry'[p] = Unmapped \/ next_frame' = 0 \/ entry'[p] \in 1 .. next_frame' - 1
  <2>1. CASE p \in Interval(a, n)
    <3>1. entry'[p] # Unmapped
      <4>1. entry'[p] \in 0 .. Frames
        BY <1>1, <1>2, <2>1
      <4> QED BY <1>1, <4>1 DEF Unmapped
    <3>2. next_frame' # 0 => entry'[p] \in 1 .. next_frame' - 1
      <4>1. p \in Int /\ a <= p /\ p < a + n
        BY <2>1 DEF Interval
      <4> QED BY <1>1, <1>2, <1>4, <2>1, <4>1
    <3> QED BY <1>0, <2>1, <3>1, <3>2
  <2>2. CASE p \notin Interval(a, n)
    <3>1. entry'[p] # Unmapped <=> p \in Held(area_list')
      BY <1>0, <1>1, <1>3, <2>2
    <3>2. entry'[p] = Unmapped \/ next_frame' = 0 \/ entry'[p] \in 1 .. next_frame' - 1
      BY <1>1, <1>3, <1>4, <2>2
    <3> QED BY <3>1, <3>2
  <2> QED BY <2>1, <2>2
<1>7. ASSUME NEW p \in Heap, NEW q \in Heap, p # q, entry'[p] = entry'[q]
      PROVE  entry'[p] \in {Unmapped, 0}
  <2>1. ASSUME NEW x \in Heap, NEW y \in Heap, x \in Interval(a, n), y \notin Interval(a, n),
               entry'[x] = entry'[y]
        PROVE  entry'[x] \in {Unmapped, 0}
    <3>1. entry'[x] = 0 \/ (next_frame # 0 /\ entry'[x] \in Int /\ next_frame <= entry'[x])
      BY <1>2, <2>1
    <3>2. entry'[y] = Unmapped \/ next_frame = 0 \/ entry'[y] \in 1 .. next_frame - 1
      BY <1>1, <1>3, <2>1
    <3> QED BY <1>1, <2>1, <3>1, <3>2
  <2>2. CASE p \in Interval(a, n) /\ q \in Interval(a, n)
    <3>1. p \in Int /\ q \in Int /\ a \in Int
      BY <2>2 DEF Interval
    <3> QED BY <1>1, <1>2, <1>7, <2>2, <3>1
  <2>3. CASE p \notin Interval(a, n) /\ q \notin Interval(a, n)
    BY <1>1, <1>3, <1>7, <2>3
  <2> QED BY <1>7, <2>1, <2>2, <2>3
<1> QED BY <1>4, <1>5, <1>6, <1>7 DEF Mapped

LEMMA MappedFreed ==
  ASSUME Mapped, NEW P, Held(area_list') = Held(area_list) \ P,
         entry' = [p \in Heap |-> IF p \in P THEN Unmapped ELSE entry[p]], next_frame' = next_frame
  PROVE  Mapped'
BY DEF Mapped, Unmapped

\* How many pages are free.
LEMMA HeapFinite == IsFiniteSet(Heap)
BY FS_Interval, HeapAssumption DEF Heap

LEMMA IntervalCard ==
  ASSUME NEW a \in Int, NEW n \in Nat \ {0}
  PROVE  IsFiniteSet(Interval(a, n)) /\ Cardinality(Interval(a, n)) = n
<1>1. Interval(a, n) = a .. a + n - 1
  BY DEF Interval
<1>2. a + n - 1 \in Int /\ ~(a > a + n - 1) /\ (a + n - 1) - a + 1 = n
  OBVIOUS
<1> QED BY <1>1, <1>2, FS_Interval

LEMMA FreeServed ==
  ASSUME NEW a \in Int, NEW n \in Nat \ {0},
         Interval(a, n) \subseteq Heap, Interval(a, n) \cap Held(area_list) = {},
         Held(area_list') = Held(area_list) \cup Interval(a, n)
  PROVE  Cardinality(Heap \ Held(area_list')) = Cardinality(Heap \ Held(area_list)) - n
<1> DEFINE S == Heap \ Held(area_list)
           I == Interval(a, n)
<1>1. Heap \ Held(area_list') = S \ I /\ S \cap I = I
  OBVIOUS
<1>2. IsFiniteSet(S) /\ Cardinality(S) \in Nat
  BY HeapFinite, FS_Difference, FS_CardinalityType
<1>3. Cardinality(I) = n
  BY IntervalCard
<1> HIDE DEF S, I
<1>4. Cardinality(S \ I) = Cardinality(S) - n
  BY <1>1, <1>2, <1>3, FS_Difference
<1> QED BY <1>1, <1>4 DEF S

LEMMA FreeFreed ==
  ASSUME NEW a \in Int, NEW n \in Nat \ {0},
         Interval(a, n) \subseteq Held(area_list),
         Held(area_list') = Held(area_list) \ Interval(a, n)
  PROVE  Cardinality(Heap \ Held(area_list')) = Cardinality(Heap \ Held(area_list)) + n
<1> DEFINE S == Heap \ Held(area_list)
           I == Interval(a, n)
<1>1. Heap \ Held(area_list') = S \cup I /\ S \cap I = {}
  BY DEF Held
<1>2. IsFiniteSet(S) /\ Cardinality(S) \in Nat
  BY HeapFinite, FS_Difference, FS_CardinalityType
<1>3. IsFiniteSet(I) /\ Cardinality(I) = n
  BY IntervalCard
<1> HIDE DEF S, I
<1>4. IsFiniteSet(S \cap I) /\ Cardinality(S \cap I) = 0
  BY <1>1, FS_EmptySet
<1>5. Cardinality(S \cup I) = Cardinality(S) + Cardinality(I) - Cardinality(S \cap I)
  BY <1>2, <1>3, FS_Union
<1>6. Cardinality(S \cup I) = Cardinality(S) + n
  BY <1>2, <1>3, <1>4, <1>5
<1> QED BY <1>1, <1>6 DEF S

\* What a granted request does.
LEMMA Granted ==
  ASSUME Inv, NEW n \in Nat \ {0}, NEW i \in DOMAIN area_list, Sufficient(i, n), PallocFrom(i, n)
  PROVE  LET a == area_list[i].addr
         IN  /\ a \in Int /\ Interval(a, n) \subseteq Heap /\ Interval(a, n) \cap Held(area_list) = {}
             /\ Held(area_list') = Held(area_list) \cup Interval(a, n)
             /\ BlocksOf(area_list') = BlocksOf(area_list) \cup {[addr |-> a, num_pages |-> n]}
             /\ PagesOf(area_list'[i]) = Interval(a, n) /\ area_list'[i].addr = a
<1> DEFINE a == area_list[i].addr
<1>1. /\ Tiles(area_list) /\ Apart(area_list, {}) /\ i \in 1 .. Len(area_list)
      /\ area_list[i] \in Area
  BY DEF Inv, Tiles
<1>2. area_list[i].state = "FREE" /\ n <= area_list[i].num_pages /\ area_list[i].num_pages \in Nat
      /\ a \in Int
  BY <1>1 DEF Sufficient, Area
<1>3. area_list' = WithState(Split(area_list, i, n), i, "ALLOCATED")
  BY DEF PallocFrom, WithState
<1>4. /\ Tiles(area_list') /\ i \in DOMAIN area_list'
      /\ area_list'[i].addr = a /\ area_list'[i].num_pages = n
      /\ BlocksOf(area_list') = BlocksOf(area_list) \cup {Block(area_list'[i])}
  BY <1>1, <1>2, <1>3, Served
<1>5. Held(area_list') = Held(area_list) \cup Interval(a, n)
  BY <1>1, <1>4, HeldServed
<1>6. PagesOf(area_list'[i]) = Interval(a, n)
  BY <1>2, <1>4 DEF PagesOf, Interval
<1>7. Interval(a, n) \subseteq PagesOf(area_list[i])
  BY <1>2 DEF PagesOf, Interval
<1>8. PagesOf(area_list[i]) \subseteq Heap /\ PagesOf(area_list[i]) \cap Held(area_list) = {}
  BY <1>1, <1>2, Disjoint, FreeNotHeld
<1>9. Block(area_list'[i]) = [addr |-> a, num_pages |-> n]
  BY <1>4 DEF Block
<1> QED BY <1>2, <1>4, <1>5, <1>6, <1>7, <1>8, <1>9

\* What a free does.
LEMMA Given ==
  ASSUME Inv, Free
  PROVE  \E i \in 1 .. Len(area_list), k \in 1 .. Len(area_list') :
           LET a == area_list[i].addr
               n == area_list[i].num_pages
           IN  /\ a \in Int /\ n \in Nat \ {0}
               /\ Interval(a, n) = PagesOf(area_list[i]) /\ Interval(a, n) \subseteq Held(area_list)
               /\ Held(area_list') = Held(area_list) \ Interval(a, n)
               /\ Block(area_list[i]) \in BlocksOf(area_list)
               /\ BlocksOf(area_list') = BlocksOf(area_list) \ {Block(area_list[i])}
               /\ area_list'[k].state = "FREE" /\ Interval(a, n) \subseteq PagesOf(area_list'[k])
               /\ free_num_pages' = free_num_pages + area_list'[k].num_pages
               /\ entry' = Unmap(area_list[i])
<1>1. PICK i \in DOMAIN area_list :
        /\ area_list[i].state = "ALLOCATED"
        /\ LET freed == [area_list EXCEPT ![i].state = "FREE"]
           IN  /\ area_list' = Merge(freed, i)
               /\ free_num_pages' = free_num_pages + Returned(freed, i)
        /\ entry' = Unmap(area_list[i])
  BY DEF Free
<1> DEFINE f == WithState(area_list, i, "FREE")
<1>2. /\ Tiles(area_list) /\ Apart(area_list, {}) /\ i \in 1 .. Len(area_list)
      /\ area_list[i] \in Area
  BY DEF Inv, Tiles
<1>3. area_list' = Merge(f, i) /\ free_num_pages' = free_num_pages + Returned(f, i)
  BY <1>1 DEF WithState
<1>4. /\ Tiles(Merge(f, i))
      /\ BlocksOf(Merge(f, i)) = BlocksOf(area_list) \ {Block(area_list[i])}
      /\ \E k \in 1 .. Len(Merge(f, i)) :
           /\ Merge(f, i)[k].state = "FREE" /\ PagesOf(area_list[i]) \subseteq PagesOf(Merge(f, i)[k])
           /\ Returned(f, i) = Merge(f, i)[k].num_pages
  BY <1>1, <1>2, Freed
<1> HIDE DEF f
<1>7. PICK k \in 1 .. Len(area_list') :
        /\ area_list'[k].state = "FREE" /\ PagesOf(area_list[i]) \subseteq PagesOf(area_list'[k])
        /\ free_num_pages' = free_num_pages + area_list'[k].num_pages
  BY <1>3, <1>4
<1>5. /\ Held(area_list') = Held(area_list) \ PagesOf(area_list[i])
      /\ PagesOf(area_list[i]) \subseteq Held(area_list)
      /\ Block(area_list[i]) \in BlocksOf(area_list)
  BY <1>1, <1>2, <1>3, <1>4, HeldFreed
<1>6. /\ area_list[i].addr \in Int /\ area_list[i].num_pages \in Nat \ {0}
      /\ Interval(area_list[i].addr, area_list[i].num_pages) = PagesOf(area_list[i])
  BY <1>2, AreaFacts DEF Interval, End
<1> QED BY <1>1, <1>2, <1>3, <1>4, <1>5, <1>6, <1>7

LEMMA HeldNext == HeldInv /\ [Next]_vars => HeldInv'
<1> SUFFICES ASSUME HeldInv, [Next]_vars PROVE HeldInv'
  OBVIOUS
<1>0. Inv /\ Mapped /\ free_num_pages \in Int /\ Inv'
  BY NextInv DEF HeldInv
<1>1. CASE Free
  <2>1. PICK i \in 1 .. Len(area_list), k \in 1 .. Len(area_list') :
          LET a == area_list[i].addr
              n == area_list[i].num_pages
          IN  /\ a \in Int /\ n \in Nat \ {0}
              /\ Interval(a, n) = PagesOf(area_list[i]) /\ Interval(a, n) \subseteq Held(area_list)
              /\ Held(area_list') = Held(area_list) \ Interval(a, n)
              /\ free_num_pages' = free_num_pages + area_list'[k].num_pages
              /\ entry' = Unmap(area_list[i])
    BY <1>0, <1>1, Given
  <2>2. free_num_pages' \in Int
    <3>1. area_list'[k].num_pages \in Nat
      BY <1>0, AreaFacts DEF Inv
    <3> QED BY <1>0, <2>1, <3>1
  <2>3. next_frame' = next_frame
    BY <1>1 DEF Free
  <2>4. Mapped'
    BY <1>0, <2>1, <2>3, MappedFreed DEF Unmap
  <2> QED BY <1>0, <2>2, <2>4 DEF HeldInv
<1>2. ASSUME NEW n \in 0 .. MaxPages, Palloc(n) PROVE HeldInv'
  <2>1. CASE PallocFails(n)
    BY <1>0, <2>1 DEF PallocFails, HeldInv, Mapped
  <2>2. ASSUME n > 0, NEW i \in DOMAIN area_list, Sufficient(i, n), PallocFrom(i, n) PROVE HeldInv'
    <3>1. n \in Nat \ {0}
      BY <1>2, <2>2, HeapAssumption
    <3> PICK a : a = area_list[i].addr
      OBVIOUS
    <3>2. /\ a \in Int /\ Interval(a, n) \subseteq Heap /\ Interval(a, n) \cap Held(area_list) = {}
          /\ Held(area_list') = Held(area_list) \cup Interval(a, n)
          /\ PagesOf(area_list'[i]) = Interval(a, n) /\ area_list'[i].addr = a
      BY <1>0, <2>2, <3>1, Granted
    <3>3. PICK nodes \in {0, 1} :
            /\ entry' = MapFrom(area_list'[i], nodes + 1)
            /\ next_frame' = FrameAfter(nodes + n + 1)
            /\ free_num_pages' = free_num_pages - n
      BY <2>2 DEF PallocFrom
    <3>4. entry' = [p \in Heap |-> IF p \in Interval(a, n) THEN FrameAfter(nodes + 1 + p - a)
                                   ELSE entry[p]]
      BY <3>2, <3>3 DEF MapFrom
    <3>5. Takes(a, n, nodes)
      BY <3>2, <3>3, <3>4 DEF Takes
    <3>6. Mapped'
      BY <1>0, <3>1, <3>2, <3>5, MappedServed
    <3>7. free_num_pages' \in Int
      BY <1>0, <3>1, <3>3
    <3> QED BY <1>0, <3>6, <3>7 DEF HeldInv
  <2>3. ASSUME NEW i \in DOMAIN area_list, PallocWild(i, n) PROVE HeldInv'
    BY <1>0, <2>3 DEF PallocWild, HeldInv, Mapped
  <2> QED BY <1>2, <2>1, <2>2, <2>3 DEF Palloc
<1>3. CASE UNCHANGED vars
  BY <1>0, <1>3 DEF vars, HeldInv, Mapped
<1> QED BY <1>1, <1>2, <1>3 DEF Next

LEMMA HeldAlways == Spec => []HeldInv
BY HeldInit, HeldNext, PTL DEF Spec

\* vmm_map_area and vmm_unmap_area: a page is mapped exactly while a block it belongs to is
\* in use, and to a frame of its own for as long as pmm_palloc has any.
THEOREM EveryBlockBacked == Spec => []Backed
<1>1. HeldInv => Backed
  <2> SUFFICES ASSUME HeldInv, NEW p \in Heap
               PROVE  /\ entry[p] # Unmapped <=>
                           \E i \in DOMAIN area_list :
                             area_list[i].state = "ALLOCATED" /\ p \in PagesOf(area_list[i])
                      /\ entry[p] = 0 => next_frame = 0
                      /\ \A q \in Heap \ {p} : entry[p] = entry[q] => entry[p] \in {Unmapped, 0}
    BY DEF Backed
  <2>1. DOMAIN area_list = 1 .. Len(area_list) /\ Mapped
    BY AreaFacts DEF HeldInv, Inv
  <2>2. p \in Held(area_list) <=> \E i \in DOMAIN area_list :
                                    area_list[i].state = "ALLOCATED" /\ p \in PagesOf(area_list[i])
    BY <2>1 DEF Held
  <2>3. entry[p] = 0 => next_frame = 0
    BY <2>1 DEF Mapped, Unmapped
  <2> QED BY <2>1, <2>2, <2>3 DEF Mapped
<1> QED BY <1>1, HeldAlways, PTL

LEMMA FreeAre ==
  ASSUME Inv
  PROVE  FreePages = Heap \ Held(area_list)
<1>1. Tiles(area_list) /\ DOMAIN area_list = 1 .. Len(area_list)
      /\ \A i \in 1 .. Len(area_list) : area_list[i].state \in {"FREE", "ALLOCATED"}
  BY AreaFacts DEF Inv
<1>2. ASSUME NEW p \in FreePages PROVE p \in Heap \ Held(area_list)
  <2>1. PICK i \in 1 .. Len(area_list) : area_list[i].state = "FREE" /\ p \in PagesOf(area_list[i])
    BY <1>1 DEF FreePages, IsFree
  <2> QED BY <1>1, <2>1, FreeNotHeld DEF FreePages
<1>3. ASSUME NEW p \in Heap \ Held(area_list) PROVE p \in FreePages
  <2>1. PICK i \in 1 .. Len(area_list) : p \in PagesOf(area_list[i])
    BY <1>1, Covered
  <2>2. area_list[i].state = "FREE"
    BY <1>1, <2>1 DEF Held
  <2> QED BY <1>1, <2>1, <2>2 DEF FreePages, IsFree
<1> QED BY <1>2, <1>3

LEMMA FreeAreNext ==
  ASSUME Inv'
  PROVE  FreePages' = Heap \ Held(area_list')
<1>1. Tiles(area_list') /\ DOMAIN area_list' = 1 .. Len(area_list')
      /\ \A i \in 1 .. Len(area_list') : area_list'[i].state \in {"FREE", "ALLOCATED"}
  BY AreaFacts DEF Inv
<1>2. ASSUME NEW p \in FreePages' PROVE p \in Heap \ Held(area_list')
  <2>1. PICK i \in 1 .. Len(area_list') : area_list'[i].state = "FREE" /\ p \in PagesOf(area_list'[i])
    BY <1>1 DEF FreePages, IsFree
  <2> QED BY <1>1, <2>1, FreeNotHeld DEF FreePages
<1>3. ASSUME NEW p \in Heap \ Held(area_list') PROVE p \in FreePages'
  <2>1. PICK i \in 1 .. Len(area_list') : p \in PagesOf(area_list'[i])
    BY <1>1, Covered
  <2>2. area_list'[i].state = "FREE"
    BY <1>1, <2>1 DEF Held
  <2> QED BY <1>1, <2>1, <2>2 DEF FreePages, IsFree
<1> QED BY <1>2, <1>3

\* What a step makes of the count.
Drifts ==
  free_num_pages' - free_num_pages =
    Cardinality(FreePages') - Cardinality(FreePages) + Cardinality(CountedAgain)

LEMMA Kept ==
  ASSUME free_num_pages \in Int, free_num_pages' = free_num_pages, area_list' = area_list
  PROVE  Drifts
<1>1. FreePages' = FreePages /\ CountedAgain = {}
  BY DEF FreePages, CountedAgain, IsFree
<1>2. Cardinality(FreePages) \in Nat /\ Cardinality({}) = 0
  <2>1. FreePages \subseteq Heap
    BY DEF FreePages
  <2> QED BY <2>1, HeapFinite, FS_Subset, FS_CardinalityType, FS_EmptySet
<1> QED BY <1>1, <1>2 DEF Drifts

\* The area that vmm_free leaves holds the block's pages and those of the free neighbours.
LEMMA FreeDrifts ==
  ASSUME HeldInv, Inv', Free
  PROVE  Drifts
<1>1. PICK i \in 1 .. Len(area_list), k \in 1 .. Len(area_list') :
        LET a == area_list[i].addr
            n == area_list[i].num_pages
        IN  /\ a \in Int /\ n \in Nat \ {0}
            /\ Interval(a, n) \subseteq Held(area_list)
            /\ Held(area_list') = Held(area_list) \ Interval(a, n)
            /\ area_list'[k].state = "FREE" /\ Interval(a, n) \subseteq PagesOf(area_list'[k])
            /\ free_num_pages' = free_num_pages + area_list'[k].num_pages
  BY Given DEF HeldInv
<1>2. PICK a \in Int, n \in Nat \ {0} : a = area_list[i].addr /\ n = area_list[i].num_pages
  BY <1>1
<1> DEFINE I == Interval(a, n)
           P == PagesOf(area_list'[k])
           m == area_list'[k].num_pages
<1>3. /\ I \subseteq Held(area_list) /\ Held(area_list') = Held(area_list) \ I
      /\ area_list'[k].state = "FREE" /\ I \subseteq P /\ free_num_pages' = free_num_pages + m
  BY <1>1, <1>2
<1>4. Inv /\ free_num_pages \in Int /\ Tiles(area_list') /\ DOMAIN area_list' = 1 .. Len(area_list')
  BY AreaFacts DEF HeldInv, Inv
<1>5. FreePages = Heap \ Held(area_list) /\ FreePages' = Heap \ Held(area_list')
  BY <1>4, FreeAre, FreeAreNext
<1>6. m \in Nat \ {0} /\ P = Interval(area_list'[k].addr, m) /\ area_list'[k].addr \in Int /\ P \subseteq Heap
  BY <1>4, AreaFacts, Disjoint DEF Interval, End
<1>7. IsFiniteSet(P) /\ Cardinality(P) = m /\ Cardinality(I) = n
  BY <1>6, IntervalCard
<1>8. P \cap Held(area_list') = {}
  BY <1>3, <1>4, FreeNotHeld
<1>9. a \in I
  BY <1>2 DEF Interval
<1>10. FreePages' \ FreePages = I
  BY <1>3, <1>5 DEF Held
<1>11. CountedAgain = P \ I
  <2>1. ASSUME NEW p \in P \ I PROVE p \in CountedAgain
    <3>1. p \in FreePages
      BY <1>3, <1>5, <1>6, <1>8
    <3>2. PagesOf(area_list'[k]) \cap I # {} /\ p \in PagesOf(area_list'[k]) /\ k \in DOMAIN area_list'
      BY <1>3, <1>4, <1>9
    <3> QED BY <1>10, <3>1, <3>2 DEF CountedAgain
  <2>2. ASSUME NEW p \in CountedAgain PROVE p \in P \ I
    <3>1. p \in FreePages /\ p \notin I
      BY <1>3, <1>5 DEF CountedAgain
    <3>2. PICK j \in 1 .. Len(area_list') : p \in PagesOf(area_list'[j]) /\ PagesOf(area_list'[j]) \cap I # {}
      BY <1>4, <1>10 DEF CountedAgain
    <3>3. PICK q \in I : q \in PagesOf(area_list'[j]) /\ q \in PagesOf(area_list'[k])
      BY <1>3, <3>2
    <3>4. j = k
      BY <1>4, <3>3, Disjoint
    <3> QED BY <3>1, <3>2, <3>4
  <2> QED BY <2>1, <2>2
<1>12. Cardinality(FreePages') = Cardinality(FreePages) + n
  BY <1>2, <1>3, <1>5, FreeFreed
<1>13. Cardinality(FreePages) \in Nat
  <2>1. FreePages \subseteq Heap
    BY <1>5
  <2> QED BY <2>1, HeapFinite, FS_Subset, FS_CardinalityType
<1> HIDE DEF I, P, m
<1>14. Cardinality(CountedAgain) = m - n
  <2>1. P \cap I = I
    BY <1>3
  <2> QED BY <1>7, <1>11, <2>1, FS_Difference
<1> QED BY <1>2, <1>3, <1>4, <1>6, <1>12, <1>13, <1>14 DEF Drifts

LEMMA GrantDrifts ==
  ASSUME HeldInv, Inv', NEW n \in Nat \ {0}, NEW i \in DOMAIN area_list, Sufficient(i, n), PallocFrom(i, n)
  PROVE  Drifts
<1> PICK a : a = area_list[i].addr
  OBVIOUS
<1>1. /\ a \in Int /\ Interval(a, n) \subseteq Heap /\ Interval(a, n) \cap Held(area_list) = {}
      /\ Held(area_list') = Held(area_list) \cup Interval(a, n)
  BY Granted DEF HeldInv
<1>2. Inv /\ free_num_pages \in Int /\ free_num_pages' = free_num_pages - n
  BY DEF HeldInv, PallocFrom
<1>3. FreePages = Heap \ Held(area_list) /\ FreePages' = Heap \ Held(area_list')
  BY <1>2, FreeAre, FreeAreNext
<1>4. FreePages' \ FreePages = {}
  BY <1>1, <1>3
<1>5. CountedAgain = {}
  BY <1>4 DEF CountedAgain
<1>6. Cardinality(FreePages') = Cardinality(FreePages) - n
  BY <1>1, <1>3, FreeServed
<1>7. Cardinality(FreePages) \in Nat /\ Cardinality({}) = 0
  <2>1. FreePages \subseteq Heap
    BY <1>3
  <2> QED BY <2>1, HeapFinite, FS_Subset, FS_CardinalityType, FS_EmptySet
<1> QED BY <1>2, <1>5, <1>6, <1>7 DEF Drifts

\* What vmm_palloc and vmm_free make of free_num_pages, step by step, in every heap: it
\* moves with the free pages, but that each free adds its free neighbours' pages once more.
THEOREM CountDrifts == Spec => CountsNeighboursAgain
<1>1. HeldInv /\ [Next]_vars => [Drifts]_vars
  <2> SUFFICES ASSUME HeldInv, [Next]_vars PROVE [Drifts]_vars
    OBVIOUS
  <2>1. Inv' /\ free_num_pages \in Int
    BY NextInv DEF HeldInv
  <2>2. CASE Free
    BY <2>1, <2>2, FreeDrifts
  <2>3. ASSUME NEW n \in 0 .. MaxPages, Palloc(n) PROVE Drifts
    <3>1. CASE PallocFails(n)
      BY <2>1, <3>1, Kept DEF PallocFails
    <3>2. ASSUME n > 0, NEW i \in DOMAIN area_list, Sufficient(i, n), PallocFrom(i, n) PROVE Drifts
      <4>1. n \in Nat \ {0}
        BY <2>3, <3>2, HeapAssumption
      <4> QED BY <2>1, <3>2, <4>1, GrantDrifts
    <3>3. ASSUME NEW i \in DOMAIN area_list, PallocWild(i, n) PROVE Drifts
      BY <2>1, <3>3, Kept DEF PallocWild
    <3> QED BY <2>3, <3>1, <3>2, <3>3 DEF Palloc
  <2> QED BY <2>2, <2>3 DEF Next
<1> QED BY <1>1, HeldAlways, PTL DEF Spec, CountsNeighboursAgain, Drifts
-----------------------------------------------------------------------------
(* Refinement.                                                             *)

LEMMA BlocksAre ==
  ASSUME NEW s, Tiles(s)
  PROVE  {[addr |-> s[i].addr, num_pages |-> s[i].num_pages] :
            i \in {j \in DOMAIN s : s[j].state = "ALLOCATED"}} = BlocksOf(s)
BY AreaFacts DEF BlocksOf, Block

LEMMA InUseHeld ==
  ASSUME Inv
  PROVE  Abstract!InUse = Held(area_list)
<1>1. Tiles(area_list) /\ Blocks = BlocksOf(area_list)
  BY BlocksAre DEF Inv, Blocks
<1>2. ASSUME NEW b \in BlocksOf(area_list)
      PROVE  Abstract!Pages(b) = Interval(b.addr, b.num_pages) /\ Abstract!Pages(b) \subseteq Heap
  <2>1. PICK j \in 1 .. Len(area_list) : b = Block(area_list[j])
    BY DEF BlocksOf
  <2>2. b.addr = area_list[j].addr /\ b.num_pages = area_list[j].num_pages
    BY <2>1 DEF Block
  <2>3. b.addr \in Int /\ b.num_pages \in Nat /\ Abstract!Pages(b) = PagesOf(area_list[j])
    BY <1>1, <2>2, AreaFacts DEF Abstract!Pages, PagesOf
  <2>4. Abstract!Pages(b) = Interval(b.addr, b.num_pages)
    BY <2>3 DEF Abstract!Pages, Interval
  <2> QED BY <1>1, <2>3, <2>4, Disjoint
<1>3. \A p \in Heap : p \in Held(area_list) <=>
        \E b \in BlocksOf(area_list) : p \in Interval(b.addr, b.num_pages)
  BY <1>1, HeldBlocks
<1>4. \A p : p \in Abstract!InUse <=> \E b \in BlocksOf(area_list) : p \in Abstract!Pages(b)
  BY <1>1 DEF Abstract!InUse
<1>5. Held(area_list) \subseteq Heap
  BY DEF Held
<1> QED BY <1>2, <1>3, <1>4, <1>5

\* Where n pages fit there is one free area that holds them all: its neighbours are in
\* use.
LEMMA FitsFree ==
  ASSUME Inv, NEW n \in Nat \ {0}, NEW a \in Abstract!Fits(n)
  PROVE  \E k \in 1 .. Len(area_list) : Sufficient(k, n) /\ area_list[k].addr <= a
<1>1. /\ Tiles(area_list) /\ Len(area_list) \in Nat
      /\ End(area_list[Len(area_list)]) = Start + HeapPages
      /\ \A j \in 1 .. Len(area_list) :
           /\ area_list[j].addr \in Int /\ area_list[j].num_pages \in Nat
           /\ area_list[j].state \in {"FREE", "ALLOCATED"}
           /\ End(area_list[j]) = area_list[j].addr + area_list[j].num_pages
           /\ area_list[j].addr < End(area_list[j])
           /\ PagesOf(area_list[j]) = {p \in Int : area_list[j].addr <= p /\ p < End(area_list[j])}
           /\ j < Len(area_list) => area_list[j + 1].addr = End(area_list[j])
  BY AreaFacts DEF Inv, End
<1>2. a \in Heap /\ a \in Int /\ \A p \in Int : a <= p /\ p < a + n => p \in Heap \ Held(area_list)
  <2>1. a \in Heap /\ a .. a + n - 1 \subseteq Heap \ Held(area_list)
    BY InUseHeld DEF Abstract!Fits
  <2>2. a \in Int
    BY <2>1, HeapAssumption DEF Heap
  <2> QED BY <2>1, <2>2
<1>3. PICK k \in 1 .. Len(area_list) : a \in PagesOf(area_list[k])
  BY <1>1, <1>2, Covered
<1>4. area_list[k].addr <= a /\ a < End(area_list[k]) /\ a \notin Held(area_list)
  BY <1>1, <1>2, <1>3
<1>5. area_list[k].state = "FREE"
  BY <1>1, <1>2, <1>3, <1>4 DEF Held
<1>6. a + n <= End(area_list[k])
  <2>1. SUFFICES ASSUME ~(a + n <= End(area_list[k])) PROVE FALSE
    OBVIOUS
  <2>2. PICK e \in Int : e = End(area_list[k])
    BY <1>1
  <2>3. e \in Heap /\ e \notin Held(area_list)
    BY <1>1, <1>2, <1>4, <2>1, <2>2
  <2>4. k < Len(area_list)
    BY <1>1, <2>2, <2>3, HeapAssumption DEF Heap
  <2>5. PICK m \in 1 .. Len(area_list) : m = k + 1
    BY <1>1, <2>4
  <2>6. e \in PagesOf(area_list[m])
    <3>1. area_list[m].addr = e
      BY <1>1, <2>2, <2>4, <2>5
    <3>2. area_list[m].addr < End(area_list[m])
      BY <1>1
    <3>3. PagesOf(area_list[m]) = {p \in Int : area_list[m].addr <= p /\ p < End(area_list[m])}
      BY <1>1
    <3> QED BY <2>2, <3>1, <3>2, <3>3
  <2>7. area_list[m].state = "FREE"
    BY <1>1, <2>3, <2>6 DEF Held
  <2>8. k \in (1 .. Len(area_list) - 1) \ {}
    BY <1>1, <2>4
  <2> QED BY <1>5, <2>5, <2>7, <2>8 DEF Inv, Apart
<1>7. area_list[k].num_pages >= n
  BY <1>1, <1>2, <1>4, <1>6
<1> QED BY <1>4, <1>5, <1>7 DEF Sufficient

LEMMA FreeFits ==
  ASSUME Inv, NEW n \in Nat \ {0}, NEW k \in 1 .. Len(area_list), Sufficient(k, n)
  PROVE  area_list[k].addr \in Abstract!Fits(n)
<1>1. /\ Tiles(area_list) /\ area_list[k].addr \in Int /\ area_list[k].num_pages \in Nat
      /\ area_list[k].num_pages >= n /\ area_list[k].state = "FREE"
  BY AreaFacts DEF Inv, Sufficient
<1>2. /\ PagesOf(area_list[k]) \subseteq Heap /\ area_list[k].addr \in Heap
      /\ PagesOf(area_list[k]) \cap Held(area_list) = {}
  BY <1>1, Disjoint, FreeNotHeld
<1>3. area_list[k].addr .. area_list[k].addr + n - 1 \subseteq PagesOf(area_list[k])
  BY <1>1 DEF PagesOf
<1> QED BY <1>2, <1>3, InUseHeld DEF Abstract!Fits

\* The first sufficient area of the list is where n pages fit lowest.
LEMMA Lowest ==
  ASSUME Inv, NEW n \in Nat \ {0}, NEW i \in 1 .. Len(area_list), Sufficient(i, n),
         \A j \in 1 .. i - 1 : ~Sufficient(j, n)
  PROVE  Abstract!Min(Abstract!Fits(n)) = area_list[i].addr
<1>1. area_list[i].addr \in Abstract!Fits(n)
  BY FreeFits
<1>2. ASSUME NEW a \in Abstract!Fits(n) PROVE a \in Int /\ area_list[i].addr <= a
  <2>1. PICK k \in 1 .. Len(area_list) : Sufficient(k, n) /\ area_list[k].addr <= a
    BY FitsFree
  <2>2. /\ a \in Int /\ Tiles(area_list) /\ Len(area_list) \in Nat
        /\ \A j \in 1 .. Len(area_list) : /\ area_list[j].addr \in Int /\ End(area_list[j]) \in Int
                                          /\ area_list[j].addr < End(area_list[j])
    BY AreaFacts, HeapAssumption DEF Inv, Abstract!Fits, Heap
  <2>3. i = k \/ i < k
    <3>1. k \notin 1 .. i - 1
      BY <2>1
    <3> QED BY <2>2, <3>1
  <2>4. i < k => End(area_list[i]) <= area_list[k].addr
    BY <2>2, Ordered
  <2> QED BY <2>1, <2>2, <2>3, <2>4
<1>3. \A a \in Abstract!Fits(n) : (\A b \in Abstract!Fits(n) : a <= b) => a = area_list[i].addr
  BY <1>1, <1>2
<1> QED BY <1>1, <1>2, <1>3 DEF Abstract!Min

\* A call of vmm_palloc or vmm_free is a step of the block allocator, or none.
LEMMA StepRefines == Inv /\ [Next]_vars => [Abstract!Next]_<<Blocks, ret>>
<1> SUFFICES ASSUME Inv, [Next]_vars PROVE [Abstract!Next]_<<Blocks, ret>>
  OBVIOUS
<1>1. Inv' /\ Blocks = BlocksOf(area_list) /\ Blocks' = BlocksOf(area_list')
  <2>1. Tiles(area_list) /\ Tiles(area_list') /\ Inv'
    BY NextInv DEF Inv
  <2> QED BY <2>1, BlocksAre DEF Blocks
<1>2. CASE Free
  <2>1. PICK i \in 1 .. Len(area_list) :
          /\ Block(area_list[i]) \in BlocksOf(area_list)
          /\ BlocksOf(area_list') = BlocksOf(area_list) \ {Block(area_list[i])}
    BY <1>2, Given
  <2>2. ret' = ret
    BY <1>2 DEF Free
  <2> QED BY <1>1, <2>1, <2>2 DEF Abstract!Next, Abstract!Release
<1>3. ASSUME NEW n \in 0 .. MaxPages, Palloc(n) PROVE [Abstract!Next]_<<Blocks, ret>>
  <2>1. CASE PallocFails(n)
    <3>1. n = 0 \/ Abstract!Fits(n) = {}
      <4>1. ASSUME n # 0, NEW a \in Abstract!Fits(n) PROVE FALSE
        <5>1. n \in Nat \ {0} /\ DOMAIN area_list = 1 .. Len(area_list)
          BY <4>1, HeapAssumption, AreaFacts DEF Inv
        <5>2. PICK k \in 1 .. Len(area_list) : Sufficient(k, n)
          BY <5>1, FitsFree
        <5> QED BY <2>1, <4>1, <5>1, <5>2 DEF PallocFails
      <4> QED BY <4>1
    <3>2. ret' = 0 /\ Blocks' = Blocks
      BY <1>1, <2>1 DEF PallocFails
    <3> QED BY <3>1, <3>2 DEF Abstract!Next, Abstract!Refuse
  <2>2. ASSUME n > 0, NEW i \in DOMAIN area_list, Sufficient(i, n),
               \A j \in 1 .. i - 1 : ~Sufficient(j, n), PallocFrom(i, n)
        PROVE  [Abstract!Next]_<<Blocks, ret>>
    <3>1. n \in Nat \ {0} /\ i \in 1 .. Len(area_list)
      BY <2>2, HeapAssumption, AreaFacts DEF Inv
    <3>2. BlocksOf(area_list') = BlocksOf(area_list) \cup {[addr |-> area_list[i].addr, num_pages |-> n]}
      BY <2>2, <3>1, Granted
    <3>3. ret' = area_list[i].addr
      BY <2>2 DEF PallocFrom
    <3>4. Abstract!Min(Abstract!Fits(n)) = area_list[i].addr /\ Abstract!Fits(n) # {}
      BY <2>2, <3>1, Lowest, FreeFits
    <3>5. Abstract!Grant(n)
      BY <1>1, <3>1, <3>2, <3>3, <3>4 DEF Abstract!Grant
    <3> QED BY <3>5 DEF Abstract!Next
  <2>3. ASSUME NEW i \in DOMAIN area_list, PallocWild(i, n) PROVE [Abstract!Next]_<<Blocks, ret>>
    BY <1>1, <2>3 DEF PallocWild
  <2> QED BY <1>3, <2>1, <2>2, <2>3 DEF Palloc
<1>4. CASE UNCHANGED vars
  BY <1>1, <1>4 DEF vars
<1> QED BY <1>2, <1>3, <1>4 DEF Next

\* vmm_palloc and vmm_free of vmm.c are the block allocator of HeapBlocks: whatever was
\* allocated and freed before, a request is given the lowest address where it fits, and is
\* refused only if it fits nowhere, because frees leave no two free areas side by side.
THEOREM Refinement == Spec => ImplementsBlocks
<1>1. Init => Abstract!Init
  <2> SUFFICES ASSUME Init PROVE Abstract!Init
    OBVIOUS
  <2>1. Blocks = {}
    BY DEF Init, Blocks
  <2> QED BY <2>1 DEF Init, Abstract!Init
<1>2. Inv /\ [Next]_vars => [Abstract!Next]_<<Blocks, ret>>
  BY StepRefines
<1> QED BY <1>1, <1>2, InitInv, NextInv, PTL DEF Spec, ImplementsBlocks, Abstract!Spec, Abstract!vars
=============================================================================
