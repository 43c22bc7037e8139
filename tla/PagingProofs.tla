----------------------------- MODULE PagingProofs -----------------------------
(* Proofs about Paging: what pt_map and pt_unmap do to the tables, and that  *)
(* the kernel reaches its tables and its memory and the processor holds no   *)
(* old translation, for every size of table, memory map and number of tasks. *)
EXTENDS Paging, TLAPS, WellFoundedInduction

Page == 0 .. Top - 1
Memory == PoolFrames \cup {0}
Entry == [to : Int, flags : SUBSET {"P", "W", "U", "PAT", "WT"}]
Taken(n) == {Pool[k] : k \in {j \in 1 .. Len(Pool) : j <= n}}

-----------------------------------------------------------------------------
(* The inductive invariant.                                                *)

Types ==
  /\ mem \in [Memory -> [Index -> Entry]] /\ next \in Nat
  /\ pt \in Memory /\ cr3 \in {0, pt} \cup Range(users)
  /\ loop \in 1 .. Len(StartMaps) + 1
  /\ users \in Seq(PoolFrames) /\ Range(users) \subseteq Taken(next)
  /\ wild \in BOOLEAN
  /\ \A x \in stale : x.page \in Page

\* Before kmain has created its table.
NothingYet ==
  pt = 0 => /\ cr3 = 0 /\ loop = 1 /\ areas = {} /\ call = NoCall /\ users = <<>>
            /\ stale = {}

\* A table's entries are empty or each lead to a table of its own, one level down.
\* level gives the kernel's tables 4 to 1 and all else 0.
TableFlags == {"P", "W", "U"}

Leveled(m, n, level) ==
  /\ m \in [Memory -> [Index -> Entry]] /\ level \in [Memory -> 0 .. 4]
  /\ \A f \in Memory : level[f] # 0 => f \in Taken(n)
  /\ \A t \in Memory : level[t] >= 2 =>
       \A i \in Index : \/ m[t][i] = None
                        \/ /\ m[t][i].flags = TableFlags /\ m[t][i].to \in Memory
                           /\ level[m[t][i].to] = level[t] - 1
  /\ \A t, u \in Memory : level[t] >= 2 /\ level[u] >= 2 =>
       \A i, j \in Index : Present(m[t][i]) /\ Present(m[u][j]) /\ m[t][i].to = m[u][j].to =>
         t = u /\ i = j

Tree(level) ==
  /\ Leveled(mem, next, level) /\ level[pt] = 4
  /\ \A u \in Range(users) : level[u] = 0

\* A task's table has entries of the kernel's, among them those of the boot's pages.
Views ==
  \A u \in Range(users) :
    /\ \A i \in Index : mem[u][i] = None \/ (Present(mem[u][i]) /\ mem[u][i] = mem[pt][i])
    /\ \A k \in 1 .. Len(BootMaps) : Present(mem[u][Pt4(StartMaps[k].page)])

\* The areas are in the heap and do not overlap, and one of them is the call's.
Areas ==
  /\ \A a \in areas : /\ a \in [addr : Int, num_pages : Nat \ {0}]
                      /\ PagesOf(a) \subseteq Heap
                      /\ \A b \in areas : b # a => PagesOf(a) \cap PagesOf(b) = {}
  /\ \/ call = NoCall
     \/ /\ call \in [op : {"map", "unmap", "invplg"}, addr : Int, num_pages : Nat, i : Nat]
        /\ call.i < call.num_pages
        /\ [addr |-> call.addr, num_pages |-> call.num_pages] \in areas

\* The pages of the call's area that lead nowhere: yet, or any more.
Pending ==
  {v \in call.addr .. call.addr + call.num_pages - 1 :
     \/ call.op = "map" /\ v >= call.addr + call.i
     \/ call.op = "unmap" /\ v < call.addr + call.i
     \/ call.op = "invplg" /\ v <= call.addr + call.i}

Mapped == {v \in Heap : (\E a \in areas : v \in PagesOf(a)) /\ v \notin Pending}

\* Elsewhere there is what kmain mapped, and all it mapped before the swap.
Contents ==
  /\ \A v \in Page \ Mapped : Walk(mem, pt, v) = None \/ [page |-> v, to |-> Walk(mem, pt, v)] \in Range(StartMaps)
  /\ ~wild => \A v \in Mapped : Present(Walk(mem, pt, v))
  /\ cr3 # 0 \/ ~wild =>
       \A k \in 1 .. Len(BootMaps) : k < loop => Present(Walk(mem, pt, StartMaps[k].page))

Order ==
  /\ cr3 # 0 => loop > Len(BootMaps)
  /\ cr3 = 0 => stale = {}
  /\ loop > Len(BootMaps) + 1 => cr3 # 0
  /\ ~Started => areas = {} /\ call = NoCall /\ users = <<>>

Inv ==
  /\ Types /\ NothingYet /\ Areas /\ Order /\ TlbCoherent
  /\ pt # 0 => (\E level \in [Memory -> 0 .. 4] : Tree(level)) /\ Views /\ Contents
-----------------------------------------------------------------------------
(* Numbers.                                                                *)

LEMMA DivMod ==
  ASSUME NEW a \in Nat, NEW d \in Nat \ {0}
  PROVE  a \div d \in Nat /\ a % d \in 0 .. d - 1 /\ a = d * (a \div d) + (a % d)
OBVIOUS

LEMMA DivBelow ==
  ASSUME NEW a \in Nat, NEW d \in Nat \ {0}, NEW b \in Nat, a < b * d
  PROVE  a \div d < b
<1> DEFINE q == a \div d
<1>1. q \in Nat /\ d * q <= a
  BY DivMod
<1> HIDE DEF q
<1>2. ASSUME q >= b PROVE FALSE
  <2>1. d * q >= d * b
    BY <1>1, <1>2
  <2> QED BY <1>1, <2>1
<1> QED BY <1>1, <1>2 DEF q

LEMMA ModBelow ==
  ASSUME NEW d \in Nat \ {0}, NEW a \in 0 .. d - 1
  PROVE  a % d = a
OBVIOUS

LEMMA PageNat == Top \in Nat /\ \A v \in Page : v \in Nat /\ v < Top
<1>1. Top \in Nat
  BY PagingAssumption DEF Top
<1> QED BY <1>1 DEF Page

LEMMA IndexFacts ==
  ASSUME NEW v \in Nat
  PROVE  /\ Up(v) \in Nat
         /\ Pt1(v) \in Index /\ Pt2(v) \in Index /\ Pt3(v) \in Index /\ Pt4(v) \in Index
<1>1. Fanout \in Nat \ {0}
  BY PagingAssumption
<1>2. \A a \in Nat : Up(a) \in Nat /\ a % Fanout \in Index
  BY <1>1, DivMod DEF Up, Index
<1> QED BY <1>2 DEF Pt1, Pt2, Pt3, Pt4

\* A page is its four indices.
LEMMA PageFacts ==
  ASSUME NEW v \in Page, NEW w \in Page,
         Pt1(v) = Pt1(w), Pt2(v) = Pt2(w), Pt3(v) = Pt3(w), Pt4(v) = Pt4(w)
  PROVE  v = w
<1>1. /\ Fanout \in Nat \ {0} /\ v \in Nat /\ w \in Nat
      /\ \A a \in Nat : Up(a) \in Nat /\ a = Fanout * Up(a) + (a % Fanout)
  <2>1. Fanout \in Nat \ {0} /\ v \in Nat /\ w \in Nat
    BY PagingAssumption, PageNat
  <2> QED BY <2>1, DivMod DEF Up
<1>2. ASSUME NEW a \in Nat, NEW b \in Nat, Up(a) = Up(b), a % Fanout = b % Fanout PROVE a = b
  BY <1>1, <1>2
<1>3. ASSUME NEW a \in Page PROVE Up(Up(Up(a))) % Fanout = Up(Up(Up(a)))
  <2>1. /\ Fanout * Fanout * Fanout \in Nat /\ Fanout * Fanout \in Nat
        /\ a \in Nat /\ a < (Fanout * Fanout * Fanout) * Fanout
    <3>1. Fanout * Fanout \in Nat
      BY <1>1
    <3>2. Fanout * Fanout * Fanout \in Nat
      BY <1>1, <3>1
    <3> QED BY <3>1, <3>2, PageNat DEF Top
  <2>2. Up(a) \in Nat /\ Up(a) < (Fanout * Fanout) * Fanout
    BY <1>1, <2>1, DivBelow DEF Up
  <2>3. Up(Up(a)) \in Nat /\ Up(Up(a)) < Fanout * Fanout
    BY <1>1, <2>1, <2>2, DivBelow DEF Up
  <2>4. Up(Up(Up(a))) \in Nat /\ Up(Up(Up(a))) < Fanout
    BY <1>1, <2>3, DivBelow DEF Up
  <2> QED BY <1>1, <2>4, ModBelow
<1>4. Up(Up(Up(v))) = Up(Up(Up(w)))
  BY <1>3 DEF Pt4
<1>5. Up(Up(v)) = Up(Up(w))
  BY <1>1, <1>2, <1>4 DEF Pt3
<1>6. Up(v) = Up(w)
  BY <1>1, <1>2, <1>5 DEF Pt2
<1> QED BY <1>1, <1>2, <1>6 DEF Pt1

\* The least-number principle, from the well-foundedness of < on Nat.
LEMMA LeastNat ==
  ASSUME NEW T, T \subseteq Nat, T # {}
  PROVE  \E x \in T : \A y \in T : x <= y
<1> DEFINE R == OpToRel(<, Nat)
<1>1. IsWellFoundedOn(R, Nat)
  BY NatLessThanWellFounded
<1>2. \A x, y \in Nat : <<y, x>> \in R <=> y < x
  BY DEF OpToRel
<1> HIDE DEF R
<1>3. PICK x \in T : \A y \in T : ~(<<y, x>> \in R)
  BY <1>1, WFMin
<1>4. ASSUME NEW y \in T PROVE x <= y
  <2>1. x \in Nat /\ y \in Nat
    OBVIOUS
  <2>2. ~(y < x)
    BY <1>2, <1>3, <2>1, Zenon
  <2> QED BY <2>1, <2>2
<1> QED BY <1>4

LEMMA MaxFacts ==
  ASSUME NEW T, T \subseteq Nat, T # {}, NEW b \in Nat, \A x \in T : x <= b
  PROVE  Max(T) \in T /\ \A x \in T : x <= Max(T)
<1> DEFINE U == {k \in Nat : \A x \in T : x <= k}
<1>1. U \subseteq Nat /\ b \in U
  OBVIOUS
<1>2. PICK k \in U : \A j \in U : k <= j
  BY <1>1, LeastNat
<1>3. k \in T
  <2> SUFFICES ASSUME k \notin T PROVE FALSE
    OBVIOUS
  <2>1. PICK x \in T : TRUE
    OBVIOUS
  <2>2. x \in Nat /\ k \in Nat /\ x <= k /\ x # k
    OBVIOUS
  <2>3. k - 1 \in Nat
    BY <2>2
  <2>4. ASSUME NEW y \in T PROVE y <= k - 1
    <3>1. y \in Nat /\ y <= k /\ y # k
      OBVIOUS
    <3> QED BY <2>2, <3>1
  <2>5. k - 1 \in U
    BY <2>3, <2>4
  <2>6. k <= k - 1
    BY <1>2, <2>5
  <2> QED BY <2>2, <2>6
<1>4. \E x \in T : \A y \in T : x >= y
  BY <1>2, <1>3
<1> QED BY <1>4 DEF Max

LEMMA Bounded ==
  ASSUME NEW n \in Nat, NEW h \in [1 .. n -> Nat]
  PROVE  \E b \in Nat : \A i \in 1 .. n : h[i] <= b
<1> DEFINE T == {k \in 0 .. n : ~(\E b \in Nat : \A i \in 1 .. k : h[i] <= b)}
<1> SUFFICES ASSUME T # {} PROVE FALSE
  <2>1. n \in 0 .. n
    OBVIOUS
  <2> QED BY <2>1
<1>1. T \subseteq Nat
  OBVIOUS
<1>2. PICK k \in T : \A j \in T : k <= j
  BY <1>1, LeastNat
<1>3. k # 0
  <2>1. \A i \in 1 .. 0 : h[i] <= 0
    OBVIOUS
  <2> QED BY <2>1
<1>4. k \in Nat /\ k \in 1 .. n /\ k - 1 \in 0 .. n /\ k - 1 \notin T
  <2>1. k \in 0 .. n /\ k \in Nat
    BY <1>1
  <2>2. k \in 1 .. n /\ k - 1 \in 0 .. n /\ ~(k <= k - 1)
    BY <1>3, <2>1
  <2> HIDE DEF T
  <2> QED BY <1>2, <2>1, <2>2
<1>5. PICK b \in Nat : \A i \in 1 .. k - 1 : h[i] <= b
  BY <1>4
<1>6. PICK c \in Nat : b <= c /\ h[k] <= c
  <2>1. PICK d : d = h[k]
    OBVIOUS
  <2>2. d \in Nat
    BY <1>4, <2>1
  <2>3. (b <= d /\ d <= d) \/ (d <= b /\ b <= b)
    BY <2>2
  <2> QED BY <2>1, <2>2, <2>3
<1> HIDE DEF T
<1>7. ASSUME NEW i \in 1 .. k PROVE h[i] <= c
  <2>1. i \in 1 .. k - 1 \/ i = k
    BY <1>4
  <2>2. i \in 1 .. n
    BY <1>4
  <2>3. h[i] \in Nat
    BY <2>2
  <2>4. CASE i = k
    BY <1>6, <2>4
  <2>5. CASE i \in 1 .. k - 1
    BY <1>5, <1>6, <2>3, <2>5
  <2> QED BY <2>1, <2>4, <2>5
<1>8. \E e \in Nat : \A i \in 1 .. k : h[i] <= e
  BY <1>6, <1>7
<1> QED BY <1>8 DEF T

-----------------------------------------------------------------------------
(* Sequences.                                                              *)

LEMMA ConcatRange ==
  ASSUME NEW S, NEW s \in Seq(S), NEW t \in Seq(S)
  PROVE  /\ s \o t \in Seq(S) /\ Len(s \o t) = Len(s) + Len(t)
         /\ \A k \in 1 .. Len(s) : (s \o t)[k] = s[k]
         /\ \A k \in 1 .. Len(t) : (s \o t)[Len(s) + k] = t[k]
         /\ \A y : y \in Range(s \o t) <=> y \in Range(s) \/ y \in Range(t)
<1>1. /\ s \o t \in Seq(S) /\ Len(s \o t) = Len(s) + Len(t) /\ Len(s) \in Nat /\ Len(t) \in Nat
      /\ DOMAIN s = 1 .. Len(s) /\ DOMAIN t = 1 .. Len(t) /\ DOMAIN (s \o t) = 1 .. Len(s) + Len(t)
  OBVIOUS
<1>2. \A k \in 1 .. Len(s) + Len(t) : (s \o t)[k] = IF k <= Len(s) THEN s[k] ELSE t[k - Len(s)]
  OBVIOUS
<1>3. \A k \in 1 .. Len(s) : (s \o t)[k] = s[k]
  BY <1>1, <1>2
<1>4. ASSUME NEW k \in 1 .. Len(t) PROVE (s \o t)[Len(s) + k] = t[k]
  <2>1. Len(s) + k \in 1 .. Len(s) + Len(t) /\ ~(Len(s) + k <= Len(s)) /\ (Len(s) + k) - Len(s) = k
    BY <1>1
  <2> QED BY <1>2, <2>1
<1>5. ASSUME NEW y, y \in Range(s \o t) PROVE y \in Range(s) \/ y \in Range(t)
  <2>1. PICK k \in 1 .. Len(s) + Len(t) : (s \o t)[k] = y
    BY <1>1, <1>5 DEF Range
  <2>2. CASE k <= Len(s)
    BY <1>1, <1>2, <2>1, <2>2 DEF Range
  <2>3. CASE ~(k <= Len(s))
    <3>1. k - Len(s) \in 1 .. Len(t)
      BY <1>1, <2>3
    <3> QED BY <1>1, <1>2, <2>1, <2>3, <3>1 DEF Range
  <2> QED BY <2>2, <2>3
<1>6. ASSUME NEW y, y \in Range(s) PROVE y \in Range(s \o t)
  <2>1. PICK k \in 1 .. Len(s) : s[k] = y
    BY <1>1, <1>6 DEF Range
  <2>2. k \in DOMAIN (s \o t) /\ (s \o t)[k] = y
    BY <1>1, <1>3, <2>1
  <2> QED BY <2>2 DEF Range
<1>7. ASSUME NEW y, y \in Range(t) PROVE y \in Range(s \o t)
  <2>1. PICK k \in 1 .. Len(t) : t[k] = y
    BY <1>1, <1>7 DEF Range
  <2>2. Len(s) + k \in DOMAIN (s \o t) /\ (s \o t)[Len(s) + k] = y
    BY <1>1, <1>4, <2>1
  <2> QED BY <2>2 DEF Range
<1> QED BY <1>1, <1>3, <1>4, <1>5, <1>6, <1>7

\* f is FlattenSeq's function, as far as n.
Flattened(s, n, f) == f = [i \in 1 .. n |-> IF i = 1 THEN s[i] ELSE f[i - 1] \o s[i]]

LEMMA Flattenable ==
  ASSUME NEW S, NEW s \in Seq(Seq(S)), NEW n \in 0 .. Len(s)
  PROVE  \E f : Flattened(s, n, f)
<1> DEFINE T == {k \in 0 .. Len(s) : ~(\E f : Flattened(s, k, f))}
<1> SUFFICES ASSUME T # {} PROVE FALSE
  OBVIOUS
<1>1. Len(s) \in Nat /\ T \subseteq Nat
  OBVIOUS
<1>2. PICK k \in T : \A j \in T : k <= j
  BY <1>1, LeastNat
<1>3. k # 0
  <2>1. Flattened(s, 0, [i \in 1 .. 0 |-> <<>>])
    BY DEF Flattened
  <2> QED BY <2>1
<1>4. k - 1 \in 0 .. Len(s) /\ k - 1 \notin T
  <2>1. k \in 0 .. Len(s) /\ k \in Nat
    BY <1>1
  <2>2. k - 1 \in 0 .. Len(s) /\ ~(k <= k - 1)
    BY <1>1, <1>3, <2>1
  <2> HIDE DEF T
  <2> QED BY <1>2, <2>2
<1>5. PICK f : Flattened(s, k - 1, f)
  BY <1>4
<1> DEFINE h == [i \in 1 .. k |-> IF i < k THEN f[i] ELSE IF i = 1 THEN s[i] ELSE f[i - 1] \o s[i]]
<1>6. k \in Nat \ {0}
  BY <1>1, <1>3
<1>7. \A i \in 1 .. k - 1 : f[i] = IF i = 1 THEN s[i] ELSE f[i - 1] \o s[i]
  BY <1>5, <1>6 DEF Flattened
<1>8. \A i \in 1 .. k : h[i] = IF i < k THEN f[i] ELSE IF i = 1 THEN s[i] ELSE f[i - 1] \o s[i]
  OBVIOUS
<1>9. h = [i \in 1 .. k |-> h[i]]
  OBVIOUS
<1> HIDE DEF h
<1>10. ASSUME NEW i \in 1 .. k PROVE h[i] = IF i = 1 THEN s[i] ELSE h[i - 1] \o s[i]
  <2>1. i # 1 => i - 1 \in 1 .. k - 1 /\ i - 1 < k /\ i - 1 \in 1 .. k
    BY <1>6
  <2>2. i # 1 => h[i - 1] = f[i - 1]
    BY <1>8, <2>1
  <2>3. CASE i < k
    <3>1. i \in 1 .. k - 1
      BY <1>6, <2>3
    <3> QED BY <1>7, <1>8, <2>2, <2>3, <3>1
  <2>4. CASE ~(i < k)
    BY <1>8, <2>2, <2>4
  <2> QED BY <2>3, <2>4
<1>11. Flattened(s, k, h)
  BY <1>9, <1>10 DEF Flattened
<1> QED BY <1>2, <1>11

LEMMA FlattenFacts ==
  ASSUME NEW S, NEW s \in Seq(Seq(S))
  PROVE  /\ FlattenSeq(s) \in Seq(S)
         /\ \A y : y \in Range(FlattenSeq(s)) <=> \E k \in 1 .. Len(s) : y \in Range(s[k])
<1>1. Len(s) \in Nat /\ \A k \in 1 .. Len(s) : s[k] \in Seq(S)
  OBVIOUS
<1>2. CASE Len(s) = 0
  <2>1. FlattenSeq(s) = s
    BY <1>2 DEF FlattenSeq
  <2>2. s = <<>> /\ DOMAIN s = {}
    BY <1>2
  <2> QED BY <1>2, <2>1, <2>2 DEF Range
<1>3. CASE Len(s) # 0
  <2>1. FlattenSeq(s) = (CHOOSE f : f = [i \in 1 .. Len(s) |-> IF i = 1 THEN s[i] ELSE f[i - 1] \o s[i]])[Len(s)]
    BY <1>3 DEF FlattenSeq
  <2> DEFINE c == CHOOSE f : Flattened(s, Len(s), f)
  <2>2. FlattenSeq(s) = c[Len(s)]
    BY <2>1 DEF Flattened
  <2>3. Len(s) \in 0 .. Len(s)
    BY <1>1
  <2>4. Flattened(s, Len(s), c)
    BY <2>3, Flattenable
  <2> HIDE DEF c
  <2>5. \A i \in 1 .. Len(s) : c[i] = IF i = 1 THEN s[i] ELSE c[i - 1] \o s[i]
    BY <2>4 DEF Flattened
  <2> DEFINE T == {i \in 1 .. Len(s) :
                     ~(/\ c[i] \in Seq(S)
                       /\ \A y : y \in Range(c[i]) <=> \E k \in 1 .. i : y \in Range(s[k]))}
  <2>6. T = {}
    <3> SUFFICES ASSUME T # {} PROVE FALSE
      OBVIOUS
    <3>1. PICK i \in T : \A j \in T : i <= j
      <4>1. T \subseteq Nat
        BY <1>1
      <4> HIDE DEF T
      <4> QED BY <4>1, LeastNat
    <3>2. i \in 1 .. Len(s) /\ i \in Nat
      BY <1>1
    <3>3. CASE i = 1
      <4>1. c[i] = s[i] /\ s[i] \in Seq(S)
        BY <1>1, <2>5, <3>2, <3>3
      <4>2. \A k \in 1 .. i : k = i
        BY <3>3
      <4>3. i \in 1 .. i
        BY <3>3
      <4> QED BY <4>1, <4>2, <4>3
    <3>4. CASE i # 1
      <4>1. PICK j : j = i - 1
        OBVIOUS
      <4>2. j \in 1 .. Len(s) /\ ~(i <= j) /\ i = j + 1
        BY <1>1, <3>2, <3>4, <4>1
      <4>3. j \notin T
        BY <3>1, <4>2
      <4>4. c[j] \in Seq(S) /\ \A y : y \in Range(c[j]) <=> \E k \in 1 .. j : y \in Range(s[k])
        BY <4>2, <4>3
      <4>5. c[i] = c[j] \o s[i] /\ s[i] \in Seq(S)
        BY <1>1, <2>5, <3>2, <3>4, <4>1
      <4>6. c[i] \in Seq(S) /\ \A y : y \in Range(c[i]) <=> y \in Range(c[j]) \/ y \in Range(s[i])
        BY <4>4, <4>5, ConcatRange
      <4>7. \A k : k \in 1 .. i <=> k \in 1 .. j \/ k = i
        BY <3>2, <4>2
      <4>8. \A y : y \in Range(c[i]) <=> \E k \in 1 .. i : y \in Range(s[k])
        BY <4>4, <4>6, <4>7, Zenon
      <4> QED BY <4>6, <4>8
    <3> QED BY <3>3, <3>4
  <2>7. Len(s) \in 1 .. Len(s)
    BY <1>1, <1>3
  <2> QED BY <2>2, <2>6, <2>7
<1> QED BY <1>2, <1>3

-----------------------------------------------------------------------------
(* Frames.                                                                 *)

LEMMA FrameFacts ==
  ASSUME NEW n \in Nat, NEW k \in Nat \ {0}
  PROVE  /\ Frame(n, k) \in Memory
         /\ n + k <= Len(Pool) => /\ Frame(n, k) \in PoolFrames /\ Frame(n, k) # 0
                                  /\ Frame(n, k) \notin Taken(n + k - 1) /\ Frame(n, k) \in Taken(n + k)
         /\ n + k > Len(Pool) => Frame(n, k) = 0
<1>1. /\ Pool \in Seq(Nat \ {0}) /\ Len(Pool) \in Nat /\ DOMAIN Pool = 1 .. Len(Pool)
      /\ \A i, j \in 1 .. Len(Pool) : Pool[i] = Pool[j] => i = j
  <2>1. Pool \in Seq(Nat \ {0}) /\ IsInjective(Pool)
    BY PagingAssumption
  <2>2. Len(Pool) \in Nat /\ DOMAIN Pool = 1 .. Len(Pool)
    BY <2>1
  <2> QED BY <2>1, <2>2 DEF IsInjective
<1>2. CASE n + k <= Len(Pool)
  <2>1. n + k \in 1 .. Len(Pool) /\ Frame(n, k) = Pool[n + k] /\ Pool[n + k] \in Nat \ {0}
    <3>1. n + k \in 1 .. Len(Pool) /\ ~(n + k > Len(Pool))
      BY <1>1, <1>2
    <3>2. Frame(n, k) = Pool[n + k]
      BY <3>1 DEF Frame
    <3> QED BY <1>1, <3>1, <3>2
  <2>2. Pool[n + k] \notin Taken(n + k - 1)
    <3>1. PICK j \in 1 .. Len(Pool) : j = n + k
      BY <2>1
    <3>2. \A i \in {i \in 1 .. Len(Pool) : i <= n + k - 1} : i \in 1 .. Len(Pool) /\ i # j
      BY <3>1
    <3>3. Pool[j] \notin Taken(n + k - 1)
      <4>1. \A i \in {i \in 1 .. Len(Pool) : i <= n + k - 1} : Pool[i] # Pool[j]
        BY <1>1, <3>2
      <4> QED BY <4>1 DEF Taken
    <3> QED BY <3>1, <3>3
  <2>3. Pool[n + k] \in PoolFrames /\ Pool[n + k] \in Taken(n + k)
    <3>1. PICK j \in 1 .. Len(Pool) : j = n + k
      BY <2>1
    <3>2. Pool[j] \in PoolFrames
      BY <1>1, <3>1 DEF PoolFrames, Range
    <3>3. j \in {i \in 1 .. Len(Pool) : i <= n + k}
      BY <3>1
    <3>4. Pool[j] \in Taken(n + k)
      BY <3>3 DEF Taken
    <3> QED BY <3>1, <3>2, <3>4
  <2> QED BY <1>2, <2>1, <2>2, <2>3 DEF Memory
<1>3. CASE n + k > Len(Pool)
  BY <1>3, <1>1 DEF Frame, Memory
<1> QED BY <1>1, <1>2, <1>3

LEMMA MemoryNat == Memory \subseteq Nat
<1>1. Pool \in Seq(Nat \ {0})
  BY PagingAssumption
<1>2. \A k \in DOMAIN Pool : Pool[k] \in Nat
  BY <1>1
<1>3. PoolFrames \subseteq Nat
  BY <1>2 DEF PoolFrames, Range
<1> QED BY <1>3 DEF Memory

LEMMA TakenGrows ==
  ASSUME NEW n \in Nat, NEW k \in Nat, n <= k
  PROVE  Taken(n) \subseteq Taken(k) /\ Taken(n) \subseteq PoolFrames
BY PagingAssumption DEF Taken, PoolFrames, Range

-----------------------------------------------------------------------------
(* Tables.                                                                 *)

\* The tables that v's walk from p meets.
T3(m, p, v) == m[p][Pt4(v)].to
T2(m, p, v) == m[T3(m, p, v)][Pt3(v)].to
T1(m, p, v) == m[T2(m, p, v)][Pt2(v)].to

\* There is a table for v on every level.
Deep(m, p, v) ==
  /\ Present(m[p][Pt4(v)])
  /\ Present(m[T3(m, p, v)][Pt3(v)])
  /\ Present(m[T2(m, p, v)][Pt2(v)])

LEMMA LevelFacts ==
  ASSUME NEW m, NEW n, NEW level, Leveled(m, n, level), NEW p \in Memory, level[p] = 4, NEW v \in Nat
  PROVE  /\ Present(m[p][Pt4(v)]) => T3(m, p, v) \in Memory /\ level[T3(m, p, v)] = 3
         /\ Present(m[p][Pt4(v)]) /\ Present(m[T3(m, p, v)][Pt3(v)]) =>
              T2(m, p, v) \in Memory /\ level[T2(m, p, v)] = 2
         /\ Deep(m, p, v) => T1(m, p, v) \in Memory /\ level[T1(m, p, v)] = 1
<1>1. /\ level \in [Memory -> 0 .. 4]
      /\ \A t \in Memory : level[t] >= 2 =>
           \A i \in Index : \/ m[t][i] = None
                            \/ /\ m[t][i].flags = TableFlags /\ m[t][i].to \in Memory
                               /\ level[m[t][i].to] = level[t] - 1
  BY DEF Leveled
<1>2. ~Present(None)
  BY DEF Present, None
<1>3. Pt4(v) \in Index /\ Pt3(v) \in Index /\ Pt2(v) \in Index
  BY IndexFacts
<1>4. Present(m[p][Pt4(v)]) => T3(m, p, v) \in Memory /\ level[T3(m, p, v)] = 3
  BY <1>1, <1>2, <1>3 DEF T3
<1>5. Present(m[p][Pt4(v)]) /\ Present(m[T3(m, p, v)][Pt3(v)]) =>
        T2(m, p, v) \in Memory /\ level[T2(m, p, v)] = 2
  BY <1>1, <1>2, <1>3, <1>4 DEF T2
<1>6. Deep(m, p, v) => T1(m, p, v) \in Memory /\ level[T1(m, p, v)] = 1
  BY <1>1, <1>2, <1>3, <1>5 DEF T1, Deep
<1> QED BY <1>4, <1>5, <1>6

\* All rights are given above the last level, so the walk finds what is there.
LEMMA WalkFacts ==
  ASSUME NEW m, NEW n, NEW level, Leveled(m, n, level), NEW p \in Memory, level[p] = 4, NEW v \in Nat
  PROVE  Walk(m, p, v) = IF Deep(m, p, v) /\ Present(m[T1(m, p, v)][Pt1(v)])
                           THEN m[T1(m, p, v)][Pt1(v)] ELSE None
<1> DEFINE e4 == m[p][Pt4(v)]
           e3 == m[e4.to][Pt3(v)]
           e2 == m[e3.to][Pt2(v)]
           e1 == m[e2.to][Pt1(v)]
<1>1. /\ T3(m, p, v) = e4.to /\ T2(m, p, v) = e3.to /\ T1(m, p, v) = e2.to
      /\ Deep(m, p, v) <=> Present(e4) /\ Present(e3) /\ Present(e2)
  BY DEF T3, T2, T1, Deep
<1>2. Walk(m, p, v) = IF Present(e4) /\ Present(e3) /\ Present(e2) /\ Present(e1)
                        THEN [to |-> e1.to, flags |-> Allowed(Allowed(Allowed(e1.flags, e2), e3), e4)]
                        ELSE None
  BY DEF Walk
<1>3. ASSUME Present(e4), Present(e3), Present(e2)
      PROVE  [to |-> e1.to, flags |-> Allowed(Allowed(Allowed(e1.flags, e2), e3), e4)] = e1
  <2>1. /\ e4.to \in Memory /\ level[e4.to] = 3 /\ e3.to \in Memory /\ level[e3.to] = 2
        /\ e2.to \in Memory
    <3>1. Deep(m, p, v)
      BY <1>1, <1>3
    <3>2. /\ T3(m, p, v) \in Memory /\ level[T3(m, p, v)] = 3
          /\ T2(m, p, v) \in Memory /\ level[T2(m, p, v)] = 2 /\ T1(m, p, v) \in Memory
      BY <3>1, LevelFacts DEF Deep
    <3> QED BY <1>1, <3>2
  <2>2. Pt4(v) \in Index /\ Pt3(v) \in Index /\ Pt2(v) \in Index /\ Pt1(v) \in Index
    BY IndexFacts
  <2>3. ~Present(None)
    BY DEF Present, None
  <2>4. ASSUME NEW t \in Memory, level[t] >= 2, NEW i \in Index, Present(m[t][i])
        PROVE  m[t][i].flags = TableFlags
    BY <2>3, <2>4 DEF Leveled
  <2> HIDE DEF e4, e3, e2
  <2>5. level[p] >= 2 /\ level[e4.to] >= 2 /\ level[e3.to] >= 2
    BY <2>1
  <2>6. e4.flags = TableFlags
    BY <1>3, <2>2, <2>4, <2>5 DEF e4
  <2>7. e3.flags = TableFlags
    BY <1>3, <2>1, <2>2, <2>4, <2>5 DEF e3
  <2>8. e2.flags = TableFlags
    BY <1>3, <2>1, <2>2, <2>4, <2>5 DEF e2
  <2>9. ASSUME NEW F, NEW e, e.flags = TableFlags PROVE Allowed(F, e) = F
    BY <2>9 DEF Allowed, TableFlags
  <2>10. e1 \in Entry
    BY <2>1, <2>2 DEF Leveled
  <2> HIDE DEF e1
  <2>11. Allowed(Allowed(Allowed(e1.flags, e2), e3), e4) = e1.flags
    BY <2>6, <2>7, <2>8, <2>9
  <2> QED BY <2>10, <2>11 DEF Entry
<1> QED BY <1>1, <1>2, <1>3

-----------------------------------------------------------------------------
(* set_page_entry and the entry of the last level.                         *)

\* r is m with entry i of t leading to the empty table f.
New(m, r, t, i, f) ==
  /\ r \in [Memory -> [Index -> Entry]]
  /\ r[t][i] = [to |-> f, flags |-> TableFlags]
  /\ \A j \in Index : r[f][j] = None
  /\ \A u \in Memory, j \in Index : u # f /\ (u # t \/ j # i) => r[u][j] = m[u][j]

\* r is m but for entry i of t.
Put(m, r, t, i, e) ==
  /\ r \in [Memory -> [Index -> Entry]]
  /\ r[t][i] = e
  /\ \A u \in Memory, j \in Index : u # t \/ j # i => r[u][j] = m[u][j]

LEMMA NoneFacts ==
  /\ ~Present(None) /\ None \in Entry
  /\ \A f \in Int : [to |-> f, flags |-> TableFlags] \in Entry
  /\ \A f : Present([to |-> f, flags |-> TableFlags])
<1>1. ~Present(None)
  BY DEF None, Present
<1>2. None \in Entry
  BY DEF None, Entry
<1>3. TableFlags \in SUBSET {"P", "W", "U", "PAT", "WT"}
  BY DEF TableFlags
<1>4. \A f \in Int : [to |-> f, flags |-> TableFlags] \in Entry
  BY <1>3 DEF Entry
<1>5. \A f : Present([to |-> f, flags |-> TableFlags])
  BY DEF Present, TableFlags
<1> QED BY <1>1, <1>2, <1>4, <1>5

LEMMA NewLeveled ==
  ASSUME NEW m, NEW n \in Nat, NEW level, Leveled(m, n, level), NEW t \in Memory, level[t] >= 2,
         NEW i \in Index, m[t][i] = None, NEW f \in Memory, f \notin Taken(n), f \in Taken(n + 1),
         NEW r, New(m, r, t, i, f)
  PROVE  Leveled(r, n + 1, [level EXCEPT ![f] = level[t] - 1])
<1> DEFINE new == [level EXCEPT ![f] = level[t] - 1]
<1>0. /\ m \in [Memory -> [Index -> Entry]] /\ level \in [Memory -> 0 .. 4]
      /\ \A u \in Memory : level[u] # 0 => u \in Taken(n)
      /\ \A u \in Memory : level[u] >= 2 =>
           \A j \in Index : \/ m[u][j] = None
                            \/ /\ m[u][j].flags = TableFlags /\ m[u][j].to \in Memory
                               /\ level[m[u][j].to] = level[u] - 1
      /\ \A u, w \in Memory : level[u] >= 2 /\ level[w] >= 2 =>
           \A j, k \in Index : Present(m[u][j]) /\ Present(m[w][k]) /\ m[u][j].to = m[w][k].to =>
             u = w /\ j = k
  BY DEF Leveled
<1>1. level[f] = 0 /\ t # f
  BY <1>0
<1>2. /\ new \in [Memory -> 0 .. 4] /\ new[f] = level[t] - 1
      /\ \A u \in Memory : u # f => new[u] = level[u]
  BY <1>0
<1> HIDE DEF new
<1>3. \A u \in Memory : new[u] # 0 => u \in Taken(n + 1)
  BY <1>0, <1>2, TakenGrows
<1>4. \A u \in Memory, j \in Index : new[u] >= 2 =>
        \/ r[u][j] = None
        \/ u = t /\ j = i /\ r[u][j].to = f /\ r[u][j].flags = TableFlags
        \/ u # f /\ level[u] >= 2 /\ r[u][j] = m[u][j] /\ m[u][j].to # f
           /\ m[u][j].flags = TableFlags /\ m[u][j].to \in Memory
           /\ level[m[u][j].to] = level[u] - 1
  <2> SUFFICES ASSUME NEW u \in Memory, NEW j \in Index, new[u] >= 2, r[u][j] # None,
                      ~(u = t /\ j = i)
               PROVE  /\ u # f /\ level[u] >= 2 /\ r[u][j] = m[u][j] /\ m[u][j].to # f
                      /\ m[u][j].flags = TableFlags /\ m[u][j].to \in Memory
                      /\ level[m[u][j].to] = level[u] - 1
    BY DEF New
  <2>1. u # f
    BY DEF New
  <2>2. r[u][j] = m[u][j] /\ level[u] >= 2
    BY <1>2, <2>1 DEF New
  <2>3. /\ m[u][j].flags = TableFlags /\ m[u][j].to \in Memory /\ level[m[u][j].to] = level[u] - 1
    BY <1>0, <2>2
  <2>4. m[u][j].to # f
    BY <1>0, <1>1, <2>2, <2>3
  <2> QED BY <2>1, <2>2, <2>3, <2>4
<1>5. \A u \in Memory : new[u] >= 2 =>
        \A j \in Index : \/ r[u][j] = None
                         \/ /\ r[u][j].flags = TableFlags /\ r[u][j].to \in Memory
                            /\ new[r[u][j].to] = new[u] - 1
  BY <1>1, <1>2, <1>4
<1>6. ASSUME NEW u \in Memory, NEW w \in Memory, new[u] >= 2, new[w] >= 2, NEW j \in Index, NEW k \in Index,
             Present(r[u][j]), Present(r[w][k]), r[u][j].to = r[w][k].to
      PROVE  u = w /\ j = k
  <2>1. r[u][j] # None /\ r[w][k] # None
    BY <1>6, NoneFacts
  <2>2. CASE (u = t /\ j = i) \/ (w = t /\ k = i)
    BY <1>4, <1>6, <2>1, <2>2
  <2>3. CASE ~((u = t /\ j = i) \/ (w = t /\ k = i))
    <3>1. r[u][j] = m[u][j] /\ level[u] >= 2 /\ r[w][k] = m[w][k] /\ level[w] >= 2
      BY <1>4, <1>6, <2>1, <2>3
    <3> QED BY <1>0, <1>6, <3>1
  <2> QED BY <2>2, <2>3
<1>7. r \in [Memory -> [Index -> Entry]]
  BY DEF New
<1> QED BY <1>2, <1>3, <1>5, <1>6, <1>7 DEF Leveled, new

\* An empty table shows nothing.
LEMMA NewWalk ==
  ASSUME NEW m, NEW n \in Nat, NEW level, Leveled(m, n, level), NEW t \in Memory, level[t] >= 2,
         NEW i \in Index, m[t][i] = None, NEW f \in Memory, f \notin Taken(n), f \in Taken(n + 1),
         NEW r, New(m, r, t, i, f), NEW p \in Memory, level[p] = 4, NEW v \in Nat
  PROVE  Walk(r, p, v) = Walk(m, p, v)
<1> DEFINE new == [level EXCEPT ![f] = level[t] - 1]
<1>0. /\ \A u \in Memory : level[u] # 0 => u # f
      /\ level \in [Memory -> 0 .. 4]
  BY DEF Leveled
<1>1. Leveled(r, n + 1, new)
  BY NewLeveled
<1>2. new[p] = 4
  BY <1>0
<1> HIDE DEF new
<1>3. Walk(m, p, v) = IF Deep(m, p, v) /\ Present(m[T1(m, p, v)][Pt1(v)])
                        THEN m[T1(m, p, v)][Pt1(v)] ELSE None
  BY WalkFacts
<1>4. Walk(r, p, v) = IF Deep(r, p, v) /\ Present(r[T1(r, p, v)][Pt1(v)])
                        THEN r[T1(r, p, v)][Pt1(v)] ELSE None
  BY <1>1, <1>2, WalkFacts
<1>5. Pt1(v) \in Index /\ Pt2(v) \in Index /\ Pt3(v) \in Index /\ Pt4(v) \in Index
  BY IndexFacts
<1>6. /\ ~Present(m[t][i]) /\ r[t][i].to = f /\ \A j \in Index : ~Present(r[f][j])
      /\ \A u \in Memory, j \in Index : u # f /\ (u # t \/ j # i) => r[u][j] = m[u][j]
  BY NoneFacts DEF New
<1>7. \A u \in Memory, j \in Index : level[u] # 0 /\ Present(m[u][j]) => r[u][j] = m[u][j]
  BY <1>0, <1>6
<1>8. /\ Present(m[p][Pt4(v)]) => T3(m, p, v) \in Memory /\ level[T3(m, p, v)] = 3
      /\ Present(m[p][Pt4(v)]) /\ Present(m[T3(m, p, v)][Pt3(v)]) =>
           T2(m, p, v) \in Memory /\ level[T2(m, p, v)] = 2
      /\ Deep(m, p, v) => T1(m, p, v) \in Memory /\ level[T1(m, p, v)] = 1
  BY LevelFacts
<1>9. CASE ~Present(m[p][Pt4(v)])
  <2>1. ~Deep(m, p, v)
    BY <1>9 DEF Deep
  <2>2. ~Deep(r, p, v)
    <3>1. CASE p = t /\ Pt4(v) = i
      BY <1>5, <1>6, <3>1 DEF Deep, T3
    <3>2. CASE ~(p = t /\ Pt4(v) = i)
      BY <1>0, <1>5, <1>6, <1>9, <3>2 DEF Deep
    <3> QED BY <3>1, <3>2
  <2> QED BY <1>3, <1>4, <2>1, <2>2
<1>10. CASE Present(m[p][Pt4(v)])
  <2>0. /\ r[p][Pt4(v)] = m[p][Pt4(v)] /\ T3(r, p, v) = T3(m, p, v)
        /\ T3(m, p, v) \in Memory /\ level[T3(m, p, v)] = 3
    BY <1>5, <1>7, <1>8, <1>10 DEF T3
  <2>1. CASE ~Present(m[T3(m, p, v)][Pt3(v)])
    <3>1. ~Deep(m, p, v)
      BY <2>1 DEF Deep
    <3>2. ~Deep(r, p, v)
      <4>1. CASE T3(m, p, v) = t /\ Pt3(v) = i
        <5>1. T2(r, p, v) = f
          BY <1>6, <2>0, <4>1 DEF T2
        <5> QED BY <1>5, <1>6, <5>1 DEF Deep
      <4>2. CASE ~(T3(m, p, v) = t /\ Pt3(v) = i)
        BY <1>0, <1>5, <1>6, <2>0, <2>1, <4>2 DEF Deep
      <4> QED BY <4>1, <4>2
    <3> QED BY <1>3, <1>4, <3>1, <3>2
  <2>2. CASE Present(m[T3(m, p, v)][Pt3(v)])
    <3>0. /\ T2(r, p, v) = T2(m, p, v) /\ T2(m, p, v) \in Memory /\ level[T2(m, p, v)] = 2
          /\ r[T3(m, p, v)][Pt3(v)] = m[T3(m, p, v)][Pt3(v)]
      BY <1>5, <1>7, <1>8, <1>10, <2>0, <2>2 DEF T2
    <3>1. CASE ~Present(m[T2(m, p, v)][Pt2(v)])
      <4>1. ~Deep(m, p, v)
        BY <3>1 DEF Deep
      <4>2. ~Deep(r, p, v) \/ ~Present(r[T1(r, p, v)][Pt1(v)])
        <5>1. CASE T2(m, p, v) = t /\ Pt2(v) = i
          <6>1. T1(r, p, v) = f
            BY <1>6, <3>0, <5>1 DEF T1
          <6> QED BY <1>5, <1>6, <6>1
        <5>2. CASE ~(T2(m, p, v) = t /\ Pt2(v) = i)
          BY <1>0, <1>5, <1>6, <3>0, <3>1, <5>2 DEF Deep
        <5> QED BY <5>1, <5>2
      <4> QED BY <1>3, <1>4, <4>1, <4>2
    <3>2. CASE Present(m[T2(m, p, v)][Pt2(v)])
      <4>1. Deep(m, p, v)
        BY <1>10, <2>2, <3>2 DEF Deep
      <4>2. r[T2(m, p, v)][Pt2(v)] = m[T2(m, p, v)][Pt2(v)] /\ T1(r, p, v) = T1(m, p, v)
        BY <1>5, <1>7, <3>0, <3>2 DEF T1
      <4>3. Deep(r, p, v)
        BY <2>0, <3>0, <4>1, <4>2 DEF Deep
      <4>4. T1(m, p, v) \in Memory /\ T1(m, p, v) # t /\ T1(m, p, v) # f
        BY <1>0, <1>8, <4>1
      <4>5. r[T1(m, p, v)][Pt1(v)] = m[T1(m, p, v)][Pt1(v)]
        BY <1>5, <1>6, <4>4
      <4> QED BY <1>3, <1>4, <4>1, <4>2, <4>3, <4>5
    <3> QED BY <3>1, <3>2
  <2> QED BY <2>1, <2>2
<1> QED BY <1>9, <1>10

\* An entry of the last level is one page's.
Puts(m, n, level, p, v, e, r) ==
  /\ n \in Nat /\ Leveled(m, n, level) /\ p \in Memory /\ level[p] = 4
  /\ v \in Page /\ Deep(m, p, v) /\ Put(m, r, T1(m, p, v), Pt1(v), e)

LEMMA PutFacts ==
  ASSUME NEW m, NEW n, NEW level, NEW p, NEW v, NEW e, NEW r, Puts(m, n, level, p, v, e, r)
  PROVE  /\ Leveled(r, n, level)
         /\ \A w \in Page : Walk(r, p, w) = IF w = v THEN IF Present(e) THEN e ELSE None ELSE Walk(m, p, w)
         /\ \A u \in Memory, j \in Index : level[u] # 1 => r[u][j] = m[u][j]
<1> n \in Nat /\ Leveled(m, n, level) /\ p \in Memory /\ level[p] = 4 /\ v \in Page /\ Deep(m, p, v)
  BY DEF Puts
<1> Put(m, r, T1(m, p, v), Pt1(v), e)
  BY DEF Puts
<1> DEFINE t == T1(m, p, v)
<1>0. /\ t \in Memory /\ level[t] = 1 /\ v \in Nat
      /\ Pt1(v) \in Index /\ Pt2(v) \in Index /\ Pt3(v) \in Index /\ Pt4(v) \in Index
      /\ level \in [Memory -> 0 .. 4]
  <2>1. v \in Nat
    BY PageNat
  <2>2. Pt1(v) \in Index /\ Pt2(v) \in Index /\ Pt3(v) \in Index /\ Pt4(v) \in Index
    BY <2>1, IndexFacts
  <2>3. t \in Memory /\ level[t] = 1
    BY <2>1, LevelFacts
  <2> QED BY <2>1, <2>2, <2>3 DEF Leveled
<1>1. /\ r \in [Memory -> [Index -> Entry]] /\ r[t][Pt1(v)] = e
      /\ \A u \in Memory, j \in Index : u # t \/ j # Pt1(v) => r[u][j] = m[u][j]
  BY DEF Put
<1> HIDE DEF t
<1>2. \A u \in Memory, j \in Index : level[u] # 1 => r[u][j] = m[u][j]
  BY <1>0, <1>1
<1>3. Leveled(r, n, level)
  <2>1. \A u \in Memory : level[u] >= 2 => level[u] # 1
    BY <1>0
  <2>2. \A u \in Memory : level[u] >= 2 =>
          \A j \in Index : \/ r[u][j] = None
                           \/ /\ r[u][j].flags = TableFlags /\ r[u][j].to \in Memory
                              /\ level[r[u][j].to] = level[u] - 1
    BY <1>2, <2>1 DEF Leveled
  <2>3. \A u, w \in Memory : level[u] >= 2 /\ level[w] >= 2 =>
          \A j, k \in Index : Present(r[u][j]) /\ Present(r[w][k]) /\ r[u][j].to = r[w][k].to =>
            u = w /\ j = k
    BY <1>2, <2>1 DEF Leveled
  <2> QED BY <1>1, <2>2, <2>3 DEF Leveled
<1>4. ASSUME NEW w \in Page
      PROVE  Walk(r, p, w) = IF w = v THEN IF Present(e) THEN e ELSE None ELSE Walk(m, p, w)
  <2>0. w \in Nat /\ Pt1(w) \in Index /\ Pt2(w) \in Index /\ Pt3(w) \in Index /\ Pt4(w) \in Index
    BY IndexFacts, PageNat
  <2>1. Walk(m, p, w) = IF Deep(m, p, w) /\ Present(m[T1(m, p, w)][Pt1(w)])
                          THEN m[T1(m, p, w)][Pt1(w)] ELSE None
    BY <2>0, WalkFacts
  <2>2. Walk(r, p, w) = IF Deep(r, p, w) /\ Present(r[T1(r, p, w)][Pt1(w)])
                          THEN r[T1(r, p, w)][Pt1(w)] ELSE None
    BY <1>3, <2>0, WalkFacts
  <2>3. /\ Present(m[p][Pt4(w)]) => T3(m, p, w) \in Memory /\ level[T3(m, p, w)] = 3
        /\ Present(m[p][Pt4(w)]) /\ Present(m[T3(m, p, w)][Pt3(w)]) =>
             T2(m, p, w) \in Memory /\ level[T2(m, p, w)] = 2
        /\ Deep(m, p, w) => T1(m, p, w) \in Memory /\ level[T1(m, p, w)] = 1
    BY <2>0, LevelFacts
  <2>4. r[p][Pt4(w)] = m[p][Pt4(w)] /\ T3(r, p, w) = T3(m, p, w)
    BY <1>2, <2>0 DEF T3
  <2>5. Present(m[p][Pt4(w)]) => /\ r[T3(m, p, w)][Pt3(w)] = m[T3(m, p, w)][Pt3(w)]
                                 /\ T2(r, p, w) = T2(m, p, w)
    BY <1>2, <2>0, <2>3, <2>4 DEF T2
  <2>6. Present(m[p][Pt4(w)]) /\ Present(m[T3(m, p, w)][Pt3(w)]) =>
          /\ r[T2(m, p, w)][Pt2(w)] = m[T2(m, p, w)][Pt2(w)]
          /\ T1(r, p, w) = T1(m, p, w)
    BY <1>2, <2>0, <2>3, <2>5 DEF T1
  <2>7. Deep(r, p, w) <=> Deep(m, p, w)
    BY <2>4, <2>5, <2>6 DEF Deep
  <2>8. CASE ~Deep(m, p, w)
    BY <2>1, <2>2, <2>7, <2>8
  <2>9. CASE Deep(m, p, w)
    <3>1. T1(r, p, w) = T1(m, p, w)
      BY <2>6, <2>9 DEF Deep
    <3>2. CASE w = v
      BY <1>1, <2>2, <2>7, <2>9, <3>1, <3>2 DEF t
    <3>3. CASE w # v
      <4>1. ASSUME T1(m, p, w) = t, Pt1(w) = Pt1(v) PROVE FALSE
        <5>1. /\ level[T3(m, p, w)] = 3 /\ level[T2(m, p, w)] = 2
              /\ T3(m, p, w) \in Memory /\ T2(m, p, w) \in Memory
              /\ Present(m[p][Pt4(w)]) /\ Present(m[T3(m, p, w)][Pt3(w)]) /\ Present(m[T2(m, p, w)][Pt2(w)])
          BY <2>3, <2>9 DEF Deep
        <5>2. /\ level[T3(m, p, v)] = 3 /\ level[T2(m, p, v)] = 2
              /\ T3(m, p, v) \in Memory /\ T2(m, p, v) \in Memory
              /\ Present(m[p][Pt4(v)]) /\ Present(m[T3(m, p, v)][Pt3(v)]) /\ Present(m[T2(m, p, v)][Pt2(v)])
          BY <1>0, LevelFacts DEF Deep
        <5>3. \A u1, u2 \in Memory : level[u1] >= 2 /\ level[u2] >= 2 =>
                \A j, k \in Index : Present(m[u1][j]) /\ Present(m[u2][k]) /\ m[u1][j].to = m[u2][k].to =>
                  u1 = u2 /\ j = k
          BY DEF Leveled
        <5>4. T2(m, p, w) = T2(m, p, v) /\ Pt2(w) = Pt2(v)
          <6>1. m[T2(m, p, w)][Pt2(w)].to = m[T2(m, p, v)][Pt2(v)].to
            BY <4>1 DEF T1, t
          <6> QED BY <1>0, <2>0, <5>1, <5>2, <5>3, <6>1
        <5>5. T3(m, p, w) = T3(m, p, v) /\ Pt3(w) = Pt3(v)
          <6>1. m[T3(m, p, w)][Pt3(w)].to = m[T3(m, p, v)][Pt3(v)].to
            BY <5>4 DEF T2
          <6> QED BY <1>0, <2>0, <5>1, <5>2, <5>3, <6>1
        <5>6. Pt4(w) = Pt4(v)
          <6>1. m[p][Pt4(w)].to = m[p][Pt4(v)].to
            BY <5>5 DEF T3
          <6> QED BY <1>0, <2>0, <5>1, <5>2, <5>3, <6>1
        <5> QED BY <3>3, <4>1, <5>4, <5>5, <5>6, PageFacts
      <4>2. T1(m, p, w) \in Memory
        BY <2>3, <2>9
      <4>3. r[T1(m, p, w)][Pt1(w)] = m[T1(m, p, w)][Pt1(w)]
        BY <1>1, <2>0, <4>1, <4>2
      <4> QED BY <2>1, <2>2, <2>7, <3>1, <3>3, <4>3
    <3> QED BY <3>2, <3>3
  <2> QED BY <2>8, <2>9
<1> QED BY <1>2, <1>3, <1>4

-----------------------------------------------------------------------------
(* pt_map.                                                                 *)

\* r is m after tables were added: with the n frames taken before nothing
\* else happened.
Grows(m, r, n, k, level, new) ==
  /\ Leveled(r, k, new)
  /\ \A t \in Taken(n) : new[t] = level[t]
  /\ \A t \in Taken(n), i \in Index : Present(m[t][i]) \/ level[t] = 0 => r[t][i] = m[t][i]
  /\ \A p \in Memory, v \in Nat : level[p] = 4 => Walk(r, p, v) = Walk(m, p, v)

LEMMA GrowsOn ==
  ASSUME NEW m, NEW q, NEW r, NEW n \in Nat, NEW j \in Nat, NEW k \in Nat, n <= j,
         NEW level, NEW mid, NEW new, Leveled(m, n, level),
         Grows(m, q, n, j, level, mid), Grows(q, r, j, k, mid, new)
  PROVE  Grows(m, r, n, k, level, new)
<1>1. Taken(n) \subseteq Taken(j) /\ Taken(n) \subseteq Memory
  BY TakenGrows DEF Memory
<1>2. Leveled(r, k, new)
  BY DEF Grows
<1>3. \A t \in Taken(n) : mid[t] = level[t] /\ new[t] = level[t]
  BY <1>1 DEF Grows
<1>4. \A t \in Taken(n), i \in Index : Present(m[t][i]) \/ level[t] = 0 => r[t][i] = m[t][i]
  BY <1>1, <1>3 DEF Grows
<1>5. \A p \in Memory, v \in Nat : level[p] = 4 => Walk(r, p, v) = Walk(m, p, v)
  <2> SUFFICES ASSUME NEW p \in Memory, NEW v \in Nat, level[p] = 4
               PROVE  Walk(r, p, v) = Walk(m, p, v)
    OBVIOUS
  <2>1. p \in Taken(n)
    BY DEF Leveled
  <2> QED BY <1>3, <2>1 DEF Grows
<1> QED BY <1>2, <1>3, <1>4, <1>5 DEF Grows

LEMMA LeadsDown ==
  ASSUME NEW m, NEW n, NEW level, Leveled(m, n, level), NEW t \in Memory, NEW i \in Index,
         level[t] \in 2 .. 4, Present(m[t][i])
  PROVE  m[t][i].to \in Memory /\ level[m[t][i].to] = level[t] - 1
<1>1. m[t][i] # None
  BY NoneFacts
<1> QED BY <1>1 DEF Leveled

LEMMA EntryNext ==
  ASSUME NEW s, s = [mem |-> s.mem, next |-> s.next], s.next \in Nat, NEW t, NEW i,
         NEW r, r = SetPageEntry(s, t, i)
  PROVE  /\ r = [mem |-> r.mem, next |-> r.next]
         /\ r.next \in Nat /\ s.next <= r.next
<1>1. CASE Present(s.mem[t][i])
  <2>1. r = s
    BY <1>1 DEF SetPageEntry
  <2> QED BY <2>1
<1>2. CASE ~Present(s.mem[t][i])
  <2>1. PICK m : r = [mem |-> m, next |-> s.next + 1]
    BY <1>2 DEF SetPageEntry
  <2> QED BY <2>1
<1> QED BY <1>1, <1>2

\* r is s after set_page_entry in a table above the last level, and memory sufficed.
Enters(s, level, t, i, r) ==
  /\ s = [mem |-> s.mem, next |-> s.next] /\ s.next \in Nat
  /\ Leveled(s.mem, s.next, level) /\ t \in Memory /\ level[t] >= 2 /\ i \in Index
  /\ r = SetPageEntry(s, t, i) /\ (r.next = s.next \/ r.next <= Len(Pool))

LEMMA EntryFacts ==
  ASSUME NEW s, NEW level, NEW t, NEW i, NEW r, Enters(s, level, t, i, r)
  PROVE  /\ \E new : Grows(s.mem, r.mem, s.next, r.next, level, new)
         /\ Present(r.mem[t][i])
         /\ \A u \in Taken(s.next), j \in Index : u # t \/ j # i => r.mem[u][j] = s.mem[u][j]
<1> USE DEF Enters
<1>0. /\ s.next \in Nat /\ t \in Memory /\ level[t] >= 2 /\ i \in Index
      /\ Leveled(s.mem, s.next, level)
      /\ r = SetPageEntry(s, t, i) /\ (r.next = s.next \/ r.next <= Len(Pool))
  OBVIOUS
<1> HIDE DEF Enters
<1>1. CASE Present(s.mem[t][i])
  <2>1. r = s
    BY <1>0, <1>1 DEF SetPageEntry
  <2>2. Grows(s.mem, s.mem, s.next, s.next, level, level)
    BY <1>0 DEF Grows
  <2> QED BY <1>0, <1>1, <2>1, <2>2
<1>2. CASE ~Present(s.mem[t][i])
  <2> DEFINE f == Frame(s.next, 1)
             new == [level EXCEPT ![f] = level[t] - 1]
  <2>1. /\ r = [mem |-> [s.mem EXCEPT ![t][i] = [to |-> f, flags |-> {"P", "W", "U"}], ![f] = Zeroed],
                next |-> s.next + 1]
    BY <1>0, <1>2 DEF SetPageEntry
  <2>2. r.mem = [s.mem EXCEPT ![t][i] = [to |-> f, flags |-> TableFlags], ![f] = Zeroed]
        /\ r.next = s.next + 1
    BY <1>0, <2>1 DEF TableFlags
  <2>3. s.next + 1 <= Len(Pool)
    BY <1>0, <2>2
  <2>4. f \in Memory /\ f \in PoolFrames /\ f # 0 /\ f \notin Taken(s.next) /\ f \in Taken(s.next + 1)
    <3>1. (s.next + 1) - 1 = s.next
      BY <1>0
    <3> QED BY <1>0, <2>3, <3>1, FrameFacts
  <2>5. s.mem \in [Memory -> [Index -> Entry]] /\ level \in [Memory -> 0 .. 4]
        /\ \A u \in Memory : level[u] # 0 => u \in Taken(s.next)
    BY <1>0 DEF Leveled
  <2>6. s.mem[t][i] = None
    BY <1>0, <1>2 DEF Leveled, Present, TableFlags
  <2>7. t # f
    BY <1>0, <2>4, <2>5
  <2>8. New(s.mem, r.mem, t, i, f)
    <3> HIDE DEF f
    <3>1. Zeroed \in [Index -> Entry] /\ \A j \in Index : Zeroed[j] = None
      BY <1>0, NoneFacts DEF Zeroed
    <3>2. [to |-> f, flags |-> TableFlags] \in Entry
      <4>1. f \in Int
        BY <1>0, <2>4, MemoryNat
      <4> QED BY <1>0, <4>1, NoneFacts
    <3>3. PICK e : e = [to |-> f, flags |-> TableFlags]
      OBVIOUS
    <3>4. r.mem = [s.mem EXCEPT ![t][i] = e, ![f] = Zeroed]
      BY <1>0, <2>2, <3>3
    <3>9. PICK q : q = [s.mem EXCEPT ![t][i] = e]
      OBVIOUS
    <3>10. /\ q \in [Memory -> [Index -> Entry]] /\ q[t][i] = e
           /\ \A u \in Memory, j \in Index : u # t \/ j # i => q[u][j] = s.mem[u][j]
      BY <1>0, <2>5, <3>2, <3>3, <3>9
    <3>11. r.mem = [q EXCEPT ![f] = Zeroed]
      BY <1>0, <3>4, <3>9
    <3>5. r.mem \in [Memory -> [Index -> Entry]]
      BY <1>0, <3>1, <3>10, <3>11
    <3>6. r.mem[t][i] = e
      BY <1>0, <2>4, <2>7, <3>10, <3>11
    <3>7. \A j \in Index : r.mem[f][j] = None
      BY <1>0, <2>4, <3>1, <3>10, <3>11
    <3>8. \A u \in Memory, j \in Index : u # f /\ (u # t \/ j # i) => r.mem[u][j] = s.mem[u][j]
      BY <1>0, <2>4, <3>10, <3>11
    <3> QED BY <1>0, <3>3, <3>5, <3>6, <3>7, <3>8 DEF New
  <2> HIDE DEF f
  <2>9. Leveled(r.mem, r.next, new)
    <3>1. Leveled(r.mem, s.next + 1, [level EXCEPT ![f] = level[t] - 1])
      BY <1>0, <2>4, <2>6, <2>8, NewLeveled
    <3> QED BY <1>0, <2>2, <3>1
  <2>10. \A u \in Taken(s.next) : u \in Memory /\ u # f
    BY <1>0, <2>4, TakenGrows DEF Memory
  <2>11. \A u \in Taken(s.next) : new[u] = level[u]
    BY <1>0, <2>5, <2>10
  <2>12. \A u \in Taken(s.next), j \in Index :
           Present(s.mem[u][j]) \/ level[u] = 0 => r.mem[u][j] = s.mem[u][j]
    BY <1>0, <1>2, <2>8, <2>10 DEF New
  <2>13. \A p \in Memory, v \in Nat : level[p] = 4 => Walk(r.mem, p, v) = Walk(s.mem, p, v)
    BY <1>0, <2>4, <2>6, <2>8, NewWalk
  <2>14. Grows(s.mem, r.mem, s.next, r.next, level, new)
    BY <1>0, <2>9, <2>11, <2>12, <2>13 DEF Grows
  <2>15. Present(r.mem[t][i])
    BY <1>0, <2>8, NoneFacts DEF New
  <2>16. \A u \in Taken(s.next), j \in Index : u # t \/ j # i => r.mem[u][j] = s.mem[u][j]
    BY <2>8, <2>10 DEF New
  <2> QED BY <1>0, <2>14, <2>15, <2>16
<1> QED BY <1>0, <1>1, <1>2

\* r is m after pt_map of x in the tables from p on.
Adds(m, r, n, k, level, new, p, x) ==
  /\ Leveled(r, k, new)
  /\ \A t \in Taken(n) : new[t] = level[t]
  /\ \A t \in Taken(n), i \in Index :
       (Present(m[t][i]) /\ level[t] # 1) \/ level[t] = 0 => r[t][i] = m[t][i]
  /\ \A w \in Page : Walk(r, p, w) = IF w = x.page THEN x.to ELSE Walk(m, p, w)
  /\ Present(r[p][Pt4(x.page)])
  /\ \A i \in Index : i # Pt4(x.page) => r[p][i] = m[p][i]

\* The three tables pt_map goes through, and the entry it writes.
PtMapSteps(s, p, x, r, s4, s3, s2, t3, t2, t1) ==
  /\ s4 = SetPageEntry(s, p, Pt4(x.page)) /\ t3 = s4.mem[p][Pt4(x.page)].to
  /\ s3 = SetPageEntry(s4, t3, Pt3(x.page)) /\ t2 = s3.mem[t3][Pt3(x.page)].to
  /\ s2 = SetPageEntry(s3, t2, Pt2(x.page)) /\ t1 = s2.mem[t2][Pt2(x.page)].to
  /\ s4 = [mem |-> s4.mem, next |-> s4.next] /\ s4.next \in Nat /\ s.next <= s4.next
  /\ s3 = [mem |-> s3.mem, next |-> s3.next] /\ s3.next \in Nat /\ s4.next <= s3.next
  /\ s2 = [mem |-> s2.mem, next |-> s2.next] /\ s2.next \in Nat /\ s3.next <= s2.next
  /\ r.next = s2.next /\ r.mem = [s2.mem EXCEPT ![t1][Pt1(x.page)] = x.to]

LEMMA PtMapIs ==
  ASSUME NEW s, s = [mem |-> s.mem, next |-> s.next], s.next \in Nat, NEW p, NEW x
  PROVE  \E s4, s3, s2, t3, t2, t1 : PtMapSteps(s, p, x, PtMap(s, p, x), s4, s3, s2, t3, t2, t1)
<1>1. PICK s4 : s4 = SetPageEntry(s, p, Pt4(x.page))
  OBVIOUS
<1>2. PICK t3 : t3 = s4.mem[p][Pt4(x.page)].to
  OBVIOUS
<1>3. PICK s3 : s3 = SetPageEntry(s4, t3, Pt3(x.page))
  OBVIOUS
<1>4. PICK t2 : t2 = s3.mem[t3][Pt3(x.page)].to
  OBVIOUS
<1>5. PICK s2 : s2 = SetPageEntry(s3, t2, Pt2(x.page))
  OBVIOUS
<1>6. PICK t1 : t1 = s2.mem[t2][Pt2(x.page)].to
  OBVIOUS
<1>7. s4 = [mem |-> s4.mem, next |-> s4.next] /\ s4.next \in Nat /\ s.next <= s4.next
  BY <1>1, EntryNext
<1>8. s3 = [mem |-> s3.mem, next |-> s3.next] /\ s3.next \in Nat /\ s4.next <= s3.next
  BY <1>3, <1>7, EntryNext
<1>9. s2 = [mem |-> s2.mem, next |-> s2.next] /\ s2.next \in Nat /\ s3.next <= s2.next
  BY <1>5, <1>8, EntryNext
<1>10. PtMap(s, p, x) = [s2 EXCEPT !.mem[t1][Pt1(x.page)] = x.to]
  BY <1>1, <1>2, <1>3, <1>4, <1>5, <1>6 DEF PtMap
<1>11. PtMap(s, p, x).next = s2.next /\ PtMap(s, p, x).mem = [s2.mem EXCEPT ![t1][Pt1(x.page)] = x.to]
  BY <1>9, <1>10
<1>12. PtMapSteps(s, p, x, PtMap(s, p, x), s4, s3, s2, t3, t2, t1)
  BY <1>1, <1>2, <1>3, <1>4, <1>5, <1>6, <1>7, <1>8, <1>9, <1>11 DEF PtMapSteps
<1> QED BY <1>12

LEMMA PtMapNext ==
  ASSUME NEW s, s = [mem |-> s.mem, next |-> s.next], s.next \in Nat, NEW p, NEW x
  PROVE  PtMap(s, p, x).next \in Nat /\ s.next <= PtMap(s, p, x).next
<1>1. PICK s4, s3, s2, t3, t2, t1 : PtMapSteps(s, p, x, PtMap(s, p, x), s4, s3, s2, t3, t2, t1)
  BY PtMapIs
<1>2. PICK r : r = PtMap(s, p, x)
  OBVIOUS
<1>3. /\ s4.next \in Nat /\ s3.next \in Nat /\ s2.next \in Nat
      /\ s.next <= s4.next /\ s4.next <= s3.next /\ s3.next <= s2.next /\ r.next = s2.next
  BY <1>1, <1>2 DEF PtMapSteps
<1>4. r.next \in Nat /\ s.next <= r.next
  BY <1>3
<1> QED BY <1>2, <1>4

LEMMA PtMapFacts ==
  ASSUME NEW s, s = [mem |-> s.mem, next |-> s.next], s.next \in Nat,
         NEW level, Leveled(s.mem, s.next, level), NEW p \in Memory, level[p] = 4,
         NEW x, x.page \in Page, x.to \in Entry, Present(x.to),
         NEW r, r = PtMap(s, p, x), r.next = s.next \/ r.next <= Len(Pool)
  PROVE  \E new : Adds(s.mem, r.mem, s.next, r.next, level, new, p, x)
<1>1. PICK v : v = x.page
  OBVIOUS
<1>2. PICK s4, s3, s2, t3, t2, t1 : PtMapSteps(s, p, x, r, s4, s3, s2, t3, t2, t1)
  BY PtMapIs
<1>3. s4 = [mem |-> s4.mem, next |-> s4.next] /\ s4.next \in Nat /\ s.next <= s4.next
  BY <1>2 DEF PtMapSteps
<1>4. s3 = [mem |-> s3.mem, next |-> s3.next] /\ s3.next \in Nat /\ s4.next <= s3.next
  BY <1>2 DEF PtMapSteps
<1>5. s2 = [mem |-> s2.mem, next |-> s2.next] /\ s2.next \in Nat /\ s3.next <= s2.next
  BY <1>2 DEF PtMapSteps
<1>6. /\ s4 = SetPageEntry(s, p, Pt4(v))
      /\ s3 = SetPageEntry(s4, t3, Pt3(v))
      /\ s2 = SetPageEntry(s3, t2, Pt2(v))
  BY <1>1, <1>2 DEF PtMapSteps
<1>31. t3 = s4.mem[p][Pt4(v)].to /\ t2 = s3.mem[t3][Pt3(v)].to /\ t1 = s2.mem[t2][Pt2(v)].to
  BY <1>1, <1>2 DEF PtMapSteps
<1>7. r.next = s2.next /\ r.mem = [s2.mem EXCEPT ![t1][Pt1(v)] = x.to]
  BY <1>1, <1>2 DEF PtMapSteps
<1>8. /\ s4.next = s.next \/ s4.next <= Len(Pool)
      /\ s3.next = s4.next \/ s3.next <= Len(Pool)
      /\ s2.next = s3.next \/ s2.next <= Len(Pool)
  <2>1. Len(Pool) \in Nat
    BY PagingAssumption
  <2> QED BY <1>3, <1>4, <1>5, <1>7, <2>1
<1>9. v \in Nat /\ Pt1(v) \in Index /\ Pt2(v) \in Index /\ Pt3(v) \in Index /\ Pt4(v) \in Index
  <2>1. v \in Nat
    BY <1>1, PageNat
  <2> QED BY <2>1, IndexFacts
<1>11. level \in [Memory -> 0 .. 4] /\ p \in Taken(s.next)
  BY DEF Leveled
<1>12. PICK l4 : /\ Grows(s.mem, s4.mem, s.next, s4.next, level, l4) /\ Present(s4.mem[p][Pt4(v)])
                 /\ \A j \in Index : j # Pt4(v) => s4.mem[p][j] = s.mem[p][j]
  <2>1. Enters(s, level, p, Pt4(v), s4)
    BY <1>6, <1>8, <1>9 DEF Enters
  <2> QED BY <1>11, <2>1, EntryFacts
<1>13. Leveled(s4.mem, s4.next, l4) /\ l4[p] = 4
  BY <1>11, <1>12 DEF Grows
<1>14. t3 \in Memory /\ l4[t3] = 3 /\ t3 \in Taken(s4.next)
  <2>1. t3 \in Memory /\ l4[t3] = 3
    <3>1. l4[p] \in 2 .. 4 /\ Pt4(v) \in Index /\ Present(s4.mem[p][Pt4(v)])
      BY <1>9, <1>12, <1>13
    <3>2. s4.mem[p][Pt4(v)].to \in Memory /\ l4[s4.mem[p][Pt4(v)].to] = l4[p] - 1
      BY <1>13, <3>1, LeadsDown
    <3>3. t3 = s4.mem[p][Pt4(v)].to
      BY <1>31
    <3>4. t3 \in Memory /\ l4[t3] = l4[p] - 1
      BY <3>2, <3>3, Zenon
    <3> QED BY <1>13, <3>4
  <2> QED BY <1>13, <2>1 DEF Leveled
<1>15. PICK l3 : /\ Grows(s4.mem, s3.mem, s4.next, s3.next, l4, l3) /\ Present(s3.mem[t3][Pt3(v)])
                 /\ \A j \in Index : s3.mem[p][j] = s4.mem[p][j]
  <2>1. Enters(s4, l4, t3, Pt3(v), s3)
    BY <1>3, <1>6, <1>8, <1>9, <1>13, <1>14 DEF Enters
  <2>2. p \in Taken(s4.next) /\ p # t3
    BY <1>13, <1>14 DEF Leveled
  <2> QED BY <2>1, <2>2, EntryFacts
<1>16. Leveled(s3.mem, s3.next, l3) /\ l3[t3] = 3 /\ l3[p] = 4
  <2>1. p \in Taken(s4.next)
    BY <1>13 DEF Leveled
  <2> QED BY <1>13, <1>14, <1>15, <2>1 DEF Grows
<1>17. t2 \in Memory /\ l3[t2] = 2 /\ t2 \in Taken(s3.next) /\ t3 \in Taken(s3.next) /\ p \in Taken(s3.next)
  <2>1. t2 \in Memory /\ l3[t2] = 2
    <3>1. l3[t3] \in 2 .. 4 /\ Pt3(v) \in Index /\ Present(s3.mem[t3][Pt3(v)])
      BY <1>9, <1>15, <1>16
    <3>2. s3.mem[t3][Pt3(v)].to \in Memory /\ l3[s3.mem[t3][Pt3(v)].to] = l3[t3] - 1
      BY <1>14, <1>16, <3>1, LeadsDown
    <3>3. t2 = s3.mem[t3][Pt3(v)].to
      BY <1>31
    <3>4. t2 \in Memory /\ l3[t2] = l3[t3] - 1
      BY <3>2, <3>3, Zenon
    <3> QED BY <1>16, <3>4
  <2> QED BY <1>14, <1>16, <2>1 DEF Leveled
<1>18. PICK l2 : /\ Grows(s3.mem, s2.mem, s3.next, s2.next, l3, l2) /\ Present(s2.mem[t2][Pt2(v)])
                 /\ \A j \in Index : s2.mem[p][j] = s3.mem[p][j]
  <2>1. Enters(s3, l3, t2, Pt2(v), s2)
    BY <1>4, <1>6, <1>8, <1>9, <1>16, <1>17 DEF Enters
  <2>2. p # t2
    BY <1>16, <1>17
  <2> QED BY <1>17, <2>1, <2>2, EntryFacts
<1>19. Leveled(s2.mem, s2.next, l2) /\ l2[p] = 4
  BY <1>16, <1>17, <1>18 DEF Grows
<1>20. s3.mem[p][Pt4(v)] = s4.mem[p][Pt4(v)] /\ s2.mem[p][Pt4(v)] = s4.mem[p][Pt4(v)]
  <2>1. p \in Taken(s4.next)
    BY <1>13 DEF Leveled
  <2>2. s3.mem[p][Pt4(v)] = s4.mem[p][Pt4(v)]
    BY <1>9, <1>12, <1>15, <2>1 DEF Grows
  <2> QED BY <1>9, <1>12, <1>17, <1>18, <2>2 DEF Grows
<1>21. s2.mem[t3][Pt3(v)] = s3.mem[t3][Pt3(v)]
  BY <1>9, <1>15, <1>17, <1>18 DEF Grows
<1>22. T3(s2.mem, p, v) = t3 /\ T2(s2.mem, p, v) = t2 /\ T1(s2.mem, p, v) = t1 /\ Deep(s2.mem, p, v)
  <2>1. T3(s2.mem, p, v) = t3
    BY <1>20, <1>31 DEF T3
  <2>2. T2(s2.mem, p, v) = t2
    BY <1>21, <1>31, <2>1 DEF T2
  <2>3. T1(s2.mem, p, v) = t1
    BY <1>31, <2>2 DEF T1
  <2> QED BY <1>12, <1>15, <1>18, <1>20, <1>21, <2>1, <2>2, <2>3 DEF Deep
<1>23. Grows(s.mem, s2.mem, s.next, s2.next, level, l2)
  <2>1. Grows(s.mem, s3.mem, s.next, s3.next, level, l3)
    BY <1>3, <1>4, <1>12, <1>15, GrowsOn
  <2> QED BY <1>3, <1>4, <1>5, <1>18, <2>1, GrowsOn
<1>24. t1 \in Memory /\ l2[t1] = 1
  <2> v \in Nat
    BY <1>9
  <2> QED BY <1>19, <1>22, LevelFacts
<1>25. Put(s2.mem, r.mem, t1, Pt1(v), x.to)
  <2>1. s2.mem \in [Memory -> [Index -> Entry]]
    BY <1>19 DEF Leveled
  <2> QED BY <1>7, <1>9, <1>24, <2>1 DEF Put
<1>26. /\ Leveled(r.mem, s2.next, l2)
       /\ \A w \in Page : Walk(r.mem, p, w) = IF w = v THEN IF Present(x.to) THEN x.to ELSE None
                                                       ELSE Walk(s2.mem, p, w)
       /\ \A u \in Memory, j \in Index : l2[u] # 1 => r.mem[u][j] = s2.mem[u][j]
  <2>1. v \in Page
    BY <1>1
  <2>2. T1(s2.mem, p, v) = t1 /\ Deep(s2.mem, p, v)
    BY <1>22
  <2>3. Puts(s2.mem, s2.next, l2, p, v, x.to, r.mem)
    BY <1>5, <1>19, <1>25, <2>1, <2>2 DEF Puts
  <2> QED BY <2>3, PutFacts
<1>27. \A w \in Page : Walk(r.mem, p, w) = IF w = v THEN x.to ELSE Walk(s.mem, p, w)
  <2>1. \A w \in Page : w \in Nat
    BY PageNat
  <2> QED BY <1>23, <1>26, <2>1 DEF Grows
<1>28. \A t \in Taken(s.next) : t \in Memory /\ l2[t] = level[t]
  BY <1>23, TakenGrows DEF Grows, Memory
<1>29. \A t \in Taken(s.next), i \in Index :
         (Present(s.mem[t][i]) /\ level[t] # 1) \/ level[t] = 0 => r.mem[t][i] = s.mem[t][i]
  <2> SUFFICES ASSUME NEW t \in Taken(s.next), NEW i \in Index, level[t] # 1,
                      Present(s.mem[t][i]) \/ level[t] = 0
               PROVE  r.mem[t][i] = s.mem[t][i]
    OBVIOUS
  <2>1. s2.mem[t][i] = s.mem[t][i]
    BY <1>23 DEF Grows
  <2> QED BY <1>26, <1>28, <2>1
<1>30. Present(r.mem[p][Pt4(v)])
  BY <1>9, <1>12, <1>19, <1>20, <1>26
<1>32. \A i \in Index : i # Pt4(v) => r.mem[p][i] = s.mem[p][i]
  BY <1>12, <1>15, <1>18, <1>19, <1>26
<1> QED BY <1>1, <1>7, <1>26, <1>27, <1>28, <1>29, <1>30, <1>32 DEF Adds

-----------------------------------------------------------------------------
(* What kmain maps, and where.                                             *)

Request == [page : Int, to : Entry]

InImage(x) == \E s \in Range(Section) : x.page \in s.start .. s.end - 1

InMemory(x) ==
  \E e \in Range(MemMap) :
    /\ e.type \in DirectlyMapped /\ x.page - Hhdm \in Base(e) .. Base(e) + Length(e) - 1
    /\ x.to = [to |-> x.page - Hhdm,
               flags |-> IF e.type = "FRAMEBUFFER" THEN {"P", "W", "PAT", "WT"} ELSE {"P", "W"}]

IsDevice(x) ==
  \E r \in {Lapic, Ioapic} : x = [page |-> Hhdm + r, to |-> [to |-> r, flags |-> {"P", "W"}]]

\* q holds the requests of start, start + 1, ... for at, at + 1, ...
Line(q, start, n, at, flags) ==
  /\ q \in Seq(Request)
  /\ \A y : y \in Range(q) <=>
       \E k \in 1 .. n : y = [page |-> start + k - 1, to |-> [to |-> at + k - 1, flags |-> flags]]

LEMMA MapAllFacts ==
  ASSUME NEW start \in Int, NEW n \in Nat, NEW at \in Int, NEW flags \in SUBSET {"P", "W", "U", "PAT", "WT"}
  PROVE  Line(MapAll(start, n, at, flags), start, n, at, flags)
<1> DEFINE q == MapAll(start, n, at, flags)
<1>1. q = [k \in 1 .. n |-> [page |-> start + k - 1, to |-> [to |-> at + k - 1, flags |-> flags]]]
  BY DEF MapAll
<1>2. ASSUME NEW k \in 1 .. n
      PROVE  [page |-> start + k - 1, to |-> [to |-> at + k - 1, flags |-> flags]] \in Request
  <2>1. start + k - 1 \in Int /\ at + k - 1 \in Int
    OBVIOUS
  <2> QED BY <2>1 DEF Request, Entry
<1> HIDE DEF q
<1>3. q \in [1 .. n -> Request]
  BY <1>1, <1>2
<1>4. q \in Seq(Request)
  BY <1>3
<1>5. DOMAIN q = 1 .. n
  BY <1>3
<1>6. \A y : y \in Range(q) <=>
        \E k \in 1 .. n : y = [page |-> start + k - 1, to |-> [to |-> at + k - 1, flags |-> flags]]
  BY <1>1, <1>5 DEF Range
<1> QED BY <1>4, <1>6 DEF Line, q

LEMMA MemMapFacts ==
  ASSUME NEW e \in Range(MemMap)
  PROVE  /\ e.base \in Nat /\ e.length \in Nat /\ Base(e) \in Nat /\ Length(e) \in Nat
         /\ Base(e) * Sub >= e.base /\ Base(e) * Sub < e.base + Sub /\ Length(e) * Sub > e.length - Sub
<1>1. MemMap \in Seq([base : Nat, length : Nat, type : STRING]) /\ Sub \in Nat \ {0}
  BY PagingAssumption
<1>2. e \in [base : Nat, length : Nat, type : STRING]
  <2>1. PICK i \in DOMAIN MemMap : e = MemMap[i]
    BY DEF Range
  <2>2. PICK R : R = [base : Nat, length : Nat, type : STRING]
    OBVIOUS
  <2>3. MemMap \in Seq(R)
    BY <1>1, <2>2
  <2>4. MemMap[i] \in R
    BY <2>3
  <2> QED BY <2>1, <2>2, <2>4
<1>3. e.base \in Nat /\ e.length \in Nat
  BY <1>2
<1>4. e.base + Sub - 1 \in Nat
  BY <1>1, <1>3
<1>5. PICK a \in Nat : a = e.base + Sub - 1
  BY <1>4
<1>6. Base(e) = a \div Sub /\ Length(e) = e.length \div Sub
  BY <1>5 DEF Base, Length
<1>7. /\ Base(e) \in Nat /\ a % Sub \in 0 .. Sub - 1 /\ a = Sub * Base(e) + (a % Sub)
  BY <1>1, <1>6, DivMod
<1>8. /\ Length(e) \in Nat /\ e.length % Sub \in 0 .. Sub - 1 /\ e.length = Sub * Length(e) + (e.length % Sub)
  BY <1>1, <1>3, <1>6, DivMod
<1>9. \A m, n \in Nat : m * n \in Nat /\ m * n = n * m
  OBVIOUS
<1>10. PICK b \in Nat : b = Base(e) * Sub /\ b = Sub * Base(e)
  BY <1>1, <1>7, <1>9
<1>11. PICK c \in Nat : c = Length(e) * Sub /\ c = Sub * Length(e)
  BY <1>1, <1>8, <1>9
<1>12. b >= e.base /\ b < e.base + Sub
  <2>1. PICK r \in 0 .. Sub - 1 : e.base + Sub - 1 = b + r
    BY <1>5, <1>7, <1>10
  <2> QED BY <1>1, <1>3, <2>1
<1>13. c > e.length - Sub
  <2>1. PICK r \in 0 .. Sub - 1 : e.length = c + r
    BY <1>8, <1>11
  <2> QED BY <1>1, <1>3, <2>1
<1> QED BY <1>3, <1>7, <1>8, <1>10, <1>11, <1>12, <1>13

LEMMA HhdmEndFacts ==
  /\ HhdmEnd \in Nat /\ Hhdm <= HhdmEnd /\ Hhdm \in Nat
  /\ \A e \in Range(MemMap) : e.type \in DirectlyMapped => Hhdm + Base(e) + Length(e) <= HhdmEnd
<1> DEFINE T == {Base(e) + Length(e) : e \in {x \in Range(MemMap) : x.type \in DirectlyMapped}}
           h == [i \in 1 .. Len(MemMap) |-> Base(MemMap[i]) + Length(MemMap[i])]
<1>1. Hhdm \in Nat /\ Len(MemMap) \in Nat /\ DOMAIN MemMap = 1 .. Len(MemMap)
  BY PagingAssumption
<1>2. \A e \in Range(MemMap) : Base(e) + Length(e) \in Nat
  BY MemMapFacts
<1>3. T \subseteq Nat
  BY <1>2
<1>4. T # {}
  BY LayoutAssumption
<1>5. h \in [1 .. Len(MemMap) -> Nat]
  BY <1>1, <1>2 DEF Range
<1>6. PICK b \in Nat : \A i \in 1 .. Len(MemMap) : h[i] <= b
  <2> HIDE DEF h
  <2> QED BY <1>1, <1>5, Bounded
<1>7. \A x \in T : x <= b
  BY <1>1, <1>6 DEF Range
<1>8. HhdmEnd = Hhdm + Max(T)
  BY DEF HhdmEnd
<1>9. \A e \in Range(MemMap) : e.type \in DirectlyMapped => Base(e) + Length(e) \in T
  OBVIOUS
<1> HIDE DEF T
<1>10. Max(T) \in T /\ \A x \in T : x <= Max(T)
  BY <1>3, <1>4, <1>7, MaxFacts
<1>11. Max(T) \in Nat
  BY <1>3, <1>10
<1>12. ASSUME NEW e \in Range(MemMap), e.type \in DirectlyMapped
       PROVE  Hhdm + Base(e) + Length(e) <= HhdmEnd
  <2>1. Base(e) \in Nat /\ Length(e) \in Nat
    BY MemMapFacts
  <2>2. Base(e) + Length(e) <= Max(T)
    BY <1>9, <1>10, <1>12
  <2> QED BY <1>1, <1>8, <1>11, <2>1, <2>2
<1> QED BY <1>1, <1>8, <1>11, <1>12

LEMMA SectionFacts ==
  ASSUME NEW s \in Range(Section), NEW flags \in SUBSET {"P", "W", "U", "PAT", "WT"}, "P" \in flags
  PROVE  /\ SectionMaps(s, flags) \in Seq(Request)
         /\ \A y \in Range(SectionMaps(s, flags)) : InImage(y) /\ Present(y.to)
<1>1. s \in [start : Nat, end : Nat]
  <2>1. Section \in [{"text", "rodata", "mut_data"} -> [start : Nat, end : Nat]]
    BY PagingAssumption
  <2> QED BY <2>1 DEF Range
<1>2. s.start \in Nat /\ s.end \in Nat /\ s.start <= s.end
  BY <1>1, LayoutAssumption
<1>3. PICK n \in Nat : n = s.end - s.start
  BY <1>2
<1>4. PICK at \in Int : at = PhysicalBase + s.start - VirtualBase
  BY <1>2, PagingAssumption
<1>6. PICK start \in Int : start = s.start
  BY <1>2
<1>5. SectionMaps(s, flags) = MapAll(start, n, at, flags)
  BY <1>3, <1>4, <1>6 DEF SectionMaps
<1>7. /\ MapAll(start, n, at, flags) \in Seq(Request)
      /\ \A y : y \in Range(MapAll(start, n, at, flags)) <=>
           \E k \in 1 .. n : y = [page |-> start + k - 1, to |-> [to |-> at + k - 1, flags |-> flags]]
  <2>1. Line(MapAll(start, n, at, flags), start, n, at, flags)
    BY MapAllFacts
  <2> QED BY <2>1 DEF Line
<1>8. ASSUME NEW y \in Range(SectionMaps(s, flags)) PROVE InImage(y) /\ Present(y.to)
  <2>1. PICK k \in 1 .. n : y = [page |-> start + k - 1, to |-> [to |-> at + k - 1, flags |-> flags]]
    BY <1>5, <1>7
  <2>2. y.page = start + k - 1 /\ y.to.flags = flags
    BY <2>1
  <2>3. y.page \in s.start .. s.end - 1
    BY <1>2, <1>3, <1>6, <2>2
  <2> QED BY <2>2, <2>3 DEF InImage, Present
<1> QED BY <1>5, <1>7, <1>8

LEMMA KernelMapsFacts ==
  /\ KernelMaps \in Seq(Request)
  /\ \A y \in Range(KernelMaps) : InImage(y) /\ Present(y.to)
<1>1. Section.text \in Range(Section) /\ Section.rodata \in Range(Section) /\ Section.mut_data \in Range(Section)
  <2>1. DOMAIN Section = {"text", "rodata", "mut_data"}
    BY PagingAssumption
  <2> QED BY <2>1 DEF Range
<1>2. PICK a : a = SectionMaps(Section.text, {"P"})
  OBVIOUS
<1>3. PICK b : b = SectionMaps(Section.rodata, {"P"})
  OBVIOUS
<1>4. PICK c : c = SectionMaps(Section.mut_data, {"P", "W"})
  OBVIOUS
<1>5. /\ a \in Seq(Request) /\ \A y \in Range(a) : InImage(y) /\ Present(y.to)
  BY <1>1, <1>2, SectionFacts
<1>6. /\ b \in Seq(Request) /\ \A y \in Range(b) : InImage(y) /\ Present(y.to)
  BY <1>1, <1>3, SectionFacts
<1>7. /\ c \in Seq(Request) /\ \A y \in Range(c) : InImage(y) /\ Present(y.to)
  BY <1>1, <1>4, SectionFacts
<1>8. KernelMaps = a \o b \o c
  BY <1>2, <1>3, <1>4 DEF KernelMaps
<1>9. a \o b \in Seq(Request) /\ \A y : y \in Range(a \o b) <=> y \in Range(a) \/ y \in Range(b)
  BY <1>5, <1>6, ConcatRange
<1>10. PICK d \in Seq(Request) : d = a \o b
  BY <1>9
<1>11. d \o c \in Seq(Request) /\ \A y : y \in Range(d \o c) <=> y \in Range(d) \/ y \in Range(c)
  BY <1>7, ConcatRange
<1> QED BY <1>5, <1>6, <1>7, <1>8, <1>9, <1>10, <1>11

MemMapFlags(e) == IF e.type = "FRAMEBUFFER" THEN {"P", "W", "PAT", "WT"} ELSE {"P", "W"}

LEMMA MemMapMapsFacts ==
  ASSUME NEW e \in Range(MemMap)
  PROVE  /\ MemMapMaps(e) \in Seq(Request)
         /\ \A y \in Range(MemMapMaps(e)) : InMemory(y) /\ Present(y.to)
         /\ e.type \in DirectlyMapped =>
              \A f \in Base(e) .. Base(e) + Length(e) - 1 : \E y \in Range(MemMapMaps(e)) : y.page = Hhdm + f
<1>0. Base(e) \in Nat /\ Length(e) \in Nat /\ Hhdm \in Nat
  BY MemMapFacts, PagingAssumption
<1>1. CASE e.type \notin DirectlyMapped
  <2>1. MemMapMaps(e) = <<>>
    BY <1>1 DEF MemMapMaps
  <2>2. MemMapMaps(e) \in Seq(Request) /\ Range(MemMapMaps(e)) = {}
    BY <2>1 DEF Range
  <2> QED BY <1>1, <2>2
<1>2. CASE e.type \in DirectlyMapped
  <2>1. PICK flags \in SUBSET {"P", "W", "U", "PAT", "WT"} : flags = MemMapFlags(e) /\ "P" \in flags
    <3>1. MemMapFlags(e) = {"P", "W", "PAT", "WT"} \/ MemMapFlags(e) = {"P", "W"}
      BY DEF MemMapFlags
    <3>2. MemMapFlags(e) \in SUBSET {"P", "W", "U", "PAT", "WT"} /\ "P" \in MemMapFlags(e)
      BY <3>1
    <3> QED BY <3>2
  <2>2. PICK start \in Int : start = Hhdm + Base(e)
    BY <1>0
  <2>4. PICK at \in Nat, n \in Nat : at = Base(e) /\ n = Length(e)
    BY <1>0
  <2>3. MemMapMaps(e) = MapAll(start, n, at, flags)
    BY <1>2, <2>1, <2>2, <2>4 DEF MemMapMaps, MemMapFlags
  <2>5. /\ MemMapMaps(e) \in Seq(Request)
        /\ \A y : y \in Range(MemMapMaps(e)) <=>
             \E k \in 1 .. n :
               y = [page |-> start + k - 1, to |-> [to |-> at + k - 1, flags |-> flags]]
    <3>1. Line(MapAll(start, n, at, flags), start, n, at, flags)
      BY MapAllFacts
    <3> QED BY <2>3, <3>1 DEF Line
  <2>6. ASSUME NEW y \in Range(MemMapMaps(e)) PROVE InMemory(y) /\ Present(y.to)
    <3>1. PICK k \in 1 .. n :
            y = [page |-> start + k - 1, to |-> [to |-> at + k - 1, flags |-> flags]]
      BY <2>5
    <3>2. y.page = start + k - 1 /\ y.to = [to |-> at + k - 1, flags |-> flags]
      BY <3>1
    <3>3. y.page - Hhdm = Base(e) + k - 1 /\ y.page - Hhdm \in Base(e) .. Base(e) + Length(e) - 1
      BY <1>0, <2>2, <2>4, <3>2
    <3>4. y.to = [to |-> y.page - Hhdm, flags |-> MemMapFlags(e)]
      BY <2>1, <2>4, <3>2, <3>3
    <3>5. InMemory(y)
      BY <1>2, <3>3, <3>4 DEF InMemory, MemMapFlags
    <3> QED BY <2>1, <3>2, <3>5 DEF Present
  <2>7. ASSUME NEW f \in Base(e) .. Base(e) + Length(e) - 1
        PROVE  \E y \in Range(MemMapMaps(e)) : y.page = Hhdm + f
    <3>1. PICK k : k = f - Base(e) + 1
      OBVIOUS
    <3>2. k \in 1 .. n /\ start + k - 1 = Hhdm + f
      BY <1>0, <2>2, <2>4, <3>1
    <3>3. PICK y : y = [page |-> start + k - 1, to |-> [to |-> at + k - 1, flags |-> flags]]
      OBVIOUS
    <3>4. y \in Range(MemMapMaps(e))
      BY <2>5, <3>2, <3>3
    <3>5. y.page = Hhdm + f
      BY <3>2, <3>3
    <3> QED BY <3>4, <3>5
  <2> QED BY <2>5, <2>6, <2>7
<1> QED BY <1>1, <1>2

LEMMA BootFacts ==
  /\ BootMaps \in Seq(Request)
  /\ \A y \in Range(BootMaps) : (InImage(y) \/ InMemory(y)) /\ Present(y.to)
  /\ \A e \in Range(MemMap) : e.type \in DirectlyMapped =>
       \A f \in Base(e) .. Base(e) + Length(e) - 1 : \E y \in Range(BootMaps) : y.page = Hhdm + f
<1> DEFINE s == [i \in DOMAIN MemMap |-> MemMapMaps(MemMap[i])]
<1>1. Len(MemMap) \in Nat /\ DOMAIN MemMap = 1 .. Len(MemMap)
  BY PagingAssumption
<1>2. \A i \in DOMAIN MemMap : MemMap[i] \in Range(MemMap) /\ s[i] = MemMapMaps(MemMap[i])
  BY DEF Range
<1>3. s \in [1 .. Len(MemMap) -> Seq(Request)]
  BY <1>1, <1>2, MemMapMapsFacts
<1> HIDE DEF s
<1>4. s \in Seq(Seq(Request)) /\ Len(s) = Len(MemMap)
  BY <1>1, <1>3
<1>5. /\ FlattenSeq(s) \in Seq(Request)
      /\ \A y : y \in Range(FlattenSeq(s)) <=> \E k \in 1 .. Len(s) : y \in Range(s[k])
  BY <1>4, FlattenFacts
<1>6. BootMaps = KernelMaps \o FlattenSeq(s)
  BY DEF BootMaps, s
<1>7. /\ KernelMaps \o FlattenSeq(s) \in Seq(Request)
      /\ \A y : y \in Range(KernelMaps \o FlattenSeq(s)) <=> y \in Range(KernelMaps) \/ y \in Range(FlattenSeq(s))
  BY <1>5, KernelMapsFacts, ConcatRange
<1>8. ASSUME NEW y \in Range(BootMaps) PROVE (InImage(y) \/ InMemory(y)) /\ Present(y.to)
  <2>1. CASE y \in Range(KernelMaps)
    BY <2>1, KernelMapsFacts
  <2>2. CASE y \in Range(FlattenSeq(s))
    <3>1. PICK k \in 1 .. Len(s) : y \in Range(s[k])
      BY <1>5, <2>2
    <3>2. y \in Range(MemMapMaps(MemMap[k])) /\ MemMap[k] \in Range(MemMap)
      BY <1>1, <1>2, <1>4, <3>1
    <3> QED BY <3>2, MemMapMapsFacts
  <2> QED BY <1>6, <1>7, <2>1, <2>2
<1>9. ASSUME NEW e \in Range(MemMap), e.type \in DirectlyMapped, NEW f \in Base(e) .. Base(e) + Length(e) - 1
      PROVE  \E y \in Range(BootMaps) : y.page = Hhdm + f
  <2>1. PICK y \in Range(MemMapMaps(e)) : y.page = Hhdm + f
    BY <1>9, MemMapMapsFacts
  <2>2. PICK k \in DOMAIN MemMap : e = MemMap[k]
    BY DEF Range
  <2>3. k \in 1 .. Len(s) /\ y \in Range(s[k])
    BY <1>1, <1>2, <1>4, <2>1, <2>2
  <2> QED BY <1>5, <1>6, <1>7, <2>1, <2>3
<1> QED BY <1>6, <1>7, <1>8, <1>9

LEMMA HeapFacts ==
  /\ HhdmEnd \in Nat /\ Hhdm \in Nat /\ Hhdm <= HhdmEnd /\ HeapPages \in Nat /\ Heap \subseteq Page
  /\ Top \in Nat /\ HhdmEnd + HeapPages <= Top
  /\ \A v : v \in Heap <=> v \in Int /\ HhdmEnd <= v /\ v < HhdmEnd + HeapPages
<1>1. /\ HhdmEnd \in Nat /\ Hhdm \in Nat /\ Hhdm <= HhdmEnd /\ HeapPages \in Nat /\ Top \in Nat
  BY HhdmEndFacts, PageNat, PagingAssumption
<1>2. HhdmEnd + HeapPages <= Top
  BY LayoutAssumption
<1>3. \A v : v \in Heap <=> v \in Int /\ HhdmEnd <= v /\ v < HhdmEnd + HeapPages
  BY <1>1 DEF Heap
<1>4. Heap \subseteq Page
  BY <1>1, <1>2, <1>3 DEF Page
<1> QED BY <1>1, <1>2, <1>3, <1>4

\* Where the pages of kmain's maps are: the image's behind the heap's, the direct
\* map's before it.
LEMMA ImageFacts ==
  ASSUME NEW x, InImage(x)
  PROVE  x.page \in Page /\ HhdmEnd + HeapPages <= x.page /\ \A r \in {Lapic, Ioapic} : x.page # Hhdm + r
<1>1. PICK s \in Range(Section) : x.page \in s.start .. s.end - 1
  BY DEF InImage
<1>2. s \in [start : Nat, end : Nat]
  <2>1. Section \in [{"text", "rodata", "mut_data"} -> [start : Nat, end : Nat]]
    BY PagingAssumption
  <2> QED BY <2>1 DEF Range
<1>3. s.start \in Nat /\ s.end \in Nat
  BY <1>2
<1>4. /\ HhdmEnd + HeapPages <= s.start /\ s.end <= Top
      /\ \A r \in {Lapic, Ioapic} : Hhdm + r \notin s.start .. s.end - 1
  BY LayoutAssumption
<1>5. \A r \in {Lapic, Ioapic} : x.page # Hhdm + r
  BY <1>1, <1>4
<1>6. x.page \in Page /\ HhdmEnd + HeapPages <= x.page
  BY <1>1, <1>3, <1>4, HeapFacts DEF Page
<1> QED BY <1>5, <1>6

LEMMA MemoryFacts ==
  ASSUME NEW x, x.page \in Int, InMemory(x)
  PROVE  /\ x.page \in Page /\ Hhdm <= x.page /\ x.page < HhdmEnd
         /\ x.to.to = x.page - Hhdm
         /\ x.page - Hhdm \in UsableFrames \cup {Lapic, Ioapic} => x.to = [to |-> x.page - Hhdm, flags |-> {"P", "W"}]
<1>1. PICK e \in Range(MemMap) :
        /\ e.type \in DirectlyMapped /\ x.page - Hhdm \in Base(e) .. Base(e) + Length(e) - 1
        /\ x.to = [to |-> x.page - Hhdm,
                   flags |-> IF e.type = "FRAMEBUFFER" THEN {"P", "W", "PAT", "WT"} ELSE {"P", "W"}]
  BY DEF InMemory
<1>2. Base(e) \in Nat /\ Length(e) \in Nat
  BY MemMapFacts
<1>3. Hhdm + Base(e) + Length(e) <= HhdmEnd
  BY <1>1, HhdmEndFacts
<1>4. Hhdm <= x.page /\ x.page < HhdmEnd
  BY <1>1, <1>2, <1>3, HeapFacts
<1>5. x.page \in Page
  BY <1>4, HeapFacts DEF Page
<1>6. ASSUME x.page - Hhdm \in UsableFrames \cup {Lapic, Ioapic} PROVE e.type # "FRAMEBUFFER"
  BY <1>1, <1>6, LayoutAssumption DEF FramesOf
<1> QED BY <1>1, <1>4, <1>5, <1>6

LEMMA DeviceFacts ==
  ASSUME NEW x, IsDevice(x)
  PROVE  /\ x \in Request /\ x.page \in Page /\ Hhdm <= x.page /\ Present(x.to)
         /\ x.page \in ControllerPages /\ x.to = [to |-> x.page - Hhdm, flags |-> {"P", "W"}]
<1>1. PICK r \in {Lapic, Ioapic} : x = [page |-> Hhdm + r, to |-> [to |-> r, flags |-> {"P", "W"}]]
  BY DEF IsDevice
<1>2. r \in Nat /\ Hhdm \in Nat /\ Hhdm + r < Top
  <2>1. \E s : s \in Range(Section)
    <3>1. DOMAIN Section = {"text", "rodata", "mut_data"}
      BY PagingAssumption
    <3>2. Section["text"] \in Range(Section)
      BY <3>1 DEF Range
    <3> QED BY <3>2
  <2>2. Hhdm + r < Top
    BY <2>1, LayoutAssumption
  <2> QED BY <2>2, PagingAssumption
<1>3. x.page = Hhdm + r /\ x.to = [to |-> r, flags |-> {"P", "W"}] /\ x.to.flags = {"P", "W"}
  BY <1>1
<1>4. x.page \in Page /\ Hhdm <= x.page /\ x.page - Hhdm = r
  BY <1>2, <1>3, PageNat DEF Page
<1>5. x.to \in Entry
  BY <1>2, <1>3 DEF Entry
<1>6. x \in Request
  <2>1. x.page \in Int
    BY <1>2, <1>3
  <2> QED BY <1>1, <1>3, <1>5, <2>1 DEF Request
<1>7. x.page \in ControllerPages
  BY <1>3 DEF ControllerPages
<1> QED BY <1>3, <1>4, <1>6, <1>7 DEF Present

LEMMA StartFacts ==
  /\ Len(BootMaps) \in Nat /\ Len(StartMaps) = Len(BootMaps) + 2 /\ DOMAIN StartMaps = 1 .. Len(StartMaps)
  /\ \A k \in 1 .. Len(StartMaps) : StartMaps[k] \in Range(StartMaps)
  /\ \A k \in 1 .. Len(BootMaps) : StartMaps[k] \in Range(BootMaps)
  /\ \A k \in 1 .. Len(StartMaps) : k > Len(BootMaps) => IsDevice(StartMaps[k])
  /\ \A x \in Range(StartMaps) : x \in Range(BootMaps) \/ IsDevice(x)
  /\ \A x \in Range(BootMaps) : \E k \in 1 .. Len(BootMaps) : StartMaps[k] = x
<1> DEFINE a == [page |-> Hhdm + Lapic, to |-> [to |-> Lapic, flags |-> {"P", "W"}]]
           b == [page |-> Hhdm + Ioapic, to |-> [to |-> Ioapic, flags |-> {"P", "W"}]]
<1>1. IsDevice(a) /\ IsDevice(b)
  BY DEF IsDevice
<1>2. a \in Request /\ b \in Request
  BY <1>1, DeviceFacts
<1>3. MapAll(Hhdm + Lapic, 1, Lapic, {"P", "W"}) = <<a>> /\ MapAll(Hhdm + Ioapic, 1, Ioapic, {"P", "W"}) = <<b>>
  <2>0. Hhdm \in Nat /\ Lapic \in Nat /\ Ioapic \in Nat
    BY PagingAssumption
  <2>1. \A i \in 1 .. 1 : i = 1
    OBVIOUS
  <2>2. Hhdm + Lapic + 1 - 1 = Hhdm + Lapic /\ Lapic + 1 - 1 = Lapic
    BY <2>0
  <2>3. Hhdm + Ioapic + 1 - 1 = Hhdm + Ioapic /\ Ioapic + 1 - 1 = Ioapic
    BY <2>0
  <2>4. MapAll(Hhdm + Lapic, 1, Lapic, {"P", "W"}) = [i \in 1 .. 1 |-> a]
    BY <2>1, <2>2 DEF MapAll
  <2>5. MapAll(Hhdm + Ioapic, 1, Ioapic, {"P", "W"}) = [i \in 1 .. 1 |-> b]
    BY <2>1, <2>3 DEF MapAll
  <2> HIDE DEF a, b
  <2> QED BY <2>4, <2>5
<1> HIDE DEF a, b
<1>4. PICK u \in Seq(Request), w \in Seq(Request) :
        u = <<a>> /\ w = <<b>> /\ Len(u) = 1 /\ Len(w) = 1 /\ u[1] = a /\ w[1] = b
  <2>1. <<a>> \in Seq(Request) /\ <<b>> \in Seq(Request)
    BY <1>2
  <2>2. Len(<<a>>) = 1 /\ Len(<<b>>) = 1 /\ <<a>>[1] = a /\ <<b>>[1] = b
    OBVIOUS
  <2> QED BY <2>1, <2>2
<1>5. PICK d : d = u \o w /\ d = DeviceMaps
  BY <1>3, <1>4 DEF DeviceMaps
<1>6. d \in Seq(Request) /\ Len(d) = 2 /\ d[1] = a /\ d[2] = b
  <2>1. /\ u \o w \in Seq(Request) /\ Len(u \o w) = Len(u) + Len(w)
        /\ \A k \in 1 .. Len(u) : (u \o w)[k] = u[k]
        /\ \A k \in 1 .. Len(w) : (u \o w)[Len(u) + k] = w[k]
    BY ConcatRange
  <2> QED BY <1>4, <1>5, <2>1
<1>7. \A y \in Range(d) : IsDevice(y)
  <2>1. DOMAIN d = 1 .. 2 /\ \A i \in 1 .. 2 : i = 1 \/ i = 2
    BY <1>6
  <2> QED BY <1>1, <1>6, <2>1 DEF Range
<1>8. StartMaps = BootMaps \o d
  BY <1>5 DEF StartMaps
<1>9. BootMaps \in Seq(Request) /\ Len(BootMaps) \in Nat
  BY BootFacts
<1>10. /\ BootMaps \o d \in Seq(Request) /\ Len(BootMaps \o d) = Len(BootMaps) + Len(d)
       /\ \A k \in 1 .. Len(BootMaps) : (BootMaps \o d)[k] = BootMaps[k]
       /\ \A k \in 1 .. Len(d) : (BootMaps \o d)[Len(BootMaps) + k] = d[k]
       /\ \A y : y \in Range(BootMaps \o d) <=> y \in Range(BootMaps) \/ y \in Range(d)
  BY <1>6, <1>9, ConcatRange
<1>11. Len(StartMaps) = Len(BootMaps) + 2 /\ DOMAIN StartMaps = 1 .. Len(StartMaps)
  BY <1>6, <1>8, <1>10
<1>12. \A k \in 1 .. Len(StartMaps) : StartMaps[k] \in Range(StartMaps)
  BY <1>11 DEF Range
<1>13. \A k \in 1 .. Len(BootMaps) : StartMaps[k] \in Range(BootMaps) /\ StartMaps[k] = BootMaps[k]
  BY <1>8, <1>9, <1>10 DEF Range
<1>14. ASSUME NEW k \in 1 .. Len(StartMaps), k > Len(BootMaps) PROVE IsDevice(StartMaps[k])
  <2>1. PICK j \in 1 .. 2 : k = Len(BootMaps) + j
    <3>1. k - Len(BootMaps) \in 1 .. 2 /\ k = Len(BootMaps) + (k - Len(BootMaps))
      BY <1>9, <1>11, <1>14
    <3> QED BY <3>1
  <2>2. StartMaps[k] = d[j] /\ d[j] \in Range(d)
    BY <1>6, <1>8, <1>10, <2>1 DEF Range
  <2> QED BY <1>7, <2>2
<1>15. \A x \in Range(StartMaps) : x \in Range(BootMaps) \/ IsDevice(x)
  BY <1>7, <1>8, <1>10
<1>16. \A x \in Range(BootMaps) : \E k \in 1 .. Len(BootMaps) : StartMaps[k] = x
  <2>1. DOMAIN BootMaps = 1 .. Len(BootMaps)
    BY <1>9
  <2> QED BY <1>13, <2>1 DEF Range
<1> QED BY <1>9, <1>11, <1>12, <1>13, <1>14, <1>15, <1>16

\* A map of kmain is of a page that there is, to a present entry; in the heap's range
\* only controllers' pages are mapped, and wherever these are mapped before, it is
\* to their own frames.
LEMMA MapFacts ==
  ASSUME NEW x \in Range(StartMaps)
  PROVE  /\ x \in Request /\ x.page \in Page /\ x.to \in Entry /\ Present(x.to) /\ Hhdm <= x.page
         /\ x.page \in Heap => IsDevice(x)
         /\ x \in Range(BootMaps) => x.page \notin Heap
         /\ x.page < HhdmEnd => x.to.to = x.page - Hhdm
         /\ x.page < HhdmEnd /\ x.page - Hhdm \in UsableFrames => x.to = [to |-> x.page - Hhdm, flags |-> {"P", "W"}]
         /\ x.page \in ControllerPages => x.to = [to |-> x.page - Hhdm, flags |-> {"P", "W"}]
<1>0. x \in Range(BootMaps) \/ IsDevice(x)
  BY StartFacts
<1>1. CASE IsDevice(x)
  <2>1. /\ x \in Request /\ x.page \in Page /\ Hhdm <= x.page /\ Present(x.to)
        /\ x.to = [to |-> x.page - Hhdm, flags |-> {"P", "W"}]
    BY <1>1, DeviceFacts
  <2>2. x.to \in Entry /\ x.to.to = x.page - Hhdm
    BY <2>1 DEF Request
  <2>3. CASE x \notin Range(BootMaps)
    BY <1>1, <2>1, <2>2, <2>3
  <2>4. CASE x \in Range(BootMaps)
    <3>1. x.page \in Int
      BY <2>1 DEF Request
    <3>2. InImage(x) \/ InMemory(x)
      BY <2>4, BootFacts
    <3>3. x.page \notin Heap
      <4>1. CASE InImage(x)
        <5>1. HhdmEnd + HeapPages <= x.page
          BY <4>1, ImageFacts
        <5> QED BY <3>1, <5>1, HeapFacts
      <4>2. CASE InMemory(x)
        <5>1. x.page < HhdmEnd
          BY <3>1, <4>2, MemoryFacts
        <5> QED BY <3>1, <5>1, HeapFacts
      <4> QED BY <3>2, <4>1, <4>2
    <3> QED BY <1>1, <2>1, <2>2, <3>3
  <2> QED BY <2>3, <2>4
<1>2. CASE x \in Range(BootMaps)
  <2>1. x \in Request
    <3>1. BootMaps \in Seq(Request)
      BY BootFacts
    <3> QED BY <1>2, <3>1 DEF Range
  <2>2. x.page \in Int /\ x.to \in Entry /\ Present(x.to) /\ (InImage(x) \/ InMemory(x))
    BY <1>2, <2>1, BootFacts DEF Request
  <2>3. CASE InImage(x)
    <3>1. /\ x.page \in Page /\ HhdmEnd + HeapPages <= x.page
          /\ \A r \in {Lapic, Ioapic} : x.page # Hhdm + r
      BY <2>3, ImageFacts
    <3>2. x.page \notin Heap /\ Hhdm <= x.page /\ ~(x.page < HhdmEnd)
      BY <2>2, <3>1, HeapFacts
    <3>3. x.page \notin ControllerPages
      BY <3>1 DEF ControllerPages
    <3> QED BY <2>1, <2>2, <3>1, <3>2, <3>3
  <2>4. CASE InMemory(x)
    <3>1. /\ x.page \in Page /\ Hhdm <= x.page /\ x.page < HhdmEnd /\ x.to.to = x.page - Hhdm
          /\ x.page - Hhdm \in UsableFrames \cup {Lapic, Ioapic} => x.to = [to |-> x.page - Hhdm, flags |-> {"P", "W"}]
      BY <2>2, <2>4, MemoryFacts
    <3>2. x.page \notin Heap
      BY <3>1, HeapFacts
    <3>3. ASSUME x.page \in ControllerPages PROVE x.page - Hhdm \in {Lapic, Ioapic}
      BY <3>3, PagingAssumption DEF ControllerPages
    <3> QED BY <2>1, <2>2, <3>1, <3>2, <3>3
  <2> QED BY <2>2, <2>3, <2>4
<1> QED BY <1>0, <1>1, <1>2

LEMMA KernelIndex ==
  ASSUME NEW k \in 1 .. Len(BootMaps)
  PROVE  /\ StartMaps[k] \in Range(StartMaps) /\ StartMaps[k] \in Range(BootMaps)
         /\ StartMaps[k].page \in Page /\ Pt4(StartMaps[k].page) \in KernelHalf /\ StartMaps[k].page \notin Heap
<1>1. k \in 1 .. Len(StartMaps)
  BY StartFacts
<1>2. StartMaps[k] \in Range(StartMaps) /\ StartMaps[k] \in Range(BootMaps)
  BY <1>1, StartFacts
<1>3. StartMaps[k].page \in Page /\ Hhdm <= StartMaps[k].page /\ StartMaps[k].page \notin Heap
  BY <1>2, MapFacts
<1>4. StartMaps[k].page \in Hhdm .. Top - 1
  BY <1>3, HeapFacts DEF Page
<1> QED BY <1>2, <1>3, <1>4, LayoutAssumption

\* A frame of memory that kmain maps has a page in the direct map.
LEMMA HhdmFacts ==
  ASSUME NEW e \in Range(MemMap), e.type \in DirectlyMapped, NEW f \in Base(e) .. Base(e) + Length(e) - 1
  PROVE  /\ \E k \in 1 .. Len(BootMaps) : StartMaps[k].page = Hhdm + f
         /\ Hhdm + f \in Page /\ Hhdm + f < HhdmEnd /\ Hhdm + f \notin Heap /\ (Hhdm + f) - Hhdm = f
<1>1. \E k \in 1 .. Len(BootMaps) : StartMaps[k].page = Hhdm + f
  BY BootFacts, StartFacts
<1>2. Base(e) \in Nat /\ Length(e) \in Nat
  BY MemMapFacts
<1>3. Hhdm + Base(e) + Length(e) <= HhdmEnd
  BY HhdmEndFacts
<1>4. Hhdm + f < HhdmEnd /\ Hhdm + f \in Nat /\ (Hhdm + f) - Hhdm = f
  BY <1>2, <1>3, HeapFacts
<1>5. Hhdm + f \in Page /\ Hhdm + f \notin Heap
  BY <1>4, HeapFacts DEF Page
<1> QED BY <1>1, <1>4, <1>5

-----------------------------------------------------------------------------
(* What the steps do to the tables.                                        *)

LEMMA MinFacts ==
  ASSUME NEW a \in Nat
  PROVE  Min({a, Len(Pool)}) \in Nat /\ Taken(Min({a, Len(Pool)})) = Taken(a)
<1>1. Len(Pool) \in Nat
  BY PagingAssumption
<1>2. Min({a, Len(Pool)}) \in {a, Len(Pool)} /\ \A y \in {a, Len(Pool)} : Min({a, Len(Pool)}) <= y
  <2>1. \E x \in {a, Len(Pool)} : \A y \in {a, Len(Pool)} : x <= y
    <3>1. a <= Len(Pool) \/ Len(Pool) <= a
      BY <1>1
    <3> QED BY <1>1, <3>1
  <2> QED BY <2>1 DEF Min
<1>3. PICK b : b = Min({a, Len(Pool)})
  OBVIOUS
<1>4. b \in Nat /\ (b = a \/ (b = Len(Pool) /\ b <= a))
  BY <1>1, <1>2, <1>3
<1>5. \A j \in 1 .. Len(Pool) : j <= b <=> j <= a
  BY <1>1, <1>2, <1>3, <1>4
<1>6. Taken(b) = Taken(a)
  BY <1>5 DEF Taken
<1> QED BY <1>3, <1>4, <1>6

LEMMA LeveledMore ==
  ASSUME NEW m, NEW n, NEW k, NEW level, Leveled(m, n, level), Taken(n) \subseteq Taken(k)
  PROVE  Leveled(m, k, level)
<1>1. \A f \in Memory : level[f] # 0 => f \in Taken(k)
  BY DEF Leveled
<1> QED BY <1>1 DEF Leveled

LEMMA WalkPresent ==
  ASSUME NEW m, NEW n, NEW level, Leveled(m, n, level), NEW p \in Memory, level[p] = 4, NEW v \in Nat
  PROVE  /\ Walk(m, p, v) # None <=> Present(Walk(m, p, v))
         /\ Present(Walk(m, p, v)) => Deep(m, p, v) /\ Present(m[p][Pt4(v)])
<1>1. Walk(m, p, v) = IF Deep(m, p, v) /\ Present(m[T1(m, p, v)][Pt1(v)])
                        THEN m[T1(m, p, v)][Pt1(v)] ELSE None
  BY WalkFacts
<1>2. Deep(m, p, v) => Present(m[p][Pt4(v)])
  BY DEF Deep
<1> QED BY <1>1, <1>2, NoneFacts

\* Rows of no kernel table do not matter to a walk.
LEMMA SameWalk ==
  ASSUME NEW m, NEW n, NEW level, Leveled(m, n, level), NEW p \in Memory, level[p] = 4, NEW v \in Nat,
         NEW r, \A t \in Memory : level[t] # 0 => r[t] = m[t]
  PROVE  Walk(r, p, v) = Walk(m, p, v)
<1>1. r[p] = m[p]
  OBVIOUS
<1>2. /\ Present(m[p][Pt4(v)]) => T3(m, p, v) \in Memory /\ level[T3(m, p, v)] = 3
      /\ Present(m[p][Pt4(v)]) /\ Present(m[T3(m, p, v)][Pt3(v)]) =>
           T2(m, p, v) \in Memory /\ level[T2(m, p, v)] = 2
      /\ Deep(m, p, v) => T1(m, p, v) \in Memory /\ level[T1(m, p, v)] = 1
  BY LevelFacts
<1>3. T3(r, p, v) = T3(m, p, v)
  BY <1>1 DEF T3
<1>4. CASE ~Present(m[p][Pt4(v)])
  BY <1>1, <1>4 DEF Walk
<1>5. CASE Present(m[p][Pt4(v)])
  <2>1. r[T3(m, p, v)] = m[T3(m, p, v)] /\ T2(r, p, v) = T2(m, p, v)
    BY <1>2, <1>3, <1>5 DEF T2
  <2>2. CASE ~Present(m[T3(m, p, v)][Pt3(v)])
    BY <1>1, <2>1, <2>2 DEF Walk, T3
  <2>3. CASE Present(m[T3(m, p, v)][Pt3(v)])
    <3>1. r[T2(m, p, v)] = m[T2(m, p, v)] /\ T1(r, p, v) = T1(m, p, v)
      BY <1>2, <1>5, <2>1, <2>3 DEF T1
    <3>2. CASE ~Present(m[T2(m, p, v)][Pt2(v)])
      BY <1>1, <2>1, <3>1, <3>2 DEF Walk, T3, T2
    <3>3. CASE Present(m[T2(m, p, v)][Pt2(v)])
      <4>1. r[T1(m, p, v)] = m[T1(m, p, v)]
        BY <1>2, <1>5, <2>3, <3>3 DEF Deep
      <4> QED BY <1>1, <2>1, <3>1, <4>1 DEF Walk, T3, T2, T1
    <3> QED BY <3>2, <3>3
  <2> QED BY <2>2, <2>3
<1> QED BY <1>4, <1>5

\* The processor finds what the kernel's tables show, or nothing.
LEMMA SeenBy ==
  ASSUME Types, Views, cr3 # 0, NEW v \in Nat
  PROVE  /\ Walk(mem, cr3, v) \in {None, Walk(mem, pt, v)}
         /\ (cr3 = pt \/ Present(mem[cr3][Pt4(v)])) => Walk(mem, cr3, v) = Walk(mem, pt, v)
<1>1. CASE cr3 = pt
  BY <1>1
<1>2. CASE cr3 \in Range(users)
  <2>1. Pt4(v) \in Index
    BY IndexFacts
  <2>2. \/ mem[cr3][Pt4(v)] = None
        \/ Present(mem[cr3][Pt4(v)]) /\ mem[cr3][Pt4(v)] = mem[pt][Pt4(v)]
    BY <1>2, <2>1 DEF Views
  <2>3. CASE mem[cr3][Pt4(v)] = None
    <3>1. ~Present(mem[cr3][Pt4(v)])
      BY <2>3, NoneFacts
    <3>2. Walk(mem, cr3, v) = None
      BY <3>1 DEF Walk
    <3>3. cr3 # pt \/ Walk(mem, cr3, v) = Walk(mem, pt, v)
      OBVIOUS
    <3> QED BY <3>1, <3>2, <3>3
  <2>4. CASE mem[cr3][Pt4(v)] = mem[pt][Pt4(v)]
    <3>1. Walk(mem, cr3, v) = Walk(mem, pt, v)
      BY <2>4 DEF Walk
    <3> QED BY <3>1
  <2> QED BY <2>2, <2>3, <2>4
<1> QED BY <1>1, <1>2 DEF Types

\* A step that calls pt_map: it goes through, or memory ran out.
Mapping(x) ==
  /\ wild' \in BOOLEAN /\ next' \in Nat /\ mem' \in [Memory -> [Index -> Entry]]
  /\ Taken(next) \subseteq Taken(next')
  /\ \E level \in [Memory -> 0 .. 4] :
       Leveled(mem', next', level) /\ level[pt] = 4 /\ \A u \in Range(users) : level[u] = 0
  /\ wild' => mem' = mem
  /\ ~wild' => \A w \in Page : Walk(mem', pt, w) = IF w = x.page THEN x.to ELSE Walk(mem, pt, w)
  /\ \A u \in Range(users), i \in Index : mem'[u][i] = mem[u][i]
  /\ \A i \in Index : Present(mem[pt][i]) \/ i # Pt4(x.page) => mem'[pt][i] = mem[pt][i]
  /\ ~wild' => Present(mem'[pt][Pt4(x.page)])

LEMMA MapsFacts ==
  ASSUME Types, NEW level \in [Memory -> 0 .. 4], Tree(level),
         NEW x, x.page \in Page, x.to \in Entry, Present(x.to), NEW taken \in Nat, Maps(x, taken)
  PROVE  Mapping(x)
<1>1. PICK s : s = [mem |-> mem, next |-> next + taken]
  OBVIOUS
<1>2. PICK r : r = PtMap(s, pt, x)
  OBVIOUS
<1>3. next \in Nat /\ pt \in Memory /\ s.mem = mem /\ s.next = next + taken /\ s.next \in Nat
      /\ s = [mem |-> s.mem, next |-> s.next]
  BY <1>1 DEF Types
<1>4. /\ next' = Min({r.next, Len(Pool)})
      /\ wild' \in BOOLEAN /\ (r.next > Len(Pool) /\ r.next > next + taken => wild')
      /\ mem' = IF wild' THEN mem ELSE r.mem
  BY <1>1, <1>2 DEF Maps, WorksOn
<1>5. r.next \in Nat /\ s.next <= r.next
  BY <1>2, <1>3, PtMapNext
<1>6. next' \in Nat /\ Taken(next') = Taken(r.next)
  BY <1>4, <1>5, MinFacts
<1>7. Taken(next) \subseteq Taken(s.next) /\ Taken(s.next) \subseteq Taken(next')
  <2>1. next <= s.next
    BY <1>3
  <2> QED BY <1>3, <1>5, <1>6, <2>1, TakenGrows
<1>8. Leveled(mem, next, level) /\ level[pt] = 4 /\ \A u \in Range(users) : level[u] = 0
  BY DEF Tree
<1>9. Leveled(s.mem, s.next, level)
  BY <1>3, <1>7, <1>8, LeveledMore
<1>10. wild' \in BOOLEAN
  BY <1>4
<1>11. CASE wild'
  <2>1. mem' = mem
    BY <1>4, <1>11
  <2>2. Taken(next) \subseteq Taken(next')
    BY <1>7
  <2>3. Leveled(mem', next', level)
    BY <1>8, <2>1, <2>2, LeveledMore
  <2>4. mem' \in [Memory -> [Index -> Entry]]
    BY <2>3 DEF Leveled
  <2> QED BY <1>6, <1>8, <1>10, <1>11, <2>1, <2>2, <2>3, <2>4 DEF Mapping
<1>12. CASE ~wild'
  <2>1. mem' = r.mem
    BY <1>4, <1>12
  <2>2. r.next = s.next \/ r.next <= Len(Pool)
    <3>1. Len(Pool) \in Nat
      BY PagingAssumption
    <3>2. ~(r.next > Len(Pool) /\ r.next > s.next)
      BY <1>3, <1>4, <1>12
    <3> QED BY <1>3, <1>5, <3>1, <3>2
  <2>3. PICK new : Adds(s.mem, r.mem, s.next, r.next, level, new, pt, x)
    BY <1>2, <1>3, <1>8, <1>9, <2>2, PtMapFacts
  <2>4. /\ Leveled(r.mem, r.next, new)
        /\ \A t \in Taken(s.next) : new[t] = level[t]
        /\ \A t \in Taken(s.next), i \in Index :
             (Present(mem[t][i]) /\ level[t] # 1) \/ level[t] = 0 => r.mem[t][i] = mem[t][i]
        /\ \A w \in Page : Walk(r.mem, pt, w) = IF w = x.page THEN x.to ELSE Walk(mem, pt, w)
        /\ Present(r.mem[pt][Pt4(x.page)])
        /\ \A i \in Index : i # Pt4(x.page) => r.mem[pt][i] = mem[pt][i]
    BY <1>3, <2>3 DEF Adds
  <2>5. Taken(r.next) \subseteq Taken(next')
    BY <1>6
  <2>6. Leveled(mem', next', new)
    BY <2>1, <2>4, <2>5, LeveledMore
  <2>7. new \in [Memory -> 0 .. 4] /\ mem' \in [Memory -> [Index -> Entry]]
    BY <2>6 DEF Leveled
  <2>8. pt \in Taken(s.next) /\ Range(users) \subseteq Taken(s.next)
    <3>1. pt \in Taken(next)
      BY <1>3, <1>8 DEF Leveled
    <3> QED BY <1>7, <3>1 DEF Types
  <2>9. new[pt] = 4 /\ \A u \in Range(users) : new[u] = 0
    BY <1>8, <2>4, <2>8
  <2>10. \A u \in Range(users), i \in Index : mem'[u][i] = mem[u][i]
    BY <1>8, <2>1, <2>4, <2>8
  <2>11. \A i \in Index : Present(mem[pt][i]) \/ i # Pt4(x.page) => mem'[pt][i] = mem[pt][i]
    BY <1>8, <2>1, <2>4, <2>8
  <2>14. Present(mem'[pt][Pt4(x.page)])
    BY <2>1, <2>4
  <2>12. \A w \in Page : Walk(mem', pt, w) = IF w = x.page THEN x.to ELSE Walk(mem, pt, w)
    BY <2>1, <2>4
  <2>13. Taken(next) \subseteq Taken(next')
    BY <1>7
  <2> QED BY <1>6, <1>10, <1>12, <2>6, <2>7, <2>9, <2>10, <2>11, <2>12, <2>13, <2>14 DEF Mapping
<1> QED BY <1>10, <1>11, <1>12

LEMMA ViewsKept ==
  ASSUME Views, pt' = pt, users' = users,
         \A u \in Range(users), i \in Index : mem'[u][i] = mem[u][i],
         \A i \in Index : Present(mem[pt][i]) => mem'[pt][i] = mem[pt][i]
  PROVE  Views'
<1> SUFFICES ASSUME NEW u \in Range(users)
             PROVE  /\ \A i \in Index : mem'[u][i] = None \/ (Present(mem'[u][i]) /\ mem'[u][i] = mem'[pt][i])
                    /\ \A k \in 1 .. Len(BootMaps) : Present(mem'[u][Pt4(StartMaps[k].page)])
  BY DEF Views
<1>1. \A i \in Index : mem[u][i] = None \/ (Present(mem[u][i]) /\ mem[u][i] = mem[pt][i])
  BY DEF Views
<1>2. \A i \in Index : mem'[u][i] = None \/ (Present(mem'[u][i]) /\ mem'[u][i] = mem'[pt][i])
  BY <1>1
<1>3. ASSUME NEW k \in 1 .. Len(BootMaps) PROVE Present(mem'[u][Pt4(StartMaps[k].page)])
  <2>1. Pt4(StartMaps[k].page) \in Index
    <3>1. StartMaps[k].page \in Nat
      BY KernelIndex, PageNat
    <3> QED BY <3>1, IndexFacts
  <2>2. Present(mem[u][Pt4(StartMaps[k].page)])
    BY DEF Views
  <2> QED BY <2>1, <2>2
<1> QED BY <1>2, <1>3

LEMMA OutdatedFacts ==
  ASSUME NEW v, NEW y \in Outdated(v)
  PROVE  \/ y \in stale
         \/ /\ cr3 # 0 /\ y.page = v /\ y.to = Walk(mem, cr3, v)
            /\ y.to # None /\ y.to # Walk(mem', cr3, v)
<1>1. CASE cr3 = 0
  BY <1>1 DEF Outdated
<1>2. CASE cr3 # 0
  <2>1. /\ y \in stale \cup {[page |-> v, to |-> Walk(mem, cr3, v)]}
        /\ y.to \notin {None, Walk(mem', cr3, y.page)}
    BY <1>2 DEF Outdated
  <2>2. CASE y \in stale
    BY <2>2
  <2>3. CASE y = [page |-> v, to |-> Walk(mem, cr3, v)]
    <3>1. y.page = v /\ y.to = Walk(mem, cr3, v)
      BY <2>3
    <3> QED BY <1>2, <2>1, <3>1
  <2> QED BY <2>1, <2>2, <2>3
<1> QED BY <1>1, <1>2

-----------------------------------------------------------------------------
(* The steps.                                                              *)

LEMMA PoolNonzero == PoolFrames \subseteq Nat \ {0} /\ PoolFrames \subseteq Memory /\ 0 \in Memory
<1>1. Pool \in Seq(Nat \ {0})
  BY PagingAssumption
<1>2. \A k \in DOMAIN Pool : Pool[k] \in Nat \ {0}
  BY <1>1
<1>3. PoolFrames \subseteq Nat \ {0}
  BY <1>2 DEF PoolFrames, Range
<1> QED BY <1>3 DEF Memory

LEMMA InitInv == Init => Inv
<1> SUFFICES ASSUME Init PROVE Inv
  OBVIOUS
<1>1. /\ next = 0 /\ pt = 0 /\ cr3 = 0 /\ loop = 1 /\ areas = {} /\ call = NoCall /\ users = <<>>
      /\ stale = {} /\ wild = FALSE
      /\ mem = [f \in Memory |-> [i \in Index |-> [to |-> 0, flags |-> {"P", "W", "U"}]]]
  BY DEF Init, Memory
<1>2. mem \in [Memory -> [Index -> Entry]]
  <2>1. [to |-> 0, flags |-> {"P", "W", "U"}] \in Entry
    BY NoneFacts DEF TableFlags
  <2>2. PICK e \in Entry : e = [to |-> 0, flags |-> {"P", "W", "U"}]
    BY <2>1
  <2>3. mem = [f \in Memory |-> [i \in Index |-> e]]
    BY <1>1, <2>2
  <2> QED BY <2>3
<1>3. users \in Seq(PoolFrames) /\ Range(users) = {}
  BY <1>1 DEF Range
<1>4. Len(BootMaps) \in Nat /\ Len(StartMaps) = Len(BootMaps) + 2
  BY StartFacts
<1>5. Types
  <2>1. loop \in 1 .. Len(StartMaps) + 1 /\ next \in Nat
    BY <1>1, <1>4
  <2>2. pt \in Memory /\ cr3 \in {0, pt} \cup Range(users) /\ wild \in BOOLEAN
    BY <1>1, PoolNonzero
  <2>3. Range(users) \subseteq Taken(next) /\ \A x \in stale : x.page \in Page
    BY <1>1, <1>3
  <2> QED BY <1>2, <1>3, <2>1, <2>2, <2>3 DEF Types
<1>6. NothingYet
  BY <1>1 DEF NothingYet
<1>7. Areas
  BY <1>1 DEF Areas
<1>8. Order
  BY <1>1, <1>4 DEF Order, Started
<1>9. TlbCoherent
  BY <1>1 DEF TlbCoherent
<1> QED BY <1>1, <1>5, <1>6, <1>7, <1>8, <1>9 DEF Inv

LEMMA CreateKernelTableInv ==
  ASSUME Inv, CreateKernelTable
  PROVE  Inv'
<1>1. Types /\ NothingYet /\ pt = 0
  BY DEF Inv, CreateKernelTable
<1>2. /\ cr3 = 0 /\ loop = 1 /\ areas = {} /\ call = NoCall /\ users = <<>> /\ stale = {}
  BY <1>1 DEF NothingYet
<1>3. /\ cr3' = 0 /\ loop' = 1 /\ areas' = {} /\ call' = NoCall /\ users' = <<>> /\ stale' = {} /\ wild' \in BOOLEAN
      /\ pt' = Frame(next, 1) /\ next' = next + 1 /\ mem' = [mem EXCEPT ![pt'] = Zeroed]
  BY <1>2 DEF CreateKernelTable, WorksOn
<1>4. mem \in [Memory -> [Index -> Entry]] /\ next \in Nat
  BY <1>1 DEF Types
<1>5. /\ pt' \in Memory /\ next' \in Nat
      /\ pt' # 0 => pt' \in Taken(next')
  <2>1. Len(Pool) \in Nat
    BY PagingAssumption
  <2>2. /\ Frame(next, 1) \in Memory
        /\ next + 1 <= Len(Pool) => Frame(next, 1) \in Taken(next + 1)
        /\ next + 1 > Len(Pool) => Frame(next, 1) = 0
    BY <1>4, FrameFacts
  <2> QED BY <1>3, <1>4, <2>1, <2>2
<1>6. Zeroed \in [Index -> Entry] /\ \A i \in Index : Zeroed[i] = None
  BY NoneFacts DEF Zeroed
<1>7. mem' \in [Memory -> [Index -> Entry]] /\ \A i \in Index : mem'[pt'][i] = None
  BY <1>3, <1>4, <1>5, <1>6
<1>8. Len(BootMaps) \in Nat /\ Len(StartMaps) = Len(BootMaps) + 2
  BY StartFacts
<1>9. users' \in Seq(PoolFrames) /\ Range(users') = {}
  BY <1>3 DEF Range
<1>10. Types'
  BY <1>3, <1>4, <1>5, <1>7, <1>8, <1>9 DEF Types
<1>11. NothingYet'
  BY <1>2, <1>3 DEF NothingYet
<1>12. Areas'
  BY <1>3 DEF Areas
<1>13. Order'
  BY <1>3, <1>8 DEF Order, Started
<1>14. TlbCoherent'
  BY <1>3 DEF TlbCoherent
<1>15. ASSUME pt' # 0
       PROVE  (\E level \in [Memory -> 0 .. 4] : Tree(level))' /\ Views' /\ Contents'
  <2>1. PICK level : level = [f \in Memory |-> IF f = pt' THEN 4 ELSE 0]
    OBVIOUS
  <2>2. level \in [Memory -> 0 .. 4] /\ level[pt'] = 4 /\ \A f \in Memory : level[f] # 0 => f = pt'
    BY <1>5, <2>1
  <2>3. Leveled(mem', next', level)
    <3>1. \A f \in Memory : level[f] # 0 => f \in Taken(next')
      BY <1>5, <1>15, <2>2
    <3>2. \A t \in Memory : level[t] >= 2 => \A i \in Index : mem'[t][i] = None
      BY <1>7, <2>2
    <3>3. ~Present(None)
      BY NoneFacts
    <3> QED BY <1>7, <2>2, <3>1, <3>2, <3>3 DEF Leveled
  <2>4. \A u \in Range(users') : level[u] = 0
    BY <1>9
  <2>5. Views'
    BY <1>9 DEF Views
  <2>6. ASSUME NEW v \in Page PROVE Walk(mem', pt', v) = None
    <3>1. v \in Nat
      BY PageNat
    <3>2. Pt4(v) \in Index
      BY <3>1, IndexFacts
    <3>3. ~Present(mem'[pt'][Pt4(v)])
      BY <1>7, <3>2, NoneFacts
    <3> QED BY <3>3 DEF Walk
  <2>7. Mapped' = {}
    BY <1>3 DEF Mapped
  <2>8. Contents'
    <3>1. \A k \in 1 .. Len(BootMaps) : ~(k < loop')
      BY <1>3, <1>8
    <3> QED BY <2>6, <2>7, <3>1 DEF Contents
  <2> QED BY <2>2, <2>3, <2>4, <2>5, <2>8 DEF Tree
<1> QED BY <1>10, <1>11, <1>12, <1>13, <1>14, <1>15 DEF Inv

LEMMA StartMapInv ==
  ASSUME Inv, StartMap
  PROVE  Inv'
<1> DEFINE x == StartMaps[loop]
<1>1. /\ Types /\ NothingYet /\ Areas /\ Order /\ TlbCoherent /\ Views /\ Contents /\ pt # 0 /\ ~wild
  BY DEF Inv, StartMap
<1>2. PICK level \in [Memory -> 0 .. 4] : Tree(level)
  BY DEF Inv, StartMap
<1>3. /\ ~Started /\ (loop > Len(BootMaps) => cr3 # 0) /\ Maps(x, 0) /\ loop' = loop + 1
      /\ pt' = pt /\ cr3' = cr3 /\ areas' = areas /\ call' = call /\ users' = users
      /\ stale' = Outdated(x.page)
  BY DEF StartMap, Maps
<1>4. areas = {} /\ call = NoCall /\ users = <<>>
  BY <1>1, <1>3 DEF Order
<1>5. Len(BootMaps) \in Nat /\ Len(StartMaps) = Len(BootMaps) + 2
  BY StartFacts
<1>6. loop \in 1 .. Len(StartMaps)
  BY <1>1, <1>3, <1>5 DEF Types, Started
<1>7. x \in Range(StartMaps) /\ (loop > Len(BootMaps) => IsDevice(x))
  BY <1>6, StartFacts
<1>8. x \in Request /\ x.page \in Page /\ x.to \in Entry /\ Present(x.to)
  BY <1>7, MapFacts
<1>9. Mapping(x)
  BY <1>1, <1>2, <1>3, <1>8, MapsFacts
<1> HIDE DEF x
<1>10. Mapped = {} /\ Mapped' = {}
  BY <1>3, <1>4 DEF Mapped
<1>11. \A w \in Page : Walk(mem', pt, w) = Walk(mem, pt, w) \/ (~wild' /\ w = x.page /\ Walk(mem', pt, w) = x.to)
  BY <1>9 DEF Mapping
<1>12. Types'
  <2>1. ASSUME NEW y \in stale' PROVE y.page \in Page
    BY <1>1, <1>3, <1>8, <2>1, OutdatedFacts DEF Types
  <2>2. loop' \in 1 .. Len(StartMaps) + 1
    BY <1>3, <1>5, <1>6
  <2>3. pt' \in Memory /\ cr3' \in {0, pt'} \cup Range(users')
    BY <1>1, <1>3 DEF Types
  <2>4. users' \in Seq(PoolFrames) /\ Range(users') \subseteq Taken(next')
    BY <1>1, <1>3, <1>9 DEF Types, Mapping
  <2> QED BY <1>9, <2>1, <2>2, <2>3, <2>4 DEF Types, Mapping
<1>13. NothingYet'
  BY <1>1, <1>3 DEF NothingYet
<1>14. Areas'
  BY <1>3, <1>4 DEF Areas
<1>15. Order'
  <2>1. cr3' = 0 => stale' = {}
    BY <1>1, <1>3 DEF Order, Outdated
  <2>2. cr3' # 0 => loop' > Len(BootMaps)
    BY <1>1, <1>3, <1>5, <1>6 DEF Order
  <2>3. loop' > Len(BootMaps) + 1 => cr3' # 0
    BY <1>3, <1>5, <1>6
  <2> QED BY <1>3, <1>4, <2>1, <2>2, <2>3 DEF Order
<1>16. TlbCoherent'
  <2> SUFFICES ASSUME NEW y \in stale', y \notin stale PROVE FALSE
    BY <1>1, <1>3 DEF TlbCoherent
  <2>1. /\ cr3 # 0 /\ y.page = x.page /\ y.to = Walk(mem, cr3, x.page)
        /\ y.to # None /\ y.to # Walk(mem', cr3, x.page)
    BY <1>3, OutdatedFacts
  <2>2. cr3 = pt
    BY <1>1, <1>4, <2>1 DEF Types, Range
  <2>3. y.to # Walk(mem', pt, x.page) /\ y.to = Walk(mem, pt, x.page)
    BY <2>1, <2>2
  <2>4. Walk(mem', pt, x.page) = x.to
    BY <1>8, <1>11, <2>3
  <2>5. loop > Len(BootMaps)
    BY <1>1, <2>1 DEF Order
  <2>6. x.page \in ControllerPages
    BY <1>7, <2>5, DeviceFacts
  <2>7. PICK z : z = [page |-> x.page, to |-> Walk(mem, pt, x.page)]
    OBVIOUS
  <2>8. z \in Range(StartMaps)
    BY <1>1, <1>8, <1>10, <2>1, <2>3, <2>7 DEF Contents
  <2>9. z.to = [to |-> x.page - Hhdm, flags |-> {"P", "W"}]
    BY <2>6, <2>7, <2>8, MapFacts
  <2>10. x.to = [to |-> x.page - Hhdm, flags |-> {"P", "W"}]
    BY <1>7, <2>6, MapFacts
  <2> QED BY <2>3, <2>4, <2>7, <2>9, <2>10
<1>17. Views'
  BY <1>1, <1>3, <1>9, ViewsKept DEF Mapping
<1>18. Contents'
  <2>1. ASSUME NEW v \in Page
        PROVE  Walk(mem', pt', v) = None \/ [page |-> v, to |-> Walk(mem', pt', v)] \in Range(StartMaps)
    <3>1. CASE Walk(mem', pt, v) = Walk(mem, pt, v)
      BY <1>1, <1>3, <1>10, <3>1 DEF Contents
    <3>2. CASE v = x.page /\ Walk(mem', pt, v) = x.to
      <4>1. x = [page |-> x.page, to |-> x.to]
        BY <1>8 DEF Request
      <4> QED BY <1>3, <1>7, <3>2, <4>1
    <3> QED BY <1>11, <3>1, <3>2
  <2>2. ASSUME cr3' # 0 \/ ~wild', NEW k \in 1 .. Len(BootMaps), k < loop'
        PROVE  Present(Walk(mem', pt', StartMaps[k].page))
    <3>1. StartMaps[k].page \in Page
      BY KernelIndex
    <3>2. CASE k < loop
      <4>1. Present(Walk(mem, pt, StartMaps[k].page))
        BY <1>1, <3>2 DEF Contents
      <4> QED BY <1>3, <1>8, <1>11, <3>1, <4>1
    <3>3. CASE ~(k < loop)
      <4>1. k = loop
        BY <1>3, <1>5, <1>6, <2>2, <3>3
      <4>2. ~wild'
        BY <1>1, <1>3, <1>5, <2>2, <4>1 DEF Order
      <4>3. Walk(mem', pt, x.page) = x.to
        BY <1>8, <1>9, <4>2 DEF Mapping
      <4> QED BY <1>3, <1>8, <4>1, <4>3 DEF x
    <3> QED BY <3>2, <3>3
  <2> QED BY <1>10, <2>1, <2>2 DEF Contents
<1>19. (\E l \in [Memory -> 0 .. 4] : Tree(l))'
  BY <1>3, <1>9 DEF Mapping, Tree
<1> QED BY <1>12, <1>13, <1>14, <1>15, <1>16, <1>17, <1>18, <1>19 DEF Inv

LEMMA TablesKept ==
  ASSUME Inv, mem' = mem, next' = next, pt' = pt, users' = users, pt # 0
  PROVE  (\E level \in [Memory -> 0 .. 4] : Tree(level))' /\ Views'
<1>1. PICK level \in [Memory -> 0 .. 4] : Tree(level)
  BY DEF Inv
<1>2. Leveled(mem', next', level) /\ level[pt'] = 4 /\ \A u \in Range(users') : level[u] = 0
  BY <1>1 DEF Tree
<1>3. Views'
  BY ViewsKept DEF Inv
<1> QED BY <1>2, <1>3 DEF Tree

LEMMA ContentsKept ==
  ASSUME Contents, mem' = mem, pt' = pt, loop' = loop, Mapped' = Mapped, wild' = wild, ~wild
  PROVE  Contents'
BY DEF Contents

LEMMA SwapInInv ==
  ASSUME Inv, SwapIn
  PROVE  Inv'
<1>1. /\ Types /\ NothingYet /\ Areas /\ Order /\ TlbCoherent /\ ~wild /\ cr3 = 0 /\ loop = Len(BootMaps) + 1
      /\ cr3' = pt /\ stale' = {}
      /\ mem' = mem /\ next' = next /\ pt' = pt /\ loop' = loop /\ areas' = areas /\ call' = call
      /\ users' = users /\ wild' = wild
  BY DEF Inv, SwapIn
<1>2. Len(BootMaps) \in Nat
  BY StartFacts
<1>3. Types'
  BY <1>1 DEF Types
<1>4. NothingYet'
  BY <1>1 DEF NothingYet
<1>5. Areas'
  BY <1>1 DEF Areas
<1>6. Order'
  BY <1>1, <1>2 DEF Order, Started
<1>7. TlbCoherent'
  BY <1>1 DEF TlbCoherent
<1>8. ASSUME pt # 0 PROVE (\E level \in [Memory -> 0 .. 4] : Tree(level))' /\ Views' /\ Contents'
  <2>1. Contents
    BY <1>8 DEF Inv
  <2>2. Mapped' = Mapped
    BY <1>1 DEF Mapped, Pending
  <2> QED BY <1>1, <1>8, <2>1, <2>2, TablesKept, ContentsKept
<1> QED BY <1>1, <1>3, <1>4, <1>5, <1>6, <1>7, <1>8 DEF Inv

LEMMA NoApicInv ==
  ASSUME Inv, NoApic
  PROVE  Inv'
<1>1. /\ Types /\ NothingYet /\ Areas /\ Order /\ TlbCoherent /\ ~wild /\ cr3 # 0 /\ loop = Len(BootMaps) + 1
      /\ loop' = Len(StartMaps) + 1
      /\ mem' = mem /\ next' = next /\ pt' = pt /\ cr3' = cr3 /\ areas' = areas /\ call' = call
      /\ users' = users /\ stale' = stale /\ wild' = wild
  BY DEF Inv, NoApic
<1>2. Len(BootMaps) \in Nat /\ Len(StartMaps) = Len(BootMaps) + 2
  BY StartFacts
<1>3. pt # 0
  BY <1>1 DEF NothingYet
<1>4. loop' \in 1 .. Len(StartMaps) + 1
  BY <1>1, <1>2
<1>5. Types'
  BY <1>1, <1>4 DEF Types
<1>6. NothingYet'
  BY <1>1, <1>3 DEF NothingYet
<1>7. Areas'
  BY <1>1 DEF Areas
<1>8. Order'
  BY <1>1, <1>2 DEF Order, Started
<1>9. TlbCoherent'
  BY <1>1 DEF TlbCoherent
<1>10. Mapped' = Mapped /\ Contents
  BY <1>1, <1>3 DEF Mapped, Pending, Inv
<1>11. \A k \in 1 .. Len(BootMaps) : k < loop
  BY <1>1, <1>2
<1>12. Contents'
  BY <1>1, <1>10, <1>11 DEF Contents
<1> QED BY <1>1, <1>3, <1>5, <1>6, <1>7, <1>8, <1>9, <1>12, TablesKept DEF Inv

LEMMA SwitchToInv ==
  ASSUME Inv, NEW u \in Range(users), SwitchTo(u)
  PROVE  Inv'
<1>1. /\ Types /\ NothingYet /\ Areas /\ Order /\ TlbCoherent /\ ~wild
      /\ cr3' = u /\ stale' = {}
      /\ mem' = mem /\ next' = next /\ pt' = pt /\ loop' = loop /\ areas' = areas /\ call' = call
      /\ users' = users /\ wild' = wild
  BY DEF Inv, SwitchTo
<1>2. Len(BootMaps) \in Nat /\ Len(StartMaps) = Len(BootMaps) + 2
  BY StartFacts
<1>3. users # <<>>
  BY DEF Range
<1>4. pt # 0 /\ Started
  BY <1>1, <1>3 DEF NothingYet, Order
<1>5. Types'
  BY <1>1 DEF Types
<1>6. NothingYet'
  BY <1>1, <1>4 DEF NothingYet
<1>7. Areas'
  BY <1>1 DEF Areas
<1>8. Order'
  <2>1. loop > Len(BootMaps) + 1 /\ loop > Len(BootMaps) /\ u # 0
    <3>1. users \in Seq(PoolFrames)
      BY <1>1 DEF Types
    <3>2. u \in PoolFrames
      BY <3>1 DEF Range
    <3>3. loop \in 1 .. Len(StartMaps) + 1
      BY <1>1 DEF Types
    <3> QED BY <1>2, <1>4, <3>2, <3>3, PoolNonzero DEF Started
  <2> QED BY <1>1, <1>4, <2>1 DEF Order, Started
<1>9. TlbCoherent'
  BY <1>1 DEF TlbCoherent
<1>10. Mapped' = Mapped /\ Contents
  BY <1>1, <1>4 DEF Mapped, Pending, Inv
<1> QED BY <1>1, <1>4, <1>5, <1>6, <1>7, <1>8, <1>9, <1>10, TablesKept, ContentsKept DEF Inv

\* After the start.
LEMMA StartedFacts ==
  ASSUME Inv, Started
  PROVE  /\ pt # 0 /\ cr3 # 0 /\ Views /\ Contents
         /\ Len(BootMaps) \in Nat /\ \A k \in 1 .. Len(BootMaps) : k < loop
<1>1. Len(BootMaps) \in Nat /\ Len(StartMaps) = Len(BootMaps) + 2 /\ loop \in 1 .. Len(StartMaps) + 1
  BY StartFacts DEF Inv, Types
<1>2. loop > Len(BootMaps) + 1 /\ loop # 1
  BY <1>1 DEF Started
<1>3. pt # 0 /\ cr3 # 0
  BY <1>2 DEF Inv, NothingYet, Order
<1> QED BY <1>1, <1>2, <1>3 DEF Inv

\* The call of the heap that is under way, and its area.
LEMMA CallFacts ==
  ASSUME Inv, call # NoCall
  PROVE  /\ call \in [op : {"map", "unmap", "invplg"}, addr : Int, num_pages : Nat, i : Nat]
         /\ call.i < call.num_pages
         /\ [addr |-> call.addr, num_pages |-> call.num_pages] \in areas
         /\ PagesOf([addr |-> call.addr, num_pages |-> call.num_pages]) = call.addr .. call.addr + call.num_pages - 1
         /\ call.addr .. call.addr + call.num_pages - 1 \subseteq Heap
         /\ call.addr + call.i \in call.addr .. call.addr + call.num_pages - 1
         /\ call.addr + call.i \in Heap /\ call.addr + call.i \in Page
         /\ Started
<1>1. /\ call \in [op : {"map", "unmap", "invplg"}, addr : Int, num_pages : Nat, i : Nat]
      /\ call.i < call.num_pages
      /\ [addr |-> call.addr, num_pages |-> call.num_pages] \in areas
  BY DEF Inv, Areas
<1>2. PagesOf([addr |-> call.addr, num_pages |-> call.num_pages]) = call.addr .. call.addr + call.num_pages - 1
  BY DEF PagesOf
<1>3. call.addr .. call.addr + call.num_pages - 1 \subseteq Heap
  BY <1>1, <1>2 DEF Inv, Areas
<1>4. call.addr + call.i \in call.addr .. call.addr + call.num_pages - 1
  BY <1>1
<1>5. Started
  BY DEF Inv, Order
<1> QED BY <1>1, <1>2, <1>3, <1>4, <1>5, HeapFacts

LEMMA NoneCalled ==
  ASSUME call = NoCall
  PROVE  Pending = {} /\ call.op = "none"
BY DEF Pending, NoCall

LEMMA NoneCalledNext ==
  ASSUME call' = NoCall
  PROVE  Pending' = {} /\ call'.op = "none"
BY DEF Pending, NoCall

LEMMA PallocInv ==
  ASSUME Inv, NEW n \in 1 .. MaxArea, NEW a \in HhdmEnd .. HhdmEnd + HeapPages - n, Palloc(a, n)
  PROVE  Inv'
<1> DEFINE b == [addr |-> a, num_pages |-> n]
           c == [op |-> "map", addr |-> a, num_pages |-> n, i |-> 0]
<1>1. /\ Types /\ NothingYet /\ Areas /\ Order /\ TlbCoherent /\ ~wild /\ Started /\ call = NoCall
      /\ a .. a + n - 1 \subseteq Heap \ UNION {PagesOf(d) : d \in areas}
      /\ areas' = areas \cup {b} /\ call' = c
      /\ mem' = mem /\ next' = next /\ pt' = pt /\ cr3' = cr3 /\ loop' = loop
      /\ users' = users /\ stale' = stale /\ wild' = wild
  BY DEF Inv, Palloc
<1>2. pt # 0 /\ Contents
  BY <1>1, StartedFacts
<1>3. n \in Nat \ {0} /\ a \in Int
  BY PagingAssumption, HeapFacts
<1>4. /\ b \in [addr : Int, num_pages : Nat \ {0}] /\ PagesOf(b) = a .. a + n - 1
      /\ c \in [op : {"map", "unmap", "invplg"}, addr : Int, num_pages : Nat, i : Nat]
      /\ c.op = "map" /\ c.addr = a /\ c.num_pages = n /\ c.i = 0 /\ 0 < n
  BY <1>3 DEF PagesOf
<1>5. b = [addr |-> c.addr, num_pages |-> c.num_pages]
  OBVIOUS
<1> HIDE DEF b, c
<1>6. /\ PagesOf(b) \subseteq Heap
      /\ \A d \in areas : PagesOf(b) \cap PagesOf(d) = {} /\ PagesOf(d) \cap PagesOf(b) = {}
  BY <1>1, <1>4
<1>7. Areas'
  <2>1. ASSUME NEW d \in areas' PROVE /\ d \in [addr : Int, num_pages : Nat \ {0}] /\ PagesOf(d) \subseteq Heap
                                      /\ \A e \in areas' : e # d => PagesOf(d) \cap PagesOf(e) = {}
    BY <1>1, <1>4, <1>6 DEF Areas
  <2>2. b \in areas'
    BY <1>1
  <2> QED BY <1>1, <1>4, <1>5, <2>1, <2>2 DEF Areas
<1>8. Types'
  BY <1>1 DEF Types
<1>9. NothingYet'
  BY <1>1, <1>2 DEF NothingYet
<1>10. Order'
  BY <1>1 DEF Order, Started
<1>11. TlbCoherent'
  <2>1. call.op # "invplg"
    BY <1>1, NoneCalled
  <2> QED BY <1>1, <2>1 DEF TlbCoherent
<1>12. Mapped' = Mapped
  <2>1. Pending = {}
    BY <1>1, NoneCalled
  <2>2. Pending' = PagesOf(b)
    BY <1>1, <1>3, <1>4 DEF Pending
  <2>3. \A w : w \in Mapped' <=> w \in Heap /\ (\E d \in areas' : w \in PagesOf(d)) /\ w \notin PagesOf(b)
    BY <2>2 DEF Mapped
  <2>4. \A w : w \in Mapped <=> w \in Heap /\ \E d \in areas : w \in PagesOf(d)
    BY <2>1 DEF Mapped
  <2>5. \A d : d \in areas' <=> d \in areas \/ d = b
    BY <1>1
  <2>6. \A w, d : d \in areas /\ w \in PagesOf(d) => w \notin PagesOf(b)
    BY <1>6
  <2>7. \A w : w \in Mapped' <=> w \in Mapped
    BY <2>3, <2>4, <2>5, <2>6, Zenon
  <2> QED BY <2>7
<1> QED BY <1>1, <1>2, <1>7, <1>8, <1>9, <1>10, <1>11, <1>12, TablesKept, ContentsKept DEF Inv

LEMMA FreeInv ==
  ASSUME Inv, NEW a \in areas, Free(a)
  PROVE  Inv'
<1> DEFINE c == [op |-> "unmap", addr |-> a.addr, num_pages |-> a.num_pages, i |-> 0]
<1>1. /\ Types /\ NothingYet /\ Areas /\ Order /\ TlbCoherent /\ ~wild /\ call = NoCall
      /\ call' = c
      /\ mem' = mem /\ next' = next /\ pt' = pt /\ cr3' = cr3 /\ loop' = loop /\ areas' = areas
      /\ users' = users /\ stale' = stale /\ wild' = wild
  BY DEF Inv, Free
<1>2. pt # 0 /\ Contents
  BY <1>1 DEF Inv, NothingYet
<1>3. a \in [addr : Int, num_pages : Nat \ {0}]
  BY <1>1 DEF Areas
<1>4. /\ c \in [op : {"map", "unmap", "invplg"}, addr : Int, num_pages : Nat, i : Nat]
      /\ c.op = "unmap" /\ c.addr = a.addr /\ c.num_pages = a.num_pages /\ c.i = 0 /\ c.i < c.num_pages
      /\ [addr |-> c.addr, num_pages |-> c.num_pages] = a
  BY <1>3
<1> HIDE DEF c
<1>5. Areas'
  BY <1>1, <1>4 DEF Areas
<1>6. Types'
  BY <1>1 DEF Types
<1>7. NothingYet'
  BY <1>1, <1>2 DEF NothingYet
<1>8. Order'
  BY <1>1 DEF Order, Started
<1>9. TlbCoherent'
  <2>1. call.op # "invplg"
    BY <1>1, NoneCalled
  <2> QED BY <1>1, <2>1 DEF TlbCoherent
<1>10. Mapped' = Mapped
  <2>1. Pending = {}
    BY <1>1, NoneCalled
  <2>2. Pending' = {}
    BY <1>1, <1>3, <1>4 DEF Pending
  <2> QED BY <1>1, <2>1, <2>2 DEF Mapped
<1> QED BY <1>1, <1>2, <1>5, <1>6, <1>7, <1>8, <1>9, <1>10, TablesKept, ContentsKept DEF Inv

LEMMA MapPageInv ==
  ASSUME Inv, MapPage
  PROVE  Inv'
<1> DEFINE x == [page |-> call.addr + call.i, to |-> [to |-> Frame(next, 1), flags |-> {"P", "W"}]]
<1>1. /\ Types /\ NothingYet /\ Areas /\ Order /\ TlbCoherent /\ ~wild /\ call.op = "map" /\ Maps(x, 1)
      /\ call' = IF call.i + 1 = call.num_pages THEN NoCall ELSE [call EXCEPT !.i = @ + 1]
      /\ pt' = pt /\ cr3' = cr3 /\ loop' = loop /\ areas' = areas /\ users' = users
      /\ stale' = Outdated(x.page)
  BY DEF Inv, MapPage, Maps
<1>2. call # NoCall
  BY <1>1, NoneCalled
<1>3. PICK v : v = call.addr + call.i
  OBVIOUS
<1>4. /\ call \in [op : {"map", "unmap", "invplg"}, addr : Int, num_pages : Nat, i : Nat]
      /\ call.i < call.num_pages
      /\ [addr |-> call.addr, num_pages |-> call.num_pages] \in areas
      /\ PagesOf([addr |-> call.addr, num_pages |-> call.num_pages]) = call.addr .. call.addr + call.num_pages - 1
      /\ v \in call.addr .. call.addr + call.num_pages - 1 /\ v \in Heap /\ v \in Page
      /\ Started
  BY <1>2, <1>3, CallFacts
<1>5. pt # 0 /\ cr3 # 0 /\ Views /\ Contents /\ \A k \in 1 .. Len(BootMaps) : k < loop
  BY <1>4, StartedFacts
<1>6. PICK level \in [Memory -> 0 .. 4] : Tree(level)
  BY <1>5 DEF Inv
<1>7. x.page = v /\ x.to \in Entry /\ Present(x.to)
  <2>1. next \in Nat
    BY <1>1 DEF Types
  <2>2. PICK f \in Memory : f = Frame(next, 1)
    BY <2>1, FrameFacts
  <2>3. f \in Int
    BY MemoryNat
  <2>4. x.to = [to |-> f, flags |-> {"P", "W"}]
    BY <2>2
  <2>5. x.to \in Entry
    BY <2>3, <2>4 DEF Entry
  <2>6. x.to.flags = {"P", "W"}
    OBVIOUS
  <2> QED BY <1>3, <2>5, <2>6 DEF Present
<1>8. Mapping(x)
  <2>1. x.page \in Page
    BY <1>4, <1>7
  <2> HIDE DEF x
  <2> QED BY <1>1, <1>6, <1>7, <2>1, MapsFacts
<1> HIDE DEF x
<1>9. \A w \in Page : Walk(mem', pt, w) = Walk(mem, pt, w) \/ (~wild' /\ w = v /\ Walk(mem', pt, w) = x.to)
  BY <1>7, <1>8 DEF Mapping
<1>10. call' = NoCall \/ (call'.op = "map" /\ call' # NoCall)
  BY <1>1, <1>4, NoneCalled
<1>11. \A w : w \in Pending <=> w \in Pending' \/ w = v
  <2>1. PICK e, n, i : e = call.addr /\ n = call.num_pages /\ i = call.i /\ v = e + i
    BY <1>3
  <2>2. e \in Int /\ n \in Nat /\ i \in Nat /\ i < n /\ v \in e .. e + n - 1
    BY <1>4, <2>1
  <2>3. \A w : w \in Pending <=> w \in e .. e + n - 1 /\ w >= v
    BY <1>1, <2>1 DEF Pending
  <2>4. CASE i + 1 = n
    <3>1. Pending' = {}
      BY <1>1, <2>1, <2>4, NoneCalledNext
    <3>2. \A w \in e .. e + n - 1 : w >= v => w = v
      BY <2>1, <2>2, <2>4
    <3> QED BY <2>2, <2>3, <3>1, <3>2
  <2>5. CASE i + 1 # n
    <3>1. call' = [call EXCEPT !.i = @ + 1]
      BY <1>1, <2>1, <2>5
    <3>2. call'.op = "map" /\ call'.addr = e /\ call'.num_pages = n /\ call'.i = i + 1
      BY <1>1, <1>4, <2>1, <3>1
    <3>3. \A w : w \in Pending' <=> w \in e .. e + n - 1 /\ w >= e + (i + 1)
      BY <3>2 DEF Pending
    <3>4. \A w \in e .. e + n - 1 : w >= v <=> w >= e + (i + 1) \/ w = v
      BY <2>1, <2>2
    <3> QED BY <2>2, <2>3, <3>3, <3>4
  <2> QED BY <2>4, <2>5
<1>12. v \notin Pending'
  <2>1. CASE call' = NoCall
    BY <2>1, NoneCalledNext
  <2>2. CASE call' # NoCall
    <3>1. call' = [call EXCEPT !.i = @ + 1]
      BY <1>1, <2>2
    <3>2. call'.op = "map" /\ call'.addr = call.addr /\ call'.i = call.i + 1
      BY <1>1, <1>4, <3>1
    <3>3. ~(v >= call'.addr + call'.i)
      BY <1>3, <1>4, <3>2
    <3> QED BY <3>2, <3>3 DEF Pending
  <2> QED BY <2>1, <2>2
<1>13. \A w : w \in Mapped' <=> w \in Mapped \/ w = v
  <2>1. \A w : w \in Mapped <=> w \in Heap /\ (\E a \in areas : w \in PagesOf(a)) /\ w \notin Pending
    BY DEF Mapped
  <2>2. \A w : w \in Mapped' <=> w \in Heap /\ (\E a \in areas : w \in PagesOf(a)) /\ w \notin Pending'
    BY <1>1 DEF Mapped
  <2>3. \E a \in areas : v \in PagesOf(a)
    BY <1>4
  <2> QED BY <1>4, <1>11, <1>12, <2>1, <2>2, <2>3, Zenon
<1>14. v \notin Mapped
  BY <1>11 DEF Mapped
<1>15. Types'
  <2>1. ASSUME NEW y \in stale' PROVE y.page \in Page
    BY <1>1, <1>4, <1>7, <2>1, OutdatedFacts DEF Types
  <2>2. pt' \in Memory /\ cr3' \in {0, pt'} \cup Range(users') /\ loop' \in 1 .. Len(StartMaps) + 1
    BY <1>1 DEF Types
  <2>3. users' \in Seq(PoolFrames) /\ Range(users') \subseteq Taken(next')
    BY <1>1, <1>8 DEF Types, Mapping
  <2> QED BY <1>8, <2>1, <2>2, <2>3 DEF Types, Mapping
<1>16. NothingYet'
  BY <1>1, <1>5 DEF NothingYet
<1>17. Areas'
  <2>1. call' # NoCall => /\ call' \in [op : {"map", "unmap", "invplg"}, addr : Int, num_pages : Nat, i : Nat]
                          /\ call'.i < call'.num_pages
                          /\ [addr |-> call'.addr, num_pages |-> call'.num_pages] \in areas'
    <3> SUFFICES ASSUME call' # NoCall
                 PROVE  /\ call' \in [op : {"map", "unmap", "invplg"}, addr : Int, num_pages : Nat, i : Nat]
                        /\ call'.i < call'.num_pages
                        /\ [addr |-> call'.addr, num_pages |-> call'.num_pages] \in areas'
      OBVIOUS
    <3>1. call' = [call EXCEPT !.i = @ + 1] /\ call.i + 1 # call.num_pages
      BY <1>1
    <3>2. /\ call' \in [op : {"map", "unmap", "invplg"}, addr : Int, num_pages : Nat, i : Nat]
          /\ call'.addr = call.addr /\ call'.num_pages = call.num_pages /\ call'.i = call.i + 1
      BY <1>4, <3>1
    <3> QED BY <1>1, <1>4, <3>1, <3>2
  <2> QED BY <1>1, <2>1 DEF Areas
<1>18. Order'
  BY <1>1, <1>4, <1>5 DEF Order, Started
<1>19. TlbCoherent'
  <2> SUFFICES ASSUME NEW y \in stale' PROVE y.page \in ControllerPages \cap Heap /\ y.to.to = y.page - Hhdm
    BY DEF TlbCoherent
  <2>1. CASE y \in stale
    BY <1>1, <2>1 DEF TlbCoherent
  <2>2. CASE y \notin stale
    <3>1. y.page = v /\ y.to = Walk(mem, cr3, v) /\ y.to # None
      BY <1>1, <1>7, <2>2, OutdatedFacts
    <3>2. y.to = Walk(mem, pt, v)
      <4>1. v \in Nat
        BY <1>4, PageNat
      <4> QED BY <1>1, <1>5, <3>1, <4>1, SeenBy
    <3>3. PICK z : z = [page |-> v, to |-> Walk(mem, pt, v)]
      OBVIOUS
    <3>4. z \in Range(StartMaps) /\ z.page = v /\ z.to = y.to
      BY <1>4, <1>5, <1>14, <3>1, <3>2, <3>3 DEF Contents
    <3>5. IsDevice(z)
      BY <1>4, <3>4, MapFacts
    <3>6. v \in ControllerPages /\ z.to = [to |-> v - Hhdm, flags |-> {"P", "W"}]
      BY <3>4, <3>5, DeviceFacts
    <3>7. y.to.to = v - Hhdm
      BY <3>4, <3>6
    <3> QED BY <1>4, <3>1, <3>6, <3>7
  <2> QED BY <2>1, <2>2
<1>20. Views'
  BY <1>1, <1>5, <1>8, ViewsKept DEF Mapping
<1>21. Contents'
  <2>1. ASSUME NEW w \in Page \ Mapped'
        PROVE  Walk(mem', pt', w) = None \/ [page |-> w, to |-> Walk(mem', pt', w)] \in Range(StartMaps)
    <3>1. w \in Page \ Mapped /\ w # v
      BY <1>13
    <3>2. Walk(mem', pt', w) = Walk(mem, pt, w)
      BY <1>1, <1>9, <3>1
    <3> QED BY <1>1, <1>5, <3>1, <3>2 DEF Contents
  <2>2. ASSUME ~wild', NEW w \in Mapped' PROVE Present(Walk(mem', pt', w))
    <3>1. CASE w = v
      <4>1. Walk(mem', pt, v) = x.to
        BY <1>4, <1>7, <1>8, <2>2 DEF Mapping
      <4> QED BY <1>1, <1>7, <3>1, <4>1
    <3>2. CASE w # v
      <4>1. w \in Mapped
        BY <1>13, <2>2, <3>2
      <4>2. w \in Page
        BY <1>1, <4>1, HeapFacts DEF Mapped, Areas
      <4>3. Present(Walk(mem, pt, w))
        BY <1>1, <1>5, <4>1 DEF Contents
      <4> QED BY <1>1, <1>9, <3>2, <4>2, <4>3
    <3> QED BY <3>1, <3>2
  <2>3. ASSUME NEW k \in 1 .. Len(BootMaps) PROVE Present(Walk(mem', pt', StartMaps[k].page))
    <3>1. StartMaps[k].page \in Page
      BY KernelIndex
    <3>2. Present(Walk(mem, pt, StartMaps[k].page))
      BY <1>1, <1>5 DEF Contents
    <3> QED BY <1>1, <1>7, <1>9, <3>1, <3>2
  <2> QED BY <2>1, <2>2, <2>3 DEF Contents
<1>22. (\E l \in [Memory -> 0 .. 4] : Tree(l))'
  BY <1>1, <1>8 DEF Mapping, Tree
<1> QED BY <1>15, <1>16, <1>17, <1>18, <1>19, <1>20, <1>21, <1>22 DEF Inv

\* A step that changes nothing, but that nothing may be known after it.
LEMMA HaltedInv ==
  ASSUME Inv, mem' = mem, next' = next, pt' = pt, cr3' = cr3, loop' = loop, areas' = areas, call' = call,
         users' = users, stale' = stale, wild' \in BOOLEAN, wild => wild'
  PROVE  Inv'
<1>1. Types' /\ NothingYet' /\ Areas' /\ Order' /\ TlbCoherent'
  <2>1. Types'
    BY DEF Inv, Types
  <2>2. NothingYet'
    BY DEF Inv, NothingYet
  <2>3. Areas'
    BY DEF Inv, Areas
  <2>4. Order'
    BY DEF Inv, Order, Started
  <2>5. TlbCoherent'
    BY DEF Inv, TlbCoherent
  <2> QED BY <2>1, <2>2, <2>3, <2>4, <2>5
<1>2. Mapped' = Mapped
  BY DEF Mapped, Pending
<1>3. ASSUME pt # 0 PROVE (\E level \in [Memory -> 0 .. 4] : Tree(level))' /\ Views' /\ Contents'
  <2>1. Contents
    BY <1>3 DEF Inv
  <2>2. Contents'
    BY <1>2, <2>1 DEF Contents
  <2> QED BY <1>3, <2>2, TablesKept
<1> QED BY <1>1, <1>3 DEF Inv

LEMMA UnmappedInv ==
  ASSUME Inv, UnmapPage, ~wild'
  PROVE  Inv'
<1>1. PICK v : v = call.addr + call.i
  OBVIOUS
<1>2. /\ Types /\ NothingYet /\ Areas /\ Order /\ TlbCoherent /\ ~wild /\ call.op = "unmap"
      /\ mem' = PtUnmap(mem, pt, v) /\ stale' = {y \in Outdated(v) : y.page # Hhdm + pt}
      /\ call' = [call EXCEPT !.op = "invplg"]
      /\ next' = next /\ pt' = pt /\ cr3' = cr3 /\ loop' = loop /\ areas' = areas
      /\ users' = users /\ wild' = wild
  <2>1. wild \in BOOLEAN /\ wild' \in BOOLEAN /\ ~wild
    BY DEF Inv, Types, UnmapPage, WorksOn
  <2> QED BY <1>1, <2>1 DEF Inv, UnmapPage
<1>3. call # NoCall
  BY <1>2, NoneCalled
<1>4. /\ call \in [op : {"map", "unmap", "invplg"}, addr : Int, num_pages : Nat, i : Nat]
      /\ call.i < call.num_pages
      /\ [addr |-> call.addr, num_pages |-> call.num_pages] \in areas
      /\ PagesOf([addr |-> call.addr, num_pages |-> call.num_pages]) = call.addr .. call.addr + call.num_pages - 1
      /\ v \in call.addr .. call.addr + call.num_pages - 1 /\ v \in Heap /\ v \in Page
      /\ Started
  BY <1>1, <1>3, CallFacts
<1>5. pt # 0 /\ cr3 # 0 /\ Views /\ Contents /\ \A k \in 1 .. Len(BootMaps) : k < loop
  BY <1>4, StartedFacts
<1>6. PICK level \in [Memory -> 0 .. 4] : Tree(level)
  BY <1>5 DEF Inv
<1>7. /\ Leveled(mem, next, level) /\ level[pt] = 4 /\ pt \in Memory /\ next \in Nat /\ v \in Nat
      /\ \A u \in Range(users) : level[u] = 0 /\ u \in Memory
  <2>1. Range(users) \subseteq Memory
    BY <1>2, TakenGrows, PoolNonzero DEF Types
  <2> QED BY <1>2, <1>4, <1>6, <2>1, PageNat DEF Tree, Types
<1>8. call'.op = "invplg" /\ call'.addr = call.addr /\ call'.num_pages = call.num_pages /\ call'.i = call.i
      /\ call' \in [op : {"map", "unmap", "invplg"}, addr : Int, num_pages : Nat, i : Nat]
  BY <1>2, <1>4
<1>9. v \notin Pending
  <2>1. ~(v < call.addr + call.i)
    BY <1>1, <1>4
  <2> QED BY <1>2, <2>1 DEF Pending
<1>10. v \in Mapped
  BY <1>4, <1>9 DEF Mapped
<1>11. \A w : w \in Pending' <=> w \in Pending \/ w = v
  <2>1. PICK e, n, i : e = call.addr /\ n = call.num_pages /\ i = call.i /\ v = e + i
    BY <1>1
  <2>2. e \in Int /\ n \in Nat /\ i \in Nat /\ i < n /\ v \in e .. e + n - 1
    BY <1>4, <2>1
  <2>3. \A w : w \in Pending <=> w \in e .. e + n - 1 /\ w < v
    BY <1>2, <2>1 DEF Pending
  <2>4. \A w : w \in Pending' <=> w \in e .. e + n - 1 /\ w <= v
    BY <1>8, <2>1 DEF Pending
  <2>5. \A w \in e .. e + n - 1 : w <= v <=> w < v \/ w = v
    BY <2>2
  <2> QED BY <2>2, <2>3, <2>4, <2>5
<1>12. \A w : w \in Mapped' <=> w \in Mapped /\ w # v
  BY <1>2, <1>11 DEF Mapped
<1>13. Present(Walk(mem, pt, v)) /\ Deep(mem, pt, v)
  <2>1. Present(Walk(mem, pt, v))
    BY <1>2, <1>5, <1>10 DEF Contents
  <2> QED BY <1>7, <2>1, WalkPresent
<1>14. Puts(mem, next, level, pt, v, None, mem')
  <2>1. LastTable(mem, pt, v) = T1(mem, pt, v)
    BY DEF LastTable, T1, T2, T3
  <2>2. mem' = [mem EXCEPT ![T1(mem, pt, v)][Pt1(v)] = None]
    BY <1>2, <2>1 DEF PtUnmap
  <2>3. T1(mem, pt, v) \in Memory /\ Pt1(v) \in Index
    BY <1>7, <1>13, LevelFacts, IndexFacts
  <2>4. mem \in [Memory -> [Index -> Entry]]
    BY <1>7 DEF Leveled
  <2>5. Put(mem, mem', T1(mem, pt, v), Pt1(v), None)
    BY <2>2, <2>3, <2>4, NoneFacts DEF Put
  <2> QED BY <1>4, <1>7, <1>13, <2>5 DEF Puts
<1>15. /\ Leveled(mem', next, level)
       /\ \A w \in Page : Walk(mem', pt, w) = IF w = v THEN None ELSE Walk(mem, pt, w)
       /\ \A u \in Memory, j \in Index : level[u] # 1 => mem'[u][j] = mem[u][j]
  BY <1>14, PutFacts
<1>16. Types'
  <2>1. ASSUME NEW y \in stale' PROVE y.page \in Page
    <3>1. y \in Outdated(v)
      BY <1>2
    <3> QED BY <1>2, <1>4, <3>1, OutdatedFacts DEF Types
  <2>2. mem' \in [Memory -> [Index -> Entry]]
    BY <1>15 DEF Leveled
  <2> QED BY <1>2, <2>1, <2>2 DEF Types
<1>17. NothingYet'
  BY <1>2, <1>5 DEF NothingYet
<1>18. Areas'
  <2>1. [addr |-> call'.addr, num_pages |-> call'.num_pages] \in areas' /\ call'.i < call'.num_pages
    BY <1>2, <1>4, <1>8
  <2> QED BY <1>2, <1>8, <2>1 DEF Areas
<1>19. Order'
  BY <1>2, <1>4, <1>5 DEF Order, Started
<1>20. TlbCoherent'
  <2> SUFFICES ASSUME NEW y \in stale', y.page # v
               PROVE  y.page \in ControllerPages \cap Heap /\ y.to.to = y.page - Hhdm
    BY <1>1, <1>8 DEF TlbCoherent
  <2>1. y \in Outdated(v)
    BY <1>2
  <2>2. y \in stale
    BY <2>1, OutdatedFacts
  <2> QED BY <1>2, <2>2 DEF TlbCoherent
<1>21. Views'
  <2>1. \A u \in Range(users), i \in Index : mem'[u][i] = mem[u][i]
    BY <1>7, <1>15
  <2>2. \A i \in Index : mem'[pt][i] = mem[pt][i]
    BY <1>7, <1>15
  <2> QED BY <1>2, <1>5, <2>1, <2>2, ViewsKept
<1>22. Contents'
  <2>1. ASSUME NEW w \in Page \ Mapped'
        PROVE  Walk(mem', pt', w) = None \/ [page |-> w, to |-> Walk(mem', pt', w)] \in Range(StartMaps)
    <3>1. CASE w = v
      BY <1>2, <1>4, <1>15, <3>1
    <3>2. CASE w # v
      BY <1>2, <1>5, <1>12, <1>15, <3>2 DEF Contents
    <3> QED BY <3>1, <3>2
  <2>2. ASSUME NEW w \in Mapped' PROVE Present(Walk(mem', pt', w))
    <3>1. w \in Mapped /\ w # v
      BY <1>12
    <3>2. w \in Page
      BY <1>2, <3>1, HeapFacts DEF Mapped, Areas
    <3> QED BY <1>2, <1>5, <1>15, <3>1, <3>2 DEF Contents
  <2>3. ASSUME NEW k \in 1 .. Len(BootMaps) PROVE Present(Walk(mem', pt', StartMaps[k].page))
    <3>1. StartMaps[k].page \in Page /\ StartMaps[k].page # v
      BY <1>4, KernelIndex
    <3>2. Present(Walk(mem, pt, StartMaps[k].page))
      BY <1>2, <1>5 DEF Contents
    <3> QED BY <1>2, <1>15, <3>1, <3>2
  <2> QED BY <2>1, <2>2, <2>3 DEF Contents
<1>23. (\E l \in [Memory -> 0 .. 4] : Tree(l))'
  BY <1>2, <1>7, <1>15 DEF Tree
<1> QED BY <1>16, <1>17, <1>18, <1>19, <1>20, <1>21, <1>22, <1>23 DEF Inv

LEMMA UnmapPageInv ==
  ASSUME Inv, UnmapPage
  PROVE  Inv'
<1>1. CASE ~wild'
  BY <1>1, UnmappedInv
<1>2. CASE wild'
  BY <1>2, HaltedInv DEF UnmapPage, WorksOn
<1> QED BY <1>1, <1>2

LEMMA InvalidateInv ==
  ASSUME Inv, Invalidate
  PROVE  Inv'
<1>1. PICK v : v = call.addr + call.i
  OBVIOUS
<1>2. PICK b : b = [addr |-> call.addr, num_pages |-> call.num_pages]
  OBVIOUS
<1>3. /\ Types /\ NothingYet /\ Areas /\ Order /\ TlbCoherent /\ ~wild /\ call.op = "invplg"
      /\ stale' = {y \in stale : y.page # v}
      /\ \/ call.i + 1 = call.num_pages /\ call' = NoCall /\ areas' = areas \ {b}
         \/ call.i + 1 # call.num_pages /\ call' = [call EXCEPT !.op = "unmap", !.i = @ + 1] /\ areas' = areas
      /\ mem' = mem /\ next' = next /\ pt' = pt /\ cr3' = cr3 /\ loop' = loop
      /\ users' = users /\ wild' = wild
  BY <1>1, <1>2 DEF Inv, Invalidate, Invalidated
<1>4. call # NoCall
  BY <1>3, NoneCalled
<1>5. /\ call \in [op : {"map", "unmap", "invplg"}, addr : Int, num_pages : Nat, i : Nat]
      /\ call.i < call.num_pages /\ b \in areas
      /\ PagesOf(b) = call.addr .. call.addr + call.num_pages - 1
      /\ Started
  BY <1>2, <1>4, CallFacts
<1>6. pt # 0 /\ cr3 # 0 /\ Views /\ Contents
  BY <1>5, StartedFacts
<1>7. Types'
  BY <1>3 DEF Types
<1>8. NothingYet'
  BY <1>3, <1>6 DEF NothingYet
<1>9. Order'
  BY <1>3, <1>5, <1>6 DEF Order, Started
<1>10. TlbCoherent'
  BY <1>1, <1>3 DEF TlbCoherent
<1>11. PICK e, n, i : e = call.addr /\ n = call.num_pages /\ i = call.i /\ v = e + i
  BY <1>1
<1>12. e \in Int /\ n \in Nat /\ i \in Nat /\ i < n
  BY <1>5, <1>11
<1>13. \A w : w \in Pending <=> w \in e .. e + n - 1 /\ w <= e + i
  BY <1>3, <1>11 DEF Pending
<1>14. CASE i + 1 = n
  <2>1. call' = NoCall /\ areas' = areas \ {b}
    BY <1>3, <1>11, <1>14
  <2>2. Areas'
    BY <1>3, <2>1 DEF Areas
  <2>3. Pending' = {}
    BY <2>1, NoneCalledNext
  <2>4. \A w : w \in Pending <=> w \in PagesOf(b)
    <3>1. PagesOf(b) = e .. e + n - 1
      BY <1>5, <1>11
    <3>2. \A w \in e .. e + n - 1 : w <= e + i
      BY <1>12, <1>14
    <3> QED BY <1>13, <3>1, <3>2
  <2>5. \A w : w \in Mapped' <=> w \in Heap /\ \E a \in areas : a # b /\ w \in PagesOf(a)
    BY <2>1, <2>3 DEF Mapped
  <2>6. \A w : w \in Mapped <=> w \in Heap /\ (\E a \in areas : w \in PagesOf(a)) /\ w \notin PagesOf(b)
    BY <2>4 DEF Mapped
  <2>7. \A a \in areas : a # b => PagesOf(a) \cap PagesOf(b) = {}
    BY <1>3, <1>5 DEF Areas
  <2>8. \A w : w \in Mapped' <=> w \in Mapped
    BY <2>5, <2>6, <2>7
  <2>9. Mapped' = Mapped
    <3>1. Mapped' \subseteq Heap /\ Mapped \subseteq Heap
      BY DEF Mapped
    <3> QED BY <2>8, <3>1
  <2> QED BY <1>3, <1>6, <1>7, <1>8, <1>9, <1>10, <2>2, <2>9, TablesKept, ContentsKept DEF Inv
<1>15. CASE i + 1 # n
  <2>1. call' = [call EXCEPT !.op = "unmap", !.i = @ + 1] /\ areas' = areas
    BY <1>3, <1>11, <1>15
  <2>2. /\ call' \in [op : {"map", "unmap", "invplg"}, addr : Int, num_pages : Nat, i : Nat]
        /\ call'.op = "unmap" /\ call'.addr = e /\ call'.num_pages = n /\ call'.i = i + 1
    <3>1. call \in [op : {"map", "unmap", "invplg"}, addr : Int, num_pages : Nat, i : Nat]
      BY <1>5
    <3>2. PICK j : j = i + 1
      OBVIOUS
    <3>3. j \in Nat
      BY <1>12, <3>2
    <3>4. call' = [[call EXCEPT !.op = "unmap"] EXCEPT !.i = j]
      BY <1>11, <2>1, <3>1, <3>2
    <3>5. PICK q \in [op : {"map", "unmap", "invplg"}, addr : Int, num_pages : Nat, i : Nat] :
            q = [call EXCEPT !.op = "unmap"] /\ q.op = "unmap" /\ q.addr = e /\ q.num_pages = n
      <4>1. PICK q : q = [call EXCEPT !.op = "unmap"]
        OBVIOUS
      <4>2. q \in [op : {"map", "unmap", "invplg"}, addr : Int, num_pages : Nat, i : Nat]
        BY <3>1, <4>1
      <4>3. q.op = "unmap" /\ q.addr = e /\ q.num_pages = n
        BY <1>11, <3>1, <4>1
      <4> QED BY <4>1, <4>2, <4>3
    <3>6. call' = [q EXCEPT !.i = j]
      BY <3>4, <3>5
    <3> QED BY <3>2, <3>3, <3>5, <3>6
  <2>3. call'.i < call'.num_pages /\ [addr |-> call'.addr, num_pages |-> call'.num_pages] = b
    BY <1>2, <1>11, <1>12, <1>15, <2>2
  <2>4. Areas'
    BY <1>3, <1>5, <2>1, <2>2, <2>3 DEF Areas
  <2>5. \A w : w \in Pending' <=> w \in e .. e + n - 1 /\ w < e + (i + 1)
    BY <2>2 DEF Pending
  <2>6. \A w : w \in Pending' <=> w \in Pending
    BY <1>12, <1>13, <2>5
  <2>7. Mapped' = Mapped
    BY <2>1, <2>6 DEF Mapped
  <2> QED BY <1>3, <1>6, <1>7, <1>8, <1>9, <1>10, <2>4, <2>7, TablesKept, ContentsKept DEF Inv
<1> QED BY <1>14, <1>15

LEMMA CreateUserTableInv ==
  ASSUME Inv, CreateUserTable
  PROVE  Inv'
<1>1. PICK f : f = Frame(next, 1)
  OBVIOUS
<1>2. /\ Types /\ NothingYet /\ Areas /\ Order /\ TlbCoherent /\ ~wild /\ Started
      /\ next' = next + 1
      /\ wild' \in BOOLEAN /\ (f = 0 => wild')
      /\ \/ wild' /\ mem' = mem /\ users' = users
         \/ ~wild' /\ mem' = [mem EXCEPT ![f] = [i \in Index |-> Joined(i)]] /\ users' = Append(users, f)
      /\ pt' = pt /\ cr3' = cr3 /\ loop' = loop /\ areas' = areas /\ call' = call /\ stale' = stale
  BY <1>1 DEF Inv, CreateUserTable, WorksOn
<1>3. pt # 0 /\ cr3 # 0 /\ Views /\ Contents /\ \A k \in 1 .. Len(BootMaps) : k < loop
  BY <1>2, StartedFacts
<1>4. PICK level \in [Memory -> 0 .. 4] : Tree(level)
  BY <1>3 DEF Inv
<1>5. /\ Leveled(mem, next, level) /\ level[pt] = 4 /\ pt \in Memory /\ next \in Nat
      /\ mem \in [Memory -> [Index -> Entry]] /\ users \in Seq(PoolFrames)
      /\ Range(users) \subseteq Taken(next)
      /\ \A u \in Range(users) : level[u] = 0
      /\ \A t \in Memory : level[t] # 0 => t \in Taken(next)
  BY <1>2, <1>4 DEF Tree, Types, Leveled
<1>6. Taken(next) \subseteq Taken(next') /\ next' \in Nat
  BY <1>2, <1>5, TakenGrows
<1>7. Leveled(mem, next', level)
  BY <1>5, <1>6, LeveledMore
<1>8. NothingYet'
  BY <1>2, <1>3 DEF NothingYet
<1>9. Areas'
  BY <1>2 DEF Areas
<1>10. Order'
  BY <1>2, <1>3 DEF Order, Started
<1>11. TlbCoherent'
  BY <1>2 DEF TlbCoherent
<1>12. Mapped' = Mapped
  BY <1>2 DEF Mapped, Pending
<1>13. CASE wild'
  <2>1. mem' = mem /\ users' = users
    BY <1>2, <1>13
  <2>2. Types'
    BY <1>2, <1>6, <2>1 DEF Types
  <2>3. Tree(level)'
    BY <1>2, <1>5, <1>7, <2>1 DEF Tree
  <2>4. Views'
    BY <1>2, <1>3, <2>1, ViewsKept
  <2>5. Contents'
    BY <1>2, <1>3, <1>12, <2>1 DEF Contents
  <2> QED BY <1>8, <1>9, <1>10, <1>11, <2>2, <2>3, <2>4, <2>5 DEF Inv
<1>14. CASE ~wild'
  <2>1. f # 0 /\ mem' = [mem EXCEPT ![f] = [i \in Index |-> Joined(i)]] /\ users' = Append(users, f)
    BY <1>2, <1>14
  <2>2. f \in PoolFrames /\ f \in Memory /\ f \notin Taken(next) /\ f \in Taken(next')
    <3>1. Len(Pool) \in Nat /\ (next + 1) - 1 = next
      BY <1>5, PagingAssumption
    <3>2. /\ Frame(next, 1) \in Memory
          /\ next + 1 <= Len(Pool) =>
               /\ Frame(next, 1) \in PoolFrames /\ Frame(next, 1) # 0
               /\ Frame(next, 1) \notin Taken(next + 1 - 1) /\ Frame(next, 1) \in Taken(next + 1)
          /\ next + 1 > Len(Pool) => Frame(next, 1) = 0
      BY <1>5, FrameFacts
    <3>3. next + 1 <= Len(Pool)
      BY <1>1, <1>5, <2>1, <3>1, <3>2
    <3> QED BY <1>1, <1>2, <3>1, <3>2, <3>3
  <2>3. \A i \in Index : /\ Joined(i) \in Entry
                         /\ Joined(i) = None \/ (Present(Joined(i)) /\ Joined(i) = mem[pt][i])
                         /\ i \in KernelHalf => Joined(i) = mem[pt][i]
    <3>1. \A i \in Index : mem[pt][i] \in Entry /\ (mem[pt][i] = None \/ mem[pt][i].flags = TableFlags)
      BY <1>5 DEF Leveled
    <3>2. \A e : e.flags = TableFlags => Present(e)
      BY DEF Present, TableFlags
    <3> QED BY <3>1, <3>2, NoneFacts DEF Joined
  <2>4. PICK row : row = [i \in Index |-> Joined(i)]
    OBVIOUS
  <2>5. row \in [Index -> Entry] /\ \A i \in Index : row[i] = Joined(i)
    BY <2>3, <2>4
  <2>6. mem' \in [Memory -> [Index -> Entry]] /\ mem'[f] = row /\ \A t \in Memory : t # f => mem'[t] = mem[t]
    BY <1>5, <2>1, <2>2, <2>4, <2>5
  <2>7. \A t \in Memory : level[t] # 0 => mem'[t] = mem[t] /\ t # f
    BY <1>5, <2>2, <2>6
  <2>8. users' \in Seq(PoolFrames) /\ \A u : u \in Range(users') <=> u \in Range(users) \/ u = f
    <3>1. PICK w \in Seq(PoolFrames) : w = <<f>> /\ Len(w) = 1 /\ w[1] = f
      <4>1. f \in PoolFrames
        BY <2>2
      <4>2. PICK F : F = PoolFrames
        OBVIOUS
      <4>3. <<f>> \in Seq(F) /\ Len(<<f>>) = 1 /\ <<f>>[1] = f
        BY <4>1, <4>2
      <4> QED BY <4>2, <4>3
    <3>2. users' = users \o w
      BY <1>5, <2>1, <2>2, <3>1
    <3>3. users \o w \in Seq(PoolFrames) /\ \A u : u \in Range(users \o w) <=> u \in Range(users) \/ u \in Range(w)
      BY <1>5, ConcatRange
    <3>4. DOMAIN w = {1}
      BY <3>1
    <3>5. \A u : u \in Range(w) <=> u = f
      BY <3>1, <3>4 DEF Range
    <3> QED BY <3>2, <3>3, <3>5
  <2>9. Range(users') \subseteq Taken(next')
    BY <1>5, <1>6, <2>2, <2>8
  <2>10. Types'
    <3>1. cr3' \in {0, pt'} \cup Range(users')
      BY <1>2, <2>8 DEF Types
    <3> QED BY <1>2, <1>6, <2>1, <2>6, <2>8, <2>9, <3>1 DEF Types
  <2>11. level[f] = 0
    BY <1>5, <2>2
  <2>12. Tree(level)'
    <3>1. \A t \in Memory : level[t] >= 2 => level[t] # 0 /\ mem'[t] = mem[t]
      BY <2>7
    <3>2. \A t \in Memory : level[t] >= 2 =>
            \A i \in Index : \/ mem'[t][i] = None
                             \/ /\ mem'[t][i].flags = TableFlags /\ mem'[t][i].to \in Memory
                                /\ level[mem'[t][i].to] = level[t] - 1
      BY <1>7, <3>1 DEF Leveled
    <3>3. \A t, u \in Memory : level[t] >= 2 /\ level[u] >= 2 =>
            \A i, j \in Index : Present(mem'[t][i]) /\ Present(mem'[u][j]) /\ mem'[t][i].to = mem'[u][j].to =>
              t = u /\ i = j
      BY <1>7, <3>1 DEF Leveled
    <3>4. Leveled(mem', next', level)
      BY <1>7, <2>6, <3>2, <3>3 DEF Leveled
    <3>5. \A u \in Range(users') : level[u] = 0
      BY <1>5, <2>8, <2>11
    <3> QED BY <1>2, <1>5, <3>4, <3>5 DEF Tree
  <2>13. \A v \in Page : Walk(mem', pt, v) = Walk(mem, pt, v)
    <3> SUFFICES ASSUME NEW v \in Page PROVE Walk(mem', pt, v) = Walk(mem, pt, v)
      OBVIOUS
    <3>1. v \in Nat
      BY PageNat
    <3> QED BY <1>5, <2>7, <3>1, SameWalk
  <2>14. mem'[pt] = mem[pt]
    BY <1>5, <2>7
  <2>15. Views'
    <3> SUFFICES ASSUME NEW u \in Range(users')
                 PROVE  /\ \A i \in Index : mem'[u][i] = None \/ (Present(mem'[u][i]) /\ mem'[u][i] = mem'[pt'][i])
                        /\ \A k \in 1 .. Len(BootMaps) : Present(mem'[u][Pt4(StartMaps[k].page)])
      BY DEF Views
    <3>1. CASE u = f
      <4>1. \A i \in Index : mem'[u][i] = None \/ (Present(mem'[u][i]) /\ mem'[u][i] = mem'[pt'][i])
        BY <1>2, <2>3, <2>5, <2>6, <2>14, <3>1
      <4>2. ASSUME NEW k \in 1 .. Len(BootMaps) PROVE Present(mem'[u][Pt4(StartMaps[k].page)])
        <5>1. StartMaps[k].page \in Nat /\ Pt4(StartMaps[k].page) \in KernelHalf
          BY KernelIndex, PageNat
        <5>2. Pt4(StartMaps[k].page) \in Index
          BY <5>1, IndexFacts
        <5>3. Present(Walk(mem, pt, StartMaps[k].page))
          BY <1>2, <1>3 DEF Contents
        <5>4. Present(mem[pt][Pt4(StartMaps[k].page)])
          BY <1>5, <5>1, <5>3, WalkPresent
        <5> QED BY <2>3, <2>5, <2>6, <3>1, <5>1, <5>2, <5>4
      <4> QED BY <4>1, <4>2
    <3>2. CASE u # f
      <4>1. u \in Range(users) /\ u \in Memory
        <5>1. u \in Range(users) /\ u \in Taken(next)
          BY <1>5, <2>8, <3>2
        <5>2. Taken(next) \subseteq PoolFrames
          BY <1>5, TakenGrows
        <5> QED BY <5>1, <5>2 DEF Memory
      <4>2. mem'[u] = mem[u]
        BY <2>6, <3>2, <4>1
      <4> QED BY <1>2, <1>3, <2>14, <4>1, <4>2 DEF Views
    <3> QED BY <3>1, <3>2
  <2>16. Contents'
    <3>1. ASSUME NEW v \in Page \ Mapped'
          PROVE  Walk(mem', pt', v) = None \/ [page |-> v, to |-> Walk(mem', pt', v)] \in Range(StartMaps)
      BY <1>2, <1>3, <1>12, <2>13 DEF Contents
    <3>2. ASSUME NEW v \in Mapped' PROVE Present(Walk(mem', pt', v))
      <4>1. v \in Mapped /\ v \in Page
        BY <1>12, HeapFacts DEF Mapped
      <4> QED BY <1>2, <1>3, <2>13, <4>1 DEF Contents
    <3>3. ASSUME NEW k \in 1 .. Len(BootMaps) PROVE Present(Walk(mem', pt', StartMaps[k].page))
      <4>1. StartMaps[k].page \in Page
        BY KernelIndex
      <4> QED BY <1>2, <1>3, <2>13, <4>1 DEF Contents
    <3> QED BY <3>1, <3>2, <3>3 DEF Contents
  <2> QED BY <1>8, <1>9, <1>10, <1>11, <2>10, <2>12, <2>15, <2>16 DEF Inv
<1> QED BY <1>13, <1>14

LEMMA StutterInv ==
  ASSUME Inv, UNCHANGED vars
  PROVE  Inv'
BY HaltedInv DEF vars, Inv, Types

LEMMA Invariance == Spec => []Inv
<1>1. Inv /\ [Next]_vars => Inv'
  <2> SUFFICES ASSUME Inv, [Next]_vars PROVE Inv'
    OBVIOUS
  <2>1. CASE CreateKernelTable
    BY <2>1, CreateKernelTableInv
  <2>2. CASE StartMap
    BY <2>2, StartMapInv
  <2>3. CASE SwapIn
    BY <2>3, SwapInInv
  <2>4. CASE NoApic
    BY <2>4, NoApicInv
  <2>5. CASE \E n \in 1 .. MaxArea : \E a \in HhdmEnd .. HhdmEnd + HeapPages - n : Palloc(a, n)
    BY <2>5, PallocInv
  <2>6. CASE MapPage
    BY <2>6, MapPageInv
  <2>7. CASE \E a \in areas : Free(a)
    BY <2>7, FreeInv
  <2>8. CASE UnmapPage
    BY <2>8, UnmapPageInv
  <2>9. CASE Invalidate
    BY <2>9, InvalidateInv
  <2>10. CASE CreateUserTable
    BY <2>10, CreateUserTableInv
  <2>11. CASE \E u \in Range(users) : SwitchTo(u)
    BY <2>11, SwitchToInv
  <2>12. CASE UNCHANGED vars
    BY <2>12, StutterInv
  <2> QED BY <2>1, <2>2, <2>3, <2>4, <2>5, <2>6, <2>7, <2>8, <2>9, <2>10, <2>11, <2>12 DEF Next
<1> QED BY <1>1, InitInv, PTL DEF Spec

-----------------------------------------------------------------------------
(* The properties.                                                         *)

\* No translation that pt_map or pt_unmap replaced outlives the invalidation that
\* vmm_unmap_area makes of its page, whichever table task_switch loads meanwhile; only
\* the controllers' pages, where apic_init maps over the heap's range, are left out.
THEOREM NoOldTranslation == Spec => []TlbCoherent
<1>1. Inv => TlbCoherent
  BY DEF Inv
<1> QED BY <1>1, Invariance, PTL

\* A frame of memory that pt_map_memmap maps is seen at its place in the direct map.
LEMMA InDirectMap ==
  ASSUME Inv, cr3 # 0, NEW e \in Range(MemMap), e.type \in DirectlyMapped,
         NEW f \in Base(e) .. Base(e) + Length(e) - 1
  PROVE  /\ Present(Walk(mem, cr3, Hhdm + f)) /\ Walk(mem, cr3, Hhdm + f).to = f
         /\ f \in UsableFrames => Walk(mem, cr3, Hhdm + f) = [to |-> f, flags |-> {"P", "W"}]
<1>1. Types /\ pt # 0 /\ Views /\ Contents /\ loop > Len(BootMaps)
  BY DEF Inv, NothingYet, Order
<1>2. PICK level \in [Memory -> 0 .. 4] : Tree(level)
  BY <1>1 DEF Inv
<1>3. Leveled(mem, next, level) /\ level[pt] = 4 /\ pt \in Memory
  BY <1>1, <1>2 DEF Tree, Types
<1>4. PICK v : v = Hhdm + f
  OBVIOUS
<1>5. PICK k \in 1 .. Len(BootMaps) : StartMaps[k].page = v
  BY <1>4, HhdmFacts
<1>6. v \in Page /\ v < HhdmEnd /\ v \notin Heap /\ v - Hhdm = f /\ v \in Nat
  BY <1>4, HhdmFacts, PageNat
<1>7. k < loop
  BY <1>1, <1>5, StartFacts DEF Types
<1>8. Present(Walk(mem, pt, v))
  BY <1>1, <1>5, <1>7 DEF Contents
<1>9. [page |-> v, to |-> Walk(mem, pt, v)] \in Range(StartMaps)
  <2>1. v \in Page \ Mapped
    BY <1>6 DEF Mapped
  <2> QED BY <1>1, <1>8, <2>1, NoneFacts DEF Contents
<1>10. Walk(mem, cr3, v) = Walk(mem, pt, v)
  <2>1. Present(mem[pt][Pt4(v)])
    BY <1>3, <1>6, <1>8, WalkPresent
  <2>2. cr3 \in Range(users) => Present(mem[cr3][Pt4(v)])
    BY <1>1, <1>5 DEF Views
  <2>3. cr3 = pt \/ Present(mem[cr3][Pt4(v)])
    BY <1>1, <2>2 DEF Types
  <2> QED BY <1>1, <1>6, <2>3, SeenBy
<1>11. PICK x \in Range(StartMaps) : x.page = v /\ x.to = Walk(mem, cr3, v)
  BY <1>9, <1>10
<1>12. x.to.to = f /\ (f \in UsableFrames => x.to = [to |-> f, flags |-> {"P", "W"}])
  BY <1>6, <1>11, MapFacts
<1> QED BY <1>4, <1>8, <1>10, <1>11, <1>12

\* What lies wholly inside a stretch of memory is among its pages, base and length
\* each rounded as pt_map_memmap rounds them.
LEMMA WhollyInside ==
  ASSUME NEW e \in Range(MemMap), NEW f \in Nat, f * Sub >= e.base, (f + 1) * Sub <= e.base + e.length
  PROVE  f \in Base(e) .. Base(e) + Length(e) - 1
<1>1. /\ e.base \in Nat /\ e.length \in Nat /\ Base(e) \in Nat /\ Length(e) \in Nat
      /\ Base(e) * Sub >= e.base /\ Base(e) * Sub < e.base + Sub /\ Length(e) * Sub > e.length - Sub
  BY MemMapFacts
<1>2. Sub \in Nat \ {0}
  BY PagingAssumption
<1>3. PICK b \in Nat : b = Base(e)
  BY <1>1
<1>4. PICK l \in Nat : l = Length(e)
  BY <1>1
<1>5. \A m, n \in Nat : m < n => (m + 1) * Sub <= n * Sub
  BY <1>2
<1>6. \A m \in Nat : (m + 1) * Sub = m * Sub + Sub /\ m * Sub \in Nat
  BY <1>2
<1>7. b <= f
  <2>1. ASSUME f < b PROVE FALSE
    <3>1. (f + 1) * Sub <= b * Sub
      BY <1>5, <2>1
    <3> QED BY <1>1, <1>2, <1>3, <1>6, <3>1
  <2> QED BY <2>1
<1>8. f < b + l
  <2>1. ASSUME b + l <= f PROVE FALSE
    <3>1. PICK n \in Nat : n = b + l
      OBVIOUS
    <3>2. n * Sub = b * Sub + l * Sub
      BY <1>2, <3>1
    <3>3. (n + 1) * Sub <= (f + 1) * Sub
      BY <1>5, <2>1, <3>1
    <3>4. (n + 1) * Sub = b * Sub + l * Sub + Sub
      BY <1>6, <3>2, <3>1
    <3> QED BY <1>1, <1>2, <1>3, <1>4, <1>6, <3>3, <3>4
  <2> QED BY <2>1
<1> QED BY <1>3, <1>4, <1>7, <1>8

\* From kmain's pt_swap on, whatever the heap does and memory run out or not, each page
\* that lies wholly inside memory the kernel uses is at its place in the direct map.
THEOREM DirectMap == Spec => []DirectMapped
<1>1. Inv => DirectMapped
  <2> SUFFICES ASSUME Inv, cr3 # 0, NEW e \in Range(MemMap), e.type \in DirectlyMapped,
                      NEW f \in 0 .. (e.base + e.length) \div Sub,
                      f * Sub >= e.base, (f + 1) * Sub <= e.base + e.length
               PROVE  Present(Walk(mem, cr3, Hhdm + f)) /\ Walk(mem, cr3, Hhdm + f).to = f
    BY DEF DirectMapped
  <2>1. f \in Nat
    OBVIOUS
  <2>2. f \in Base(e) .. Base(e) + Length(e) - 1
    BY <2>1, WhollyInside
  <2> QED BY <2>2, InDirectMap
<1> QED BY <1>1, Invariance, PTL

\* kmain's tables, and those pt_join_kernel fills, stay in the direct map, writable for
\* the kernel alone, under every table that task_switch loads, as far as they lie in
\* usable memory: pt_map and pt_unmap, which work on them through it, never cut it off,
\* whatever the heap maps and unmaps.  Which frames pmm_palloc returns is left open.
THEOREM TablesInReach == Spec => []TablesReachable
<1>1. Inv => TablesReachable
  <2> SUFFICES ASSUME Inv, cr3 # 0, NEW f \in Tables \cap UsableFrames
               PROVE  Walk(mem, cr3, Hhdm + f) = [to |-> f, flags |-> {"P", "W"}]
    BY DEF TablesReachable
  <2>1. PICK e \in Range(MemMap) : e.type = "USABLE" /\ f \in Base(e) .. Base(e) + Length(e) - 1
    BY DEF UsableFrames, FramesOf
  <2> QED BY <2>1, InDirectMap DEF DirectlyMapped
<1> QED BY <1>1, Invariance, PTL

-----------------------------------------------------------------------------
(* Tables as translations: Below, applied four times, finds what Walk finds. *)

\* What entry i of the table that e leads to makes of e.
Further(m, e, i) == [to |-> m[e.to][i].to, flags |-> Allowed(m[e.to][i].flags, e)]

\* g gives what each number on a level leads to, Deeper the same one level down.
Deeper(m, g) ==
  [n \in {k \in Nat : Up(k) \in DOMAIN g /\ Present(m[g[Up(k)].to][k % Fanout])} |->
     Further(m, g[Up(n)], n % Fanout)]

Graph(g) == {[n |-> k, e |-> g[k]] : k \in DOMAIN g}

LEMMA UpFacts ==
  ASSUME NEW a \in Nat, NEW i \in Index
  PROVE  a * Fanout + i \in Nat /\ Up(a * Fanout + i) = a /\ (a * Fanout + i) % Fanout = i
<1>1. Fanout \in Nat \ {0} /\ i \in 0 .. Fanout - 1
  BY PagingAssumption DEF Index
<1>2. PICK n \in Nat : n = a * Fanout + i
  BY <1>1
<1>3. PICK q \in Nat : q = n \div Fanout
  BY <1>1, DivMod
<1>4. PICK r \in 0 .. Fanout - 1 : r = n % Fanout
  BY <1>1, DivMod
<1>5. n = Fanout * q + r
  BY <1>1, <1>3, <1>4, DivMod
<1>6. ASSUME q < a PROVE FALSE
  <2>1. Fanout * (q + 1) <= Fanout * a
    BY <1>1, <1>6
  <2>2. Fanout * (q + 1) = Fanout * q + Fanout
    BY <1>1
  <2>3. Fanout * a = a * Fanout
    BY <1>1
  <2> QED BY <1>1, <1>2, <1>5, <2>1, <2>2, <2>3
<1>7. ASSUME a < q PROVE FALSE
  <2>1. (a + 1) * Fanout <= q * Fanout
    BY <1>1, <1>7
  <2>2. (a + 1) * Fanout = a * Fanout + Fanout
    BY <1>1
  <2>3. Fanout * q = q * Fanout
    BY <1>1
  <2> QED BY <1>1, <1>2, <1>5, <2>1, <2>2, <2>3
<1>8. q = a
  BY <1>6, <1>7
<1>9. r = i
  <2>1. Fanout * q = a * Fanout
    BY <1>1, <1>8
  <2> QED BY <1>1, <1>2, <1>5, <2>1
<1> QED BY <1>2, <1>3, <1>4, <1>8, <1>9 DEF Up

LEMMA UpSplit ==
  ASSUME NEW a \in Nat
  PROVE  a = Up(a) * Fanout + (a % Fanout) /\ a % Fanout \in Index
<1>1. Fanout \in Nat \ {0}
  BY PagingAssumption
<1>2. PICK b \in Nat : b = Up(a)
  BY <1>1, DivMod DEF Up
<1>3. a = Fanout * b + (a % Fanout) /\ a % Fanout \in 0 .. Fanout - 1
  BY <1>1, <1>2, DivMod DEF Up
<1>4. Fanout * b = b * Fanout
  BY <1>1
<1> QED BY <1>2, <1>3, <1>4 DEF Index

LEMMA BelowGraph ==
  ASSUME NEW m, NEW g, DOMAIN g \subseteq Nat
  PROVE  Below(m, Graph(g)) = Graph(Deeper(m, g)) /\ DOMAIN Deeper(m, g) \subseteq Nat
<1>1. /\ DOMAIN Deeper(m, g) = {k \in Nat : Up(k) \in DOMAIN g /\ Present(m[g[Up(k)].to][k % Fanout])}
      /\ \A k \in DOMAIN Deeper(m, g) : Deeper(m, g)[k] = Further(m, g[Up(k)], k % Fanout)
  BY DEF Deeper
<1>2. ASSUME NEW y, y \in Below(m, Graph(g)) PROVE y \in Graph(Deeper(m, g))
  <2>1. PICK x \in Graph(g) : \E i \in Index : /\ Present(m[x.e.to][i])
          /\ y = [n |-> x.n * Fanout + i, e |-> Further(m, x.e, i)]
    BY <1>2, Zenon DEF Below, Further
  <2>2. PICK i \in Index : Present(m[x.e.to][i]) /\ y = [n |-> x.n * Fanout + i, e |-> Further(m, x.e, i)]
    BY <2>1
  <2>3. PICK a \in DOMAIN g : x = [n |-> a, e |-> g[a]]
    BY DEF Graph
  <2>4. x.n = a /\ x.e = g[a] /\ a \in Nat
    BY <2>3
  <2>5. PICK k : k = a * Fanout + i
    OBVIOUS
  <2>6. k \in Nat /\ Up(k) = a /\ k % Fanout = i
    BY <2>4, <2>5, UpFacts
  <2>7. k \in DOMAIN Deeper(m, g) /\ Deeper(m, g)[k] = Further(m, g[a], i)
    BY <1>1, <2>2, <2>4, <2>6
  <2>8. y = [n |-> k, e |-> Deeper(m, g)[k]]
    BY <2>2, <2>4, <2>5, <2>7
  <2> QED BY <2>7, <2>8 DEF Graph
<1>3. ASSUME NEW y, y \in Graph(Deeper(m, g)) PROVE y \in Below(m, Graph(g))
  <2>1. PICK k \in DOMAIN Deeper(m, g) : y = [n |-> k, e |-> Deeper(m, g)[k]]
    BY <1>3 DEF Graph
  <2>2. k \in Nat /\ Up(k) \in DOMAIN g /\ Present(m[g[Up(k)].to][k % Fanout])
    BY <1>1
  <2>3. PICK x : x = [n |-> Up(k), e |-> g[Up(k)]]
    OBVIOUS
  <2>4. x \in Graph(g) /\ x.n = Up(k) /\ x.e = g[Up(k)]
    BY <2>2, <2>3 DEF Graph
  <2>5. PICK i : i = k % Fanout
    OBVIOUS
  <2>6. i \in Index /\ k = x.n * Fanout + i
    BY <2>2, <2>4, <2>5, UpSplit
  <2>7. y = [n |-> x.n * Fanout + i, e |-> Further(m, x.e, i)] /\ Present(m[x.e.to][i])
    BY <1>1, <2>1, <2>2, <2>4, <2>5, <2>6
  <2>8. i \in {j \in Index : Present(m[x.e.to][j])}
    BY <2>6, <2>7
  <2>9. y = [n |-> x.n * Fanout + i, e |-> [to |-> m[x.e.to][i].to, flags |-> Allowed(m[x.e.to][i].flags, x.e)]]
    BY <2>7 DEF Further
  <2> DEFINE B(z) == {[n |-> z.n * Fanout + j, e |-> [to |-> m[z.e.to][j].to,
                                                       flags |-> Allowed(m[z.e.to][j].flags, z.e)]]
                       : j \in {h \in Index : Present(m[z.e.to][h])}}
  <2>10. y \in B(x)
    BY <2>8, <2>9
  <2>11. Below(m, Graph(g)) = UNION {B(z) : z \in Graph(g)}
    BY DEF Below
  <2> HIDE DEF B
  <2> QED BY <2>4, <2>10, <2>11
<1>4. Below(m, Graph(g)) = Graph(Deeper(m, g))
  BY <1>2, <1>3
<1> QED BY <1>1, <1>4

LEMMA UpBelow ==
  ASSUME NEW a \in Nat, NEW b \in Nat
  PROVE  Up(a) < b <=> a < b * Fanout
<1>1. Fanout \in Nat \ {0} /\ Up(a) \in Nat
  BY PagingAssumption, IndexFacts
<1>2. PICK q \in Nat : q = Up(a)
  BY <1>1
<1>3. PICK r \in 0 .. Fanout - 1 : a = q * Fanout + r
  BY <1>2, UpSplit DEF Index
<1>4. ASSUME q < b PROVE a < b * Fanout
  <2>1. (q + 1) * Fanout <= b * Fanout
    BY <1>1, <1>4
  <2>2. (q + 1) * Fanout = q * Fanout + Fanout
    BY <1>1
  <2> QED BY <1>1, <1>3, <2>1, <2>2
<1>5. ASSUME b <= q PROVE ~(a < b * Fanout)
  <2>1. b * Fanout <= q * Fanout
    BY <1>1, <1>5
  <2> QED BY <1>1, <1>3, <2>1
<1> QED BY <1>2, <1>4, <1>5

LEMMA PageUp ==
  ASSUME NEW v \in Nat
  PROVE  v \in Page <=> Up(Up(Up(Up(v)))) = 0
<1>1. /\ Fanout \in Nat /\ Fanout * Fanout \in Nat /\ Fanout * Fanout * Fanout \in Nat
      /\ Up(v) \in Nat /\ Up(Up(v)) \in Nat /\ Up(Up(Up(v))) \in Nat /\ Up(Up(Up(Up(v)))) \in Nat
  <2>1. Fanout \in Nat
    BY PagingAssumption
  <2>2. Fanout * Fanout \in Nat
    BY <2>1
  <2>3. Fanout * Fanout * Fanout \in Nat
    BY <2>1, <2>2
  <2> QED BY <2>1, <2>2, <2>3, IndexFacts
<1>2. Up(Up(Up(Up(v)))) < 1 <=> Up(Up(Up(v))) < Fanout
  <2>1. 1 * Fanout = Fanout
    BY <1>1
  <2> QED BY <1>1, <2>1, UpBelow
<1>3. Up(Up(Up(v))) < Fanout <=> Up(Up(v)) < Fanout * Fanout
  BY <1>1, UpBelow
<1>4. Up(Up(v)) < Fanout * Fanout <=> Up(v) < Fanout * Fanout * Fanout
  BY <1>1, UpBelow
<1>5. Up(v) < Fanout * Fanout * Fanout <=> v < Top
  BY <1>1, UpBelow DEF Top
<1>6. v \in Page <=> v < Top
  BY PageNat DEF Page
<1> QED BY <1>1, <1>2, <1>3, <1>4, <1>5, <1>6

\* The order in which the levels restrict the rights makes no difference.
LEMMA AllowedOrder ==
  ASSUME NEW F, NEW e2, NEW e3, NEW e4, NEW d2, NEW d3, NEW d4, NEW e0, e0.flags = TableFlags,
         d4.flags = Allowed(e4.flags, e0), d3.flags = Allowed(e3.flags, d4), d2.flags = Allowed(e2.flags, d3)
  PROVE  Allowed(F, d2) = Allowed(Allowed(Allowed(F, e2), e3), e4)
<1>1. \A f : f \in Allowed(F, d2) <=>
        f \in F /\ (f \in {"W", "U"} => f \in e2.flags /\ f \in e3.flags /\ f \in e4.flags)
  BY DEF Allowed, TableFlags
<1>2. \A f : f \in Allowed(Allowed(Allowed(F, e2), e3), e4) <=>
        f \in F /\ (f \in {"W", "U"} => f \in e2.flags /\ f \in e3.flags /\ f \in e4.flags)
  BY DEF Allowed
<1> QED BY <1>1, <1>2

LEMMA TranslationsAre ==
  ASSUME NEW m, NEW r
  PROVE  Translations(m, r) =
           {[page |-> v, to |-> Walk(m, r, v)] : v \in {w \in Page : Present(Walk(m, r, w))}}
<1> DEFINE e0 == [to |-> r, flags |-> {"P", "W", "U"}]
           g0 == [k \in {0} |-> e0]
           g1 == Deeper(m, g0)
           g2 == Deeper(m, g1)
           g3 == Deeper(m, g2)
           g4 == Deeper(m, g3)
<1>1. Translations(m, r) = {[page |-> k, to |-> g4[k]] : k \in DOMAIN g4} /\ DOMAIN g4 \subseteq Nat
  <2>1. Graph(g0) = {[n |-> 0, e |-> e0]}
    BY DEF Graph
  <2>2. DOMAIN g0 \subseteq Nat
    OBVIOUS
  <2> HIDE DEF g0
  <2>3. Below(m, Graph(g0)) = Graph(g1) /\ DOMAIN g1 \subseteq Nat
    BY <2>2, BelowGraph
  <2> HIDE DEF g1
  <2>4. Below(m, Graph(g1)) = Graph(g2) /\ DOMAIN g2 \subseteq Nat
    BY <2>3, BelowGraph
  <2> HIDE DEF g2
  <2>5. Below(m, Graph(g2)) = Graph(g3) /\ DOMAIN g3 \subseteq Nat
    BY <2>4, BelowGraph
  <2> HIDE DEF g3
  <2>6. Below(m, Graph(g3)) = Graph(g4) /\ DOMAIN g4 \subseteq Nat
    BY <2>5, BelowGraph
  <2> HIDE DEF g4
  <2>7. Translations(m, r) = {[page |-> x.n, to |-> x.e] : x \in Graph(g4)}
    BY <2>1, <2>3, <2>4, <2>5, <2>6 DEF Translations
  <2>8. {[page |-> x.n, to |-> x.e] : x \in Graph(g4)} = {[page |-> k, to |-> g4[k]] : k \in DOMAIN g4}
    <3>1. \A x : x \in Graph(g4) <=> \E k \in DOMAIN g4 : x = [n |-> k, e |-> g4[k]]
      BY DEF Graph
    <3>2. \A k : [n |-> k, e |-> g4[k]].n = k /\ [n |-> k, e |-> g4[k]].e = g4[k]
      OBVIOUS
    <3>3. ASSUME NEW y, y \in {[page |-> x.n, to |-> x.e] : x \in Graph(g4)}
          PROVE  y \in {[page |-> k, to |-> g4[k]] : k \in DOMAIN g4}
      <4>1. PICK x \in Graph(g4) : y = [page |-> x.n, to |-> x.e]
        BY <3>3
      <4>2. PICK k \in DOMAIN g4 : x = [n |-> k, e |-> g4[k]]
        BY <3>1
      <4> QED BY <3>2, <4>1, <4>2
    <3>4. ASSUME NEW k \in DOMAIN g4 PROVE [page |-> k, to |-> g4[k]] \in {[page |-> x.n, to |-> x.e] : x \in Graph(g4)}
      <4>1. PICK x : x = [n |-> k, e |-> g4[k]]
        OBVIOUS
      <4> QED BY <3>1, <3>2, <4>1
    <3> QED BY <3>3, <3>4
  <2> QED BY <2>6, <2>7, <2>8
<1>2. \A g : /\ \A k : k \in DOMAIN Deeper(m, g) <=>
                         k \in Nat /\ Up(k) \in DOMAIN g /\ Present(m[g[Up(k)].to][k % Fanout])
             /\ \A k \in DOMAIN Deeper(m, g) : Deeper(m, g)[k] = Further(m, g[Up(k)], k % Fanout)
  BY DEF Deeper
<1>3. DOMAIN g0 = {0} /\ g0[0] = e0
  OBVIOUS
<1>4. ASSUME NEW v \in Nat
      PROVE  /\ v \in DOMAIN g4 <=> v \in Page /\ Present(Walk(m, r, v))
             /\ v \in DOMAIN g4 => g4[v] = Walk(m, r, v)
  <2> DEFINE e4 == m[r][Pt4(v)]
             e3 == m[e4.to][Pt3(v)]
             e2 == m[e3.to][Pt2(v)]
             e1 == m[e2.to][Pt1(v)]
             d4 == Further(m, e0, Pt4(v))
             d3 == Further(m, d4, Pt3(v))
             d2 == Further(m, d3, Pt2(v))
             d1 == Further(m, d2, Pt1(v))
  <2>1. Up(v) \in Nat /\ Up(Up(v)) \in Nat /\ Up(Up(Up(v))) \in Nat /\ Up(Up(Up(Up(v)))) \in Nat
    BY IndexFacts
  <2>2. v \in Page <=> Up(Up(Up(Up(v)))) = 0
    BY PageUp
  <2>3. /\ d4.to = e4.to /\ d3.to = e3.to /\ d2.to = e2.to
        /\ d1 = [to |-> e1.to, flags |-> Allowed(e1.flags, d2)]
        /\ d4.flags = Allowed(e4.flags, e0) /\ d3.flags = Allowed(e3.flags, d4) /\ d2.flags = Allowed(e2.flags, d3)
        /\ e0.to = r
    BY DEF Further
  <2>4. d1 = [to |-> e1.to, flags |-> Allowed(Allowed(Allowed(e1.flags, e2), e3), e4)]
    <3>1. e0.flags = TableFlags
      BY DEF TableFlags
    <3> HIDE DEF e0, d4, d3, d2, d1, e4, e3, e2, e1
    <3> QED BY <2>3, <3>1, AllowedOrder
  <2>5. Walk(m, r, v) = IF Present(e4) /\ Present(e3) /\ Present(e2) /\ Present(e1) THEN d1 ELSE None
    BY <2>4 DEF Walk
  <2>6. Present(d1) <=> Present(e1)
    <3> HIDE DEF e0, d4, d3, d2, d1, e4, e3, e2, e1
    <3>1. d1.flags = Allowed(Allowed(Allowed(e1.flags, e2), e3), e4)
      BY <2>4
    <3> QED BY <3>1 DEF Present, Allowed
  <2>7. Present(Walk(m, r, v)) <=> Present(e4) /\ Present(e3) /\ Present(e2) /\ Present(e1)
    BY <2>5, <2>6, NoneFacts
  <2> HIDE DEF e4, e3, e2, e1, g0, e0
  <2>8. /\ Up(Up(Up(v))) \in DOMAIN g1 <=> Up(Up(Up(Up(v)))) = 0 /\ Present(e4)
        /\ Up(Up(Up(v))) \in DOMAIN g1 => g1[Up(Up(Up(v)))] = d4
    BY <1>2, <1>3, <2>1, <2>3 DEF Pt4, e4
  <2> HIDE DEF g1, d4
  <2>9. /\ Up(Up(v)) \in DOMAIN g2 <=> Up(Up(Up(v))) \in DOMAIN g1 /\ Present(e3)
        /\ Up(Up(v)) \in DOMAIN g2 => g2[Up(Up(v))] = d3
    BY <1>2, <2>1, <2>3, <2>8 DEF Pt3, e3
  <2> HIDE DEF g2, d3
  <2>10. /\ Up(v) \in DOMAIN g3 <=> Up(Up(v)) \in DOMAIN g2 /\ Present(e2)
         /\ Up(v) \in DOMAIN g3 => g3[Up(v)] = d2
    BY <1>2, <2>1, <2>3, <2>9 DEF Pt2, e2
  <2> HIDE DEF g3, d2
  <2>11. /\ v \in DOMAIN g4 <=> Up(v) \in DOMAIN g3 /\ Present(e1)
         /\ v \in DOMAIN g4 => g4[v] = d1
    BY <1>2, <2>1, <2>3, <2>10 DEF Pt1, e1
  <2> HIDE DEF g4, d1
  <2> QED BY <2>2, <2>5, <2>7, <2>8, <2>9, <2>10, <2>11
<1> HIDE DEF g4
<1>5. \A v : v \in DOMAIN g4 <=> v \in Page /\ Present(Walk(m, r, v))
  BY <1>1, <1>4, PageNat
<1>6. \A v \in DOMAIN g4 : g4[v] = Walk(m, r, v)
  BY <1>1, <1>4
<1> QED BY <1>1, <1>5, <1>6


-----------------------------------------------------------------------------
(* Refinement.                                                             *)

\* Beside Inv: a task's table is empty below the kernel's half, and the last request
\* was served.
KernelOnly == \A u \in Range(users) : \A i \in Index \ KernelHalf : mem[u][i] = None

Served ==
  /\ request.page \in Page /\ request = [page |-> request.page, to |-> request.to]
  /\ request.to = None \/ Present(request.to)
  /\ IF pt = 0 THEN request.to = None ELSE Walk(mem, pt, request.page) = request.to

\* The abstract variables.
KernelMap == IF pt = 0 THEN {} ELSE Translations(mem, pt)
KernelUsed == IF pt = 0 THEN {} ELSE {i \in Index : Present(mem[pt][i])}

\* The translations of set m in some top level entries, and what a view that shares
\* them is.
In(m, entries) == {x \in m : Pt4(x.page) \in entries}
View(m, entries) == [shares |-> entries, sees |-> In(m, entries)]
Shares(m, u) == {i \in KernelHalf : Present(m[u][i])}

LEMMA TranslationFacts ==
  ASSUME NEW m, NEW r, NEW y
  PROVE  y \in Translations(m, r) <=>
           \E v \in Page : Present(Walk(m, r, v)) /\ y = [page |-> v, to |-> Walk(m, r, v)]
BY TranslationsAre

\* A table whose entries are some of p's shows what p shows there.
LEMMA TableView ==
  ASSUME NEW m, NEW p, NEW u,
         \A i \in Index : m[u][i] = None \/ (Present(m[u][i]) /\ m[u][i] = m[p][i]),
         \A i \in Index \ KernelHalf : m[u][i] = None
  PROVE  Translations(m, u) = In(Translations(m, p), Shares(m, u))
<1>1. ASSUME NEW v \in Page
      PROVE  /\ Pt4(v) \in Shares(m, u) => Walk(m, u, v) = Walk(m, p, v)
             /\ Pt4(v) \notin Shares(m, u) => ~Present(Walk(m, u, v))
  <2>1. Pt4(v) \in Index
    BY PageNat, IndexFacts
  <2>2. ASSUME Pt4(v) \in Shares(m, u) PROVE Walk(m, u, v) = Walk(m, p, v)
    <3>1. m[u][Pt4(v)] = m[p][Pt4(v)]
      BY <2>1, <2>2, NoneFacts DEF Shares
    <3> QED BY <3>1 DEF Walk
  <2>3. ASSUME Pt4(v) \notin Shares(m, u) PROVE ~Present(Walk(m, u, v))
    <3>1. ~Present(m[u][Pt4(v)])
      BY <2>1, <2>3, NoneFacts DEF Shares
    <3> QED BY <3>1, NoneFacts DEF Walk
  <2> QED BY <2>2, <2>3
<1>2. ASSUME NEW y, y \in Translations(m, u) PROVE y \in In(Translations(m, p), Shares(m, u))
  <2>1. PICK v \in Page : Present(Walk(m, u, v)) /\ y = [page |-> v, to |-> Walk(m, u, v)]
    BY <1>2, TranslationFacts
  <2>2. Pt4(v) \in Shares(m, u) /\ Walk(m, u, v) = Walk(m, p, v) /\ y.page = v
    BY <1>1, <2>1
  <2>3. y \in Translations(m, p)
    BY <2>1, <2>2, TranslationFacts
  <2> QED BY <2>2, <2>3 DEF In
<1>3. ASSUME NEW y, y \in In(Translations(m, p), Shares(m, u)) PROVE y \in Translations(m, u)
  <2>1. y \in Translations(m, p) /\ Pt4(y.page) \in Shares(m, u)
    BY <1>3 DEF In
  <2>2. PICK v \in Page : Present(Walk(m, p, v)) /\ y = [page |-> v, to |-> Walk(m, p, v)]
    BY <2>1, TranslationFacts
  <2>3. Walk(m, u, v) = Walk(m, p, v)
    BY <1>1, <2>1, <2>2
  <2> QED BY <2>2, <2>3, TranslationFacts
<1> QED BY <1>2, <1>3

\* The tables of tasks as views.
Some(m, p, us) ==
  \A u \in Range(us) : /\ \A i \in Index : m[u][i] = None \/ (Present(m[u][i]) /\ m[u][i] = m[p][i])
                       /\ \A i \in Index \ KernelHalf : m[u][i] = None

LEMMA SpacesAre ==
  ASSUME NEW m, NEW p, NEW us, Some(m, p, us)
  PROVE  [u \in DOMAIN us |-> [shares |-> {i \in KernelHalf : Present(m[us[u]][i])},
                               sees |-> Translations(m, us[u])]]
           = [u \in DOMAIN us |-> View(Translations(m, p), Shares(m, us[u]))]
<1>1. ASSUME NEW u \in DOMAIN us
      PROVE  [shares |-> {i \in KernelHalf : Present(m[us[u]][i])}, sees |-> Translations(m, us[u])]
               = View(Translations(m, p), Shares(m, us[u]))
  <2>1. us[u] \in Range(us)
    BY DEF Range
  <2>2. /\ \A i \in Index : m[us[u]][i] = None \/ (Present(m[us[u]][i]) /\ m[us[u]][i] = m[p][i])
        /\ \A i \in Index \ KernelHalf : m[us[u]][i] = None
    BY <2>1 DEF Some
  <2>3. Translations(m, us[u]) = In(Translations(m, p), Shares(m, us[u]))
    BY <2>2, TableView
  <2> QED BY <2>3 DEF View, Shares
<1> QED BY <1>1

LEMMA Spaces ==
  ASSUME pt # 0, Views, KernelOnly
  PROVE  AllSpaces = [u \in DOMAIN users |-> View(KernelMap, Shares(mem, users[u]))]
<1>1. Some(mem, pt, users)
  BY DEF Some, Views, KernelOnly
<1> QED BY <1>1, SpacesAre DEF AllSpaces, KernelMap

LEMMA SpacesNext ==
  ASSUME pt' # 0, Views', KernelOnly'
  PROVE  AllSpaces' = [u \in DOMAIN users' |-> View(KernelMap', Shares(mem', users'[u]))]
<1>1. Some(mem', pt', users')
  BY DEF Some, Views, KernelOnly
<1> QED BY <1>1, SpacesAre DEF AllSpaces, KernelMap

\* A step that asks the kernel's tables for x and obtains it.
Changes(x) ==
  /\ pt # 0 /\ pt' = pt /\ users' = users /\ request' = x
  /\ x.page \in Page /\ x = [page |-> x.page, to |-> x.to] /\ (x.to = None \/ Present(x.to))
  /\ \A w \in Page : Walk(mem', pt, w) = IF w = x.page THEN x.to ELSE Walk(mem, pt, w)
  /\ \A i \in Index : Present(mem'[pt][i]) <=> Present(mem[pt][i]) \/ (x.to # None /\ i = Pt4(x.page))
  /\ \A u \in Range(users), i \in Index : mem'[u][i] = mem[u][i]

LEMMA HistoryKept ==
  ASSUME KernelOnly, NEW x, Changes(x)
  PROVE  KernelOnly' /\ Served'
<1>1. KernelOnly'
  BY DEF KernelOnly, Changes
<1>2. Served'
  BY DEF Served, Changes
<1> QED BY <1>1, <1>2

LEMMA ChangeRefines ==
  ASSUME Inv, Inv', KernelOnly, KernelOnly', Served, NEW x, Changes(x)
  PROVE  [Abstract!Next]_(Abstract!vars)
<1>1. /\ pt # 0 /\ pt' = pt /\ users' = users /\ request' = x
      /\ x.page \in Page /\ x = [page |-> x.page, to |-> x.to] /\ (x.to = None \/ Present(x.to))
      /\ \A w \in Page : Walk(mem', pt, w) = IF w = x.page THEN x.to ELSE Walk(mem, pt, w)
      /\ \A i \in Index : Present(mem'[pt][i]) <=> Present(mem[pt][i]) \/ (x.to # None /\ i = Pt4(x.page))
      /\ \A u \in Range(users), i \in Index : mem'[u][i] = mem[u][i]
  BY DEF Changes
<1>2. Views /\ Views' /\ next \in Nat /\ pt \in Memory
  BY <1>1 DEF Inv, Types
<1>3. PICK level : Leveled(mem', next', level) /\ level[pt] = 4
  BY <1>1 DEF Inv, Tree
<1>4. KernelMap = Translations(mem, pt) /\ KernelMap' = Translations(mem', pt)
  BY <1>1 DEF KernelMap
<1>5. KernelUsed = {i \in Index : Present(mem[pt][i])} /\ KernelUsed' = {i \in Index : Present(mem'[pt][i])}
  BY <1>1 DEF KernelUsed
<1> DEFINE now == {y \in KernelMap : y.page # x.page} \cup (IF x.to = None THEN {} ELSE {x})
<1>6. KernelMap' = now
  <2>1. ASSUME NEW y, y \in KernelMap' PROVE y \in now
    <3>1. PICK v \in Page : Present(Walk(mem', pt, v)) /\ y = [page |-> v, to |-> Walk(mem', pt, v)]
      BY <1>4, <2>1, TranslationFacts
    <3>2. CASE v = x.page
      BY <1>1, <3>1, <3>2, NoneFacts
    <3>3. CASE v # x.page
      <4>1. Walk(mem', pt, v) = Walk(mem, pt, v)
        BY <1>1, <3>3
      <4>2. y \in KernelMap
        BY <1>4, <3>1, <4>1, TranslationFacts
      <4> QED BY <3>1, <3>3, <4>2
    <3> QED BY <3>2, <3>3
  <2>2. ASSUME NEW y \in KernelMap, y.page # x.page PROVE y \in KernelMap'
    <3>1. PICK v \in Page : Present(Walk(mem, pt, v)) /\ y = [page |-> v, to |-> Walk(mem, pt, v)]
      BY <1>4, TranslationFacts
    <3>2. Walk(mem', pt, v) = Walk(mem, pt, v)
      BY <1>1, <2>2, <3>1
    <3> QED BY <1>4, <3>1, <3>2, TranslationFacts
  <2>3. ASSUME x.to # None PROVE x \in KernelMap'
    <3>1. Walk(mem', pt, x.page) = x.to /\ Present(x.to)
      BY <1>1, <2>3
    <3> QED BY <1>1, <1>4, <3>1, TranslationFacts
  <2> QED BY <2>1, <2>2, <2>3
<1>7. ASSUME NEW y \in KernelMap' PROVE Pt4(y.page) \in KernelUsed'
  <2>1. PICK v \in Page : Present(Walk(mem', pt, v)) /\ y = [page |-> v, to |-> Walk(mem', pt, v)]
    BY <1>4, TranslationFacts
  <2>2. v \in Nat /\ Pt4(v) \in Index
    BY PageNat, IndexFacts
  <2>3. Present(mem'[pt][Pt4(v)])
    BY <1>2, <1>3, <2>1, <2>2, WalkPresent
  <2> QED BY <1>5, <2>1, <2>2, <2>3
<1>8. KernelUsed' = KernelUsed \cup {Pt4(y.page) : y \in now}
  <2>1. ASSUME NEW i \in KernelUsed' PROVE i \in KernelUsed \/ \E y \in now : i = Pt4(y.page)
    BY <1>1, <1>5
  <2>2. KernelUsed \subseteq KernelUsed'
    BY <1>1, <1>5
  <2> QED BY <1>6, <1>7, <2>1, <2>2
<1>9. /\ AllSpaces = [u \in DOMAIN users |-> View(KernelMap, Shares(mem, users[u]))]
      /\ AllSpaces' = [u \in DOMAIN users |-> View(KernelMap', Shares(mem, users[u]))]
  <2>1. AllSpaces = [u \in DOMAIN users |-> View(KernelMap, Shares(mem, users[u]))]
    BY <1>1, <1>2, Spaces
  <2>2. AllSpaces' = [u \in DOMAIN users' |-> View(KernelMap', Shares(mem', users'[u]))]
    BY <1>1, <1>2, SpacesNext
  <2>3. ASSUME NEW u \in DOMAIN users PROVE Shares(mem', users[u]) = Shares(mem, users[u])
    <3>1. users[u] \in Range(users)
      BY DEF Range
    <3>2. \A i \in KernelHalf : i \in Index
      BY PagingAssumption DEF KernelHalf, Index
    <3> QED BY <1>1, <3>1, <3>2 DEF Shares
  <2> QED BY <1>1, <2>1, <2>2, <2>3
<1>10. CASE request' = request
  <2>1. \A w \in Page : Walk(mem', pt, w) = Walk(mem, pt, w)
    BY <1>1, <1>10 DEF Served
  <2>2. ASSUME NEW y PROVE y \in KernelMap' <=> y \in KernelMap
    BY <1>4, <2>1, TranslationFacts
  <2>3. KernelMap' = KernelMap
    BY <2>2
  <2>4. KernelUsed' = KernelUsed
    <3>1. ASSUME x.to # None PROVE Pt4(x.page) \in KernelUsed
      <4>1. Present(Walk(mem, pt, x.page))
        BY <1>1, <1>10, <3>1 DEF Served
      <4>2. x.page \in Nat /\ Pt4(x.page) \in Index
        BY <1>1, PageNat, IndexFacts
      <4>3. PICK before : Leveled(mem, next, before) /\ before[pt] = 4
        BY <1>1 DEF Inv, Tree
      <4>4. Present(mem[pt][Pt4(x.page)])
        BY <1>2, <4>1, <4>2, <4>3, WalkPresent
      <4> QED BY <1>5, <4>2, <4>4
    <3> QED BY <1>1, <1>5, <3>1
  <2>5. AllSpaces' = AllSpaces
    BY <1>9, <2>3
  <2> QED BY <1>10, <2>3, <2>4, <2>5 DEF Abstract!vars, KernelMap, KernelUsed
<1>11. CASE request' # request
  <2>1. request'.page = x.page /\ request'.to = x.to /\ request' = x
    BY <1>1
  <2>2. AllSpaces' = [u \in DOMAIN AllSpaces |->
                        [AllSpaces[u] EXCEPT !.sees = {y \in now : Pt4(y.page) \in AllSpaces[u].shares}]]
    <3> HIDE DEF now
    <3>1. DOMAIN AllSpaces = DOMAIN users /\ \A u \in DOMAIN users : AllSpaces[u] = View(KernelMap, Shares(mem, users[u]))
      BY <1>9
    <3>2. ASSUME NEW u \in DOMAIN users
          PROVE  [AllSpaces[u] EXCEPT !.sees = {y \in now : Pt4(y.page) \in AllSpaces[u].shares}]
                   = View(now, Shares(mem, users[u]))
      <4>1. PICK sh, se : sh = Shares(mem, users[u]) /\ se = In(KernelMap, sh)
        OBVIOUS
      <4>2. AllSpaces[u] = [shares |-> sh, sees |-> se]
        BY <3>1, <4>1 DEF View
      <4>3. {y \in now : Pt4(y.page) \in AllSpaces[u].shares} = In(now, sh)
        BY <4>2 DEF In
      <4>4. \A z : [AllSpaces[u] EXCEPT !.sees = z] = [shares |-> sh, sees |-> z]
        BY <4>2
      <4> QED BY <4>1, <4>3, <4>4 DEF View
    <3> QED BY <1>6, <1>9, <3>1, <3>2
  <2>3. now = {y \in KernelMap : y.page # request'.page} \cup (IF request'.to = None THEN {} ELSE {request'})
    BY <2>1
  <2> HIDE DEF now
  <2>4. Abstract!Change
    BY <1>6, <1>8, <1>11, <2>2, <2>3 DEF Abstract!Change, KernelMap, KernelUsed, Abstract!Regions, Abstract!Within
  <2> QED BY <2>4 DEF Abstract!Next
<1> QED BY <1>10, <1>11


Refined == [Abstract!Next]_(Abstract!vars) /\ KernelOnly' /\ Served'

LEMMA SameRefines ==
  ASSUME KernelOnly, Served, mem' = mem, pt' = pt, users' = users, request' = request
  PROVE  Refined
<1>1. KernelOnly'
  BY DEF KernelOnly
<1>2. Served'
  BY DEF Served
<1>3. AllSpaces' = AllSpaces
  BY DEF AllSpaces
<1>4. UNCHANGED Abstract!vars
  BY <1>3 DEF Abstract!vars
<1> QED BY <1>1, <1>2, <1>4 DEF Refined

LEMMA MappingRefines ==
  ASSUME Inv, Inv', KernelOnly, Served, NEW x, x \in Request, x.page \in Page, Present(x.to), Mapping(x),
         request' = IF wild' THEN request ELSE x, pt # 0, pt' = pt, users' = users
  PROVE  Refined
<1>1. CASE wild'
  <2>1. mem' = mem /\ request' = request
    BY <1>1 DEF Mapping
  <2> QED BY <2>1, SameRefines
<1>2. CASE ~wild'
  <2>1. x.to # None /\ x = [page |-> x.page, to |-> x.to]
    BY NoneFacts DEF Request
  <2>2. /\ \A w \in Page : Walk(mem', pt, w) = IF w = x.page THEN x.to ELSE Walk(mem, pt, w)
        /\ \A u \in Range(users), i \in Index : mem'[u][i] = mem[u][i]
        /\ \A i \in Index : Present(mem[pt][i]) \/ i # Pt4(x.page) => mem'[pt][i] = mem[pt][i]
        /\ Present(mem'[pt][Pt4(x.page)])
    BY <1>2 DEF Mapping
  <2>3. \A i \in Index : Present(mem'[pt][i]) <=> Present(mem[pt][i]) \/ i = Pt4(x.page)
    BY <2>2
  <2>4. Changes(x)
    BY <1>2, <2>1, <2>2, <2>3 DEF Changes
  <2> QED BY <2>4, HistoryKept, ChangeRefines DEF Refined
<1> QED BY <1>1, <1>2

LEMMA StartMapRefines ==
  ASSUME Inv, KernelOnly, Served, StartMap
  PROVE  Refined
<1> DEFINE x == StartMaps[loop]
<1>1. /\ Types /\ pt # 0 /\ ~Started /\ Maps(x, 0) /\ pt' = pt /\ users' = users
      /\ request' = IF wild' THEN request ELSE x
  BY DEF Inv, StartMap, Maps
<1>2. PICK level \in [Memory -> 0 .. 4] : Tree(level)
  BY <1>1 DEF Inv
<1>3. loop \in 1 .. Len(StartMaps)
  BY <1>1, StartFacts DEF Types, Started
<1>4. x \in Range(StartMaps)
  BY <1>3, StartFacts
<1>5. x \in Request /\ x.page \in Page /\ x.to \in Entry /\ Present(x.to)
  BY <1>4, MapFacts
<1>6. Mapping(x)
  BY <1>1, <1>2, <1>5, MapsFacts
<1>7. Inv'
  BY StartMapInv
<1> HIDE DEF x
<1> QED BY <1>1, <1>5, <1>6, <1>7, MappingRefines

LEMMA MapPageRefines ==
  ASSUME Inv, KernelOnly, Served, MapPage
  PROVE  Refined
<1> DEFINE x == [page |-> call.addr + call.i, to |-> [to |-> Frame(next, 1), flags |-> {"P", "W"}]]
<1>1. /\ Types /\ call.op = "map" /\ Maps(x, 1) /\ pt' = pt /\ users' = users
      /\ request' = IF wild' THEN request ELSE x
  BY DEF Inv, MapPage, Maps
<1>2. call.addr + call.i \in Page /\ Started
  BY <1>1, NoneCalled, CallFacts
<1>3. pt # 0
  BY <1>2, StartedFacts
<1>4. PICK level \in [Memory -> 0 .. 4] : Tree(level)
  BY <1>3 DEF Inv
<1>5. x \in Request /\ x.page \in Page /\ x.to \in Entry /\ Present(x.to)
  <2>1. PICK f \in Memory : f = Frame(next, 1)
    BY <1>1, FrameFacts DEF Types
  <2>2. PICK v \in Page : v = call.addr + call.i
    BY <1>2
  <2>3. f \in Int /\ v \in Int
    BY MemoryNat, PageNat
  <2>4. PICK e : e = [to |-> f, flags |-> {"P", "W"}]
    OBVIOUS
  <2>5. e \in Entry /\ Present(e)
    BY <2>3, <2>4 DEF Entry, Present
  <2>6. x = [page |-> v, to |-> e]
    BY <2>1, <2>2, <2>4
  <2> QED BY <2>3, <2>5, <2>6 DEF Request
<1> HIDE DEF x
<1>6. Mapping(x)
  BY <1>1, <1>4, <1>5, MapsFacts
<1>7. Inv'
  BY MapPageInv
<1> QED BY <1>1, <1>3, <1>5, <1>6, <1>7, MappingRefines

LEMMA UnmappedRefines ==
  ASSUME Inv, KernelOnly, Served, UnmapPage, ~wild'
  PROVE  Refined
<1>1. PICK v : v = call.addr + call.i
  OBVIOUS
<1>2. /\ Types /\ ~wild /\ call.op = "unmap" /\ mem' = PtUnmap(mem, pt, v)
      /\ pt' = pt /\ users' = users /\ request' = [page |-> v, to |-> None]
  BY <1>1 DEF Inv, UnmapPage
<1>3. v \in Page /\ v \in Heap /\ v \in PagesOf([addr |-> call.addr, num_pages |-> call.num_pages])
      /\ [addr |-> call.addr, num_pages |-> call.num_pages] \in areas /\ Started
      /\ ~(v < call.addr + call.i)
  <2>1. call # NoCall
    BY <1>2, NoneCalled
  <2>2. v \in Page /\ v \in Int
    BY <1>1, <2>1, CallFacts, PageNat
  <2> QED BY <1>1, <2>1, <2>2, CallFacts
<1>4. pt # 0 /\ Contents
  BY <1>3, StartedFacts
<1>5. PICK level \in [Memory -> 0 .. 4] : Tree(level)
  BY <1>4 DEF Inv
<1>6. /\ Leveled(mem, next, level) /\ level[pt] = 4 /\ pt \in Memory /\ next \in Nat /\ v \in Nat
      /\ \A u \in Range(users) : level[u] = 0 /\ u \in Memory
  <2>1. Range(users) \subseteq Memory
    <3>1. next \in Nat /\ next <= next /\ Range(users) \subseteq Taken(next)
      BY <1>2 DEF Types
    <3>2. Taken(next) \subseteq PoolFrames
      BY <3>1, TakenGrows
    <3> QED BY <3>1, <3>2, PoolNonzero
  <2> QED BY <1>2, <1>3, <1>5, <2>1, PageNat DEF Tree, Types
<1>7. v \in Mapped
  <2>1. v \notin Pending
    BY <1>2, <1>3 DEF Pending
  <2> QED BY <1>3, <2>1 DEF Mapped
<1>8. Deep(mem, pt, v)
  <2>1. Present(Walk(mem, pt, v))
    BY <1>2, <1>4, <1>7 DEF Contents
  <2> QED BY <1>6, <2>1, WalkPresent
<1>9. Puts(mem, next, level, pt, v, None, mem')
  <2>1. LastTable(mem, pt, v) = T1(mem, pt, v)
    BY DEF LastTable, T1, T2, T3
  <2>2. mem' = [mem EXCEPT ![T1(mem, pt, v)][Pt1(v)] = None]
    BY <1>2, <2>1 DEF PtUnmap
  <2>3. T1(mem, pt, v) \in Memory /\ Pt1(v) \in Index
    BY <1>6, <1>8, LevelFacts, IndexFacts
  <2>4. mem \in [Memory -> [Index -> Entry]]
    BY <1>6 DEF Leveled
  <2>5. Put(mem, mem', T1(mem, pt, v), Pt1(v), None)
    BY <2>2, <2>3, <2>4, NoneFacts DEF Put
  <2> QED BY <1>3, <1>6, <1>8, <2>5 DEF Puts
<1>10. /\ \A w \in Page : Walk(mem', pt, w) = IF w = v THEN None ELSE Walk(mem, pt, w)
       /\ \A u \in Memory, j \in Index : level[u] # 1 => mem'[u][j] = mem[u][j]
  BY <1>9, PutFacts
<1>11. Changes([page |-> v, to |-> None])
  <2>1. PICK x : x = [page |-> v, to |-> None]
    OBVIOUS
  <2>2. x.page = v /\ x.to = None /\ x = [page |-> x.page, to |-> x.to]
    BY <2>1
  <2>3. \A i \in Index : Present(mem'[pt][i]) <=> Present(mem[pt][i])
    BY <1>6, <1>10
  <2>4. \A u \in Range(users), i \in Index : mem'[u][i] = mem[u][i]
    BY <1>6, <1>10
  <2> QED BY <1>2, <1>3, <1>4, <1>10, <2>1, <2>2, <2>3, <2>4 DEF Changes
<1>12. Inv'
  BY UnmapPageInv
<1> QED BY <1>11, <1>12, HistoryKept, ChangeRefines DEF Refined

LEMMA UnmapPageRefines ==
  ASSUME Inv, KernelOnly, Served, UnmapPage
  PROVE  Refined
<1>1. CASE ~wild'
  BY <1>1, UnmappedRefines
<1>2. CASE wild'
  BY <1>2, SameRefines DEF UnmapPage
<1> QED BY <1>1, <1>2

LEMMA CreateKernelTableRefines ==
  ASSUME Inv, KernelOnly, Served, CreateKernelTable
  PROVE  Refined
<1>1. /\ pt = 0 /\ users = <<>> /\ users' = users /\ request' = request /\ next \in Nat
      /\ pt' = Frame(next, 1) /\ mem' = [mem EXCEPT ![pt'] = Zeroed]
      /\ mem \in [Memory -> [Index -> Entry]]
  BY DEF Inv, NothingYet, Types, CreateKernelTable
<1>2. pt' \in Memory
  <2>1. Frame(next, 1) \in Memory
    BY <1>1, FrameFacts
  <2> QED BY <1>1, <2>1
<1>3. \A i \in Index : mem'[pt'][i] = None
  BY <1>1, <1>2 DEF Zeroed
<1>4. ASSUME NEW v \in Page PROVE Walk(mem', pt', v) = None
  <2>1. Pt4(v) \in Index
    BY PageNat, IndexFacts
  <2>2. ~Present(mem'[pt'][Pt4(v)])
    BY <1>3, <2>1, NoneFacts
  <2> QED BY <2>2 DEF Walk
<1>5. Translations(mem', pt') = {}
  BY <1>4, TranslationFacts, NoneFacts
<1>6. {i \in Index : Present(mem'[pt'][i])} = {}
  BY <1>3, NoneFacts
<1>7. AllSpaces' = AllSpaces
  BY <1>1 DEF AllSpaces
<1>8. UNCHANGED Abstract!vars
  BY <1>1, <1>5, <1>6, <1>7 DEF Abstract!vars
<1>9. KernelOnly'
  BY <1>1 DEF KernelOnly, Range
<1>10. Served'
  BY <1>1, <1>4 DEF Served
<1> QED BY <1>8, <1>9, <1>10 DEF Refined


LEMMA CreateUserTableRefines ==
  ASSUME Inv, KernelOnly, Served, CreateUserTable
  PROVE  Refined
<1>1. PICK f : f = Frame(next, 1)
  OBVIOUS
<1>2. /\ Types /\ Started /\ pt' = pt /\ request' = request
      /\ f = 0 => wild'
      /\ \/ wild' /\ mem' = mem /\ users' = users
         \/ ~wild' /\ mem' = [mem EXCEPT ![f] = [i \in Index |-> Joined(i)]] /\ users' = Append(users, f)
  BY <1>1 DEF Inv, CreateUserTable, WorksOn
<1>3. pt # 0 /\ Views
  BY <1>2, StartedFacts
<1>4. PICK level \in [Memory -> 0 .. 4] : Tree(level)
  BY <1>3 DEF Inv
<1>5. /\ Leveled(mem, next, level) /\ level[pt] = 4 /\ pt \in Memory /\ next \in Nat
      /\ mem \in [Memory -> [Index -> Entry]] /\ users \in Seq(PoolFrames)
      /\ Range(users) \subseteq Taken(next) /\ Taken(next) \subseteq PoolFrames
      /\ \A t \in Memory : level[t] # 0 => t \in Taken(next)
  <2>1. next \in Nat /\ next <= next
    BY <1>2 DEF Types
  <2> QED BY <1>2, <1>4, <2>1, TakenGrows DEF Tree, Types, Leveled
<1>6. CASE wild'
  <2>1. mem' = mem /\ users' = users
    BY <1>2, <1>6
  <2> QED BY <1>2, <2>1, SameRefines
<1>7. CASE ~wild'
  <2>1. f # 0 /\ mem' = [mem EXCEPT ![f] = [i \in Index |-> Joined(i)]] /\ users' = Append(users, f)
    BY <1>2, <1>7
  <2>2. f \in Memory /\ f \in PoolFrames /\ f \notin Taken(next)
    <3>1. Len(Pool) \in Nat /\ (next + 1) - 1 = next
      BY <1>5, PagingAssumption
    <3>2. /\ Frame(next, 1) \in Memory
          /\ next + 1 <= Len(Pool) => Frame(next, 1) \in PoolFrames /\ Frame(next, 1) \notin Taken(next + 1 - 1)
          /\ next + 1 > Len(Pool) => Frame(next, 1) = 0
      BY <1>5, FrameFacts
    <3>3. next + 1 <= Len(Pool)
      BY <1>1, <1>5, <2>1, <3>1, <3>2
    <3>4. Frame(next, 1) \notin Taken(next)
      BY <1>5, <3>1, <3>3, FrameFacts
    <3> QED BY <1>1, <3>2, <3>3, <3>4
  <2>3. /\ \A i \in Index : mem'[f][i] = Joined(i)
        /\ \A t \in Memory : t # f => mem'[t] = mem[t]
    BY <1>5, <2>1, <2>2
  <2>4. pt # f /\ mem'[pt] = mem[pt] /\ \A t \in Memory : level[t] # 0 => mem'[t] = mem[t]
    BY <1>5, <2>2, <2>3
  <2>5. \A u \in Range(users) : u # f /\ mem'[u] = mem[u]
    <3>1. \A u \in Range(users) : u \in Taken(next) /\ u \in Memory
      BY <1>5, PoolNonzero
    <3> QED BY <2>2, <2>3, <3>1
  <2>6. Len(users) \in Nat /\ DOMAIN users = 1 .. Len(users) /\ DOMAIN users' = 1 .. Len(users) + 1
        /\ users'[Len(users) + 1] = f /\ \A k \in DOMAIN users : users'[k] = users[k]
    <3>1. users' = Append(users, f) /\ users \in Seq(PoolFrames) /\ f \in PoolFrames
      BY <1>5, <2>1, <2>2
    <3> QED BY <3>1
  <2>7. KernelOnly'
    <3> SUFFICES ASSUME NEW u \in Range(users'), NEW i \in Index \ KernelHalf PROVE mem'[u][i] = None
      BY DEF KernelOnly
    <3>1. PICK k \in DOMAIN users' : users'[k] = u
      BY DEF Range
    <3>2. CASE k = Len(users) + 1
      BY <2>3, <2>6, <3>1, <3>2 DEF Joined
    <3>3. CASE k # Len(users) + 1
      <4>1. k \in DOMAIN users /\ users[k] = u
        BY <2>6, <3>1, <3>3
      <4>2. u \in Range(users)
        BY <4>1 DEF Range
      <4> QED BY <2>5, <4>2 DEF KernelOnly
    <3> QED BY <3>2, <3>3
  <2>8. \A v \in Page : Walk(mem', pt, v) = Walk(mem, pt, v)
    <3>1. \A v \in Page : v \in Nat
      BY PageNat
    <3> QED BY <1>5, <2>4, <3>1, SameWalk
  <2>9. Served'
    BY <1>2, <1>3, <2>8 DEF Served
  <2>10. KernelMap' = KernelMap
    <3>1. ASSUME NEW y PROVE y \in Translations(mem', pt) <=> y \in Translations(mem, pt)
      BY <2>8, TranslationFacts
    <3>2. Translations(mem', pt) = Translations(mem, pt)
      BY <3>1
    <3> QED BY <1>2, <3>2 DEF KernelMap
  <2>11. KernelUsed' = KernelUsed
    BY <1>2, <2>4 DEF KernelUsed
  <2>12. Inv'
    BY CreateUserTableInv
  <2>13. AllSpaces = [k \in DOMAIN users |-> View(KernelMap, Shares(mem, users[k]))]
    BY <1>3, Spaces
  <2>14. AllSpaces' = [k \in 1 .. Len(users) + 1 |-> View(KernelMap, Shares(mem', users'[k]))]
    <3>1. pt' # 0 /\ Views'
      BY <1>2, <1>3, <2>12 DEF Inv
    <3>2. AllSpaces' = [k \in DOMAIN users' |-> View(KernelMap', Shares(mem', users'[k]))]
      BY <2>7, <3>1, SpacesNext
    <3> QED BY <2>6, <2>10, <3>2
  <2>15. \A k \in DOMAIN users : Shares(mem', users'[k]) = Shares(mem, users[k])
    <3> SUFFICES ASSUME NEW k \in DOMAIN users PROVE Shares(mem', users'[k]) = Shares(mem, users[k])
      OBVIOUS
    <3>1. users'[k] = users[k] /\ users[k] \in Range(users)
      BY <2>6 DEF Range
    <3> QED BY <2>5, <3>1 DEF Shares
  <2>16. Shares(mem', f) = KernelUsed \cap KernelHalf
    <3>1. \A i \in KernelHalf : i \in Index
      BY PagingAssumption DEF KernelHalf, Index
    <3>2. \A i \in KernelHalf : mem'[f][i] = mem[pt][i]
      BY <2>3, <3>1 DEF Joined
    <3> QED BY <1>3, <3>1, <3>2 DEF Shares, KernelUsed
  <2> DEFINE new == View(KernelMap, KernelUsed \cap KernelHalf)
  <2>17. AllSpaces' = Append(AllSpaces, new) /\ Len(AllSpaces') = Len(AllSpaces) + 1
    <3> HIDE DEF new
    <3>1. PICK n \in Nat : n = Len(users)
      BY <2>6
    <3>2. PICK s : s = AllSpaces
      OBVIOUS
    <3>3. PICK r : r = AllSpaces'
      OBVIOUS
    <3>4. DOMAIN s = 1 .. n /\ s = [k \in 1 .. n |-> s[k]]
      BY <2>6, <2>13, <3>1, <3>2
    <3>5. r = [k \in 1 .. n + 1 |-> IF k = n + 1 THEN new ELSE s[k]]
      <4>1. ASSUME NEW k \in 1 .. n PROVE k \in DOMAIN users /\ k # n + 1 /\ View(KernelMap, Shares(mem', users'[k])) = s[k]
        BY <2>6, <2>13, <2>15, <3>1, <3>2
      <4>2. View(KernelMap, Shares(mem', users'[n + 1])) = new
        BY <2>6, <2>16, <3>1 DEF new
      <4>3. r = [k \in 1 .. n + 1 |-> View(KernelMap, Shares(mem', users'[k]))]
        BY <2>14, <3>1, <3>3
      <4>4. ASSUME NEW k \in 1 .. n + 1 PROVE View(KernelMap, Shares(mem', users'[k])) = IF k = n + 1 THEN new ELSE s[k]
        <5>1. CASE k = n + 1
          BY <4>2, <5>1
        <5>2. CASE k # n + 1
          <6>1. k \in 1 .. n
            BY <5>2
          <6> QED BY <4>1, <5>2, <6>1
        <5> QED BY <5>1, <5>2
      <4> QED BY <4>3, <4>4
    <3>6. r = Append(s, new) /\ Len(r) = Len(s) + 1
      <4>1. PICK S : S = {s[k] : k \in 1 .. n}
        OBVIOUS
      <4>2. s \in Seq(S) /\ Len(s) = n
        BY <3>4, <4>1
      <4> QED BY <3>4, <3>5, <4>2
    <3> QED BY <3>2, <3>3, <3>6
  <2> HIDE DEF new
  <2>18. new = [shares |-> KernelUsed \cap KernelHalf,
                sees |-> {y \in KernelMap : Pt4(y.page) \in KernelUsed \cap KernelHalf}]
    BY DEF new, View, In
  <2>19. Abstract!Make
    BY <1>2, <2>10, <2>11, <2>17, <2>18 DEF Abstract!Make, Abstract!Within, KernelMap, KernelUsed
  <2> QED BY <2>7, <2>9, <2>19 DEF Refined, Abstract!Next
<1> QED BY <1>6, <1>7

LEMMA OtherRefines ==
  ASSUME KernelOnly, Served,
         \/ SwapIn \/ NoApic \/ Invalidate \/ UNCHANGED vars
         \/ \E n \in 1 .. MaxArea : \E a \in HhdmEnd .. HhdmEnd + HeapPages - n : Palloc(a, n)
         \/ \E a \in areas : Free(a)
         \/ \E u \in Range(users) : SwitchTo(u)
  PROVE  Refined
<1>1. mem' = mem /\ pt' = pt /\ users' = users /\ request' = request
  BY DEF SwapIn, NoApic, Invalidate, vars, Palloc, Free, SwitchTo
<1> QED BY <1>1, SameRefines

\* Table by table, pt_map, pt_unmap, pt_create and pt_join_kernel make of the four-level
\* tables the address spaces of AddressMap: the kernel's has exactly the translations last
\* asked for, and a task's shows those of the top level entries it was made with, now and
\* after every change the heap makes later, without being written again.
THEOREM Refinement == Spec => ImplementsMap
<1>1. Init => Abstract!Init
  <2> SUFFICES ASSUME Init PROVE Abstract!Init
    OBVIOUS
  <2>1. pt = 0 /\ users = <<>>
    BY DEF Init
  <2>2. AllSpaces = <<>>
    BY <2>1 DEF AllSpaces
  <2> QED BY <2>1, <2>2 DEF Abstract!Init
<1>2. Init => KernelOnly /\ Served
  <2> SUFFICES ASSUME Init PROVE KernelOnly /\ Served
    OBVIOUS
  <2>1. pt = 0 /\ users = <<>> /\ request = [page |-> 0, to |-> None]
    BY DEF Init
  <2>2. 0 \in Page
    <3>1. 0 \in Nat /\ Up(Up(Up(Up(0)))) = 0
      <4>1. Fanout \in Nat \ {0}
        BY PagingAssumption
      <4>2. Up(0) = 0
        BY <4>1 DEF Up
      <4> QED BY <4>2
    <3> QED BY <3>1, PageUp
  <2>3. KernelOnly
    BY <2>1 DEF KernelOnly, Range
  <2> QED BY <2>1, <2>2, <2>3 DEF Served
<1>3. Inv /\ KernelOnly /\ Served /\ [Next]_vars => [Abstract!Next]_(Abstract!vars) /\ KernelOnly' /\ Served'
  <2> SUFFICES ASSUME Inv, KernelOnly, Served, [Next]_vars PROVE Refined
    BY DEF Refined
  <2>1. CASE CreateKernelTable
    BY <2>1, CreateKernelTableRefines
  <2>2. CASE StartMap
    BY <2>2, StartMapRefines
  <2>3. CASE MapPage
    BY <2>3, MapPageRefines
  <2>4. CASE UnmapPage
    BY <2>4, UnmapPageRefines
  <2>5. CASE CreateUserTable
    BY <2>5, CreateUserTableRefines
  <2> QED BY <2>1, <2>2, <2>3, <2>4, <2>5, OtherRefines DEF Next
<1> QED BY <1>1, <1>2, <1>3, Invariance, PTL DEF Spec, ImplementsMap, Abstract!Spec
=============================================================================
