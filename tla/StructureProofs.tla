--------------------------- MODULE StructureProofs ---------------------------
(***************************************************************************)
(* Proofs about structures kept in memory: the ring buffer of events, for  *)
(* every capacity and set of events, the chunks of a tmpfs file, for every *)
(* size of chunk, amount of memory and length of the calls, the lists of   *)
(* the slab allocator, for every number of caches and slabs and of objects *)
(* to a slab, and the directories, for every set of names and paths.       *)
(***************************************************************************)
EXTENDS RingBuf, TmpfsFile, Slab, Vfs, TLAPS, FiniteSetTheorems, WellFoundedInduction

(* The ring buffer.                                                        *)

Inv == TypeOK /\ Aligned

\* The successor of an index, without the modulus.
LEMMA SuccFacts ==
  ASSUME NEW i \in Index
  PROVE  Succ(i) = (IF i + 1 = Cap THEN 0 ELSE i + 1) /\ Succ(i) \in Index
BY CapAssumption DEF Succ, Index

\* An index at most Cap places after another, without the modulus.
LEMMA WrapFacts ==
  ASSUME NEW i \in Index, NEW k \in 0 .. Cap
  PROVE  (i + k) % Cap = (IF i + k < Cap THEN i + k ELSE i + k - Cap)
<1>1. CASE i + k < Cap
  BY <1>1, CapAssumption DEF Index
<1>2. CASE ~(i + k < Cap)
  BY <1>2, CapAssumption DEF Index
<1> QED BY <1>1, <1>2

-----------------------------------------------------------------------------
\* The indices and the length stay in range and stay in step.
LEMMA InitInv == Init => Inv
BY CapAssumption DEF Init, Inv, TypeOK, Index, Mode, Aligned

\* No step breaks the invariant.
LEMMA NextInv == Inv /\ [Next]_vars => Inv'
<1> SUFFICES ASSUME Inv, [Next]_vars PROVE Inv'
  OBVIOUS
<1>0. /\ Cap \in Nat \ {0} /\ head \in Index /\ tail \in Index /\ len \in 0 .. Cap
      /\ buf \in [Index -> Event \cup {Garbage}] /\ mode \in Mode
      /\ out \in Event \cup {Garbage}
      /\ tail = (IF head + len < Cap THEN head + len ELSE head + len - Cap)
  BY CapAssumption, WrapFacts DEF Inv, TypeOK, Aligned
<1>1. ASSUME NEW e \in Event, WriteOver(e) \/ WriteBlocking(e) PROVE Inv'
  <2>1. TypeOK'
    BY <1>0, <1>1, SuccFacts DEF WriteOver, WriteBlocking, Full, TypeOK
  <2>2. tail' = (IF head' + len' < Cap THEN head' + len' ELSE head' + len' - Cap)
    <3>1. tail' = (IF tail + 1 = Cap THEN 0 ELSE tail + 1)
      BY <1>0, <1>1, SuccFacts DEF WriteOver, WriteBlocking
    <3>2. CASE Full
      <4>1. len = Cap /\ len' = Cap /\ head' = (IF head + 1 = Cap THEN 0 ELSE head + 1)
        BY <1>0, <1>1, <3>2, SuccFacts DEF WriteOver, WriteBlocking, Full
      <4> QED BY <1>0, <3>1, <4>1 DEF Index
    <3>3. CASE ~Full
      <4>1. len < Cap /\ len' = len + 1 /\ head' = head
        BY <1>0, <1>1, <3>3 DEF WriteOver, WriteBlocking, Full
      <4> QED BY <1>0, <3>1, <4>1 DEF Index
    <3> QED BY <3>2, <3>3
  <2> QED BY <2>1, <2>2, WrapFacts DEF Inv, TypeOK, Aligned
<1>2. CASE Read
  <2>1. TypeOK'
    BY <1>0, <1>2, SuccFacts DEF Read, TypeOK
  <2>2. tail' = (IF head' + len' < Cap THEN head' + len' ELSE head' + len' - Cap)
    <3>1. /\ head' = (IF head + 1 = Cap THEN 0 ELSE head + 1)
          /\ len # 0 /\ len' = len - 1 /\ tail' = tail
      BY <1>0, <1>2, SuccFacts DEF Read
    <3> QED BY <1>0, <3>1 DEF Index
  <2> QED BY <2>1, <2>2, WrapFacts DEF Inv, TypeOK, Aligned
<1>3. CASE UNCHANGED vars
  BY <1>3 DEF vars, Inv, TypeOK, Aligned
<1> QED BY <1>1, <1>2, <1>3 DEF Next, Write

\* Type correctness: no index leaves the buffer and no length its capacity.
THEOREM BufferTypeCorrect == Spec => []TypeOK
<1>1. Inv => TypeOK
  BY DEF Inv
<1> QED BY <1>1, InitInv, NextInv, PTL DEF Spec

\* The write index, the read index and the length agree.
THEOREM BufferAligned == Spec => []Aligned
<1>1. Inv => Aligned
  BY DEF Inv
<1> QED BY <1>1, InitInv, NextInv, PTL DEF Spec
-----------------------------------------------------------------------------
(* The buffer implements the queue.                                        *)

\* Contents, as an operator on any buffer, head and length.
Elements(b, h, l) == [k \in 1 .. l |-> b[(h + k - 1) % Cap]]

\* What an element of the buffer may hold.
Elem == Event \cup {Garbage}

\* The place of the k-th element from h, without the modulus.
Slot(h, k) == IF h + k - 1 < Cap THEN h + k - 1 ELSE h + k - 1 - Cap

\* What Elements(b, h, l) holds at each place.
LEMMA ElementsFacts ==
  ASSUME NEW b \in [Index -> Elem], NEW h \in Index, NEW l \in 0 .. Cap
  PROVE  /\ Elements(b, h, l) \in Seq(Elem)
         /\ Len(Elements(b, h, l)) = l
         /\ \A k \in 1 .. l : /\ Slot(h, k) \in Index
                              /\ Elements(b, h, l)[k] = b[Slot(h, k)]
<1>0. Cap \in Nat \ {0} /\ l \in Nat /\ l <= Cap
  BY CapAssumption
<1>1. ASSUME NEW k \in 1 .. l
      PROVE  (h + k - 1) % Cap = Slot(h, k) /\ Slot(h, k) \in Index
  <2>1. k - 1 \in 0 .. Cap /\ h + (k - 1) = h + k - 1
    BY <1>0 DEF Index
  <2>2. (h + (k - 1)) % Cap = (IF h + (k - 1) < Cap THEN h + (k - 1) ELSE h + (k - 1) - Cap)
    BY <2>1, WrapFacts
  <2> QED BY <1>0, <2>1, <2>2 DEF Index, Slot
<1> QED BY <1>0, <1>1 DEF Elements

\* A write that finds room appends, one that finds none replaces the oldest.
LEMMA WriteStep ==
  ASSUME Inv, Inv', NEW e \in Event, WriteOver(e) \/ WriteBlocking(e)
  PROVE  IF Full THEN Contents' = Append(Tail(Contents), e) ELSE Contents' = Append(Contents, e)
<1> DEFINE old == Elements(buf, head, len)
           new == Elements(buf', head', len')
<1>0. /\ Cap \in Nat \ {0} /\ head \in Index /\ tail \in Index /\ len \in 0 .. Cap
      /\ buf \in [Index -> Elem]
      /\ tail = (IF head + len < Cap THEN head + len ELSE head + len - Cap)
      /\ buf' = [buf EXCEPT ![tail] = e]
  BY CapAssumption, WrapFacts DEF Inv, TypeOK, Elem, Aligned, WriteOver, WriteBlocking
<1>1. buf' \in [Index -> Elem] /\ head' \in Index /\ len' \in 0 .. Cap
  BY DEF Inv, TypeOK, Elem
<1>2. Contents = old /\ Contents' = new
  BY DEF Contents, Elements
<1>3. /\ old \in Seq(Elem) /\ Len(old) = len
      /\ \A k \in 1 .. len : Slot(head, k) \in Index /\ old[k] = buf[Slot(head, k)]
  <2>1. buf \in [Index -> Elem] /\ head \in Index /\ len \in 0 .. Cap
    BY <1>0
  <2> QED BY ONLY <2>1, ElementsFacts
<1>4. /\ new \in Seq(Elem) /\ Len(new) = len'
      /\ \A k \in 1 .. len' : Slot(head', k) \in Index /\ new[k] = buf'[Slot(head', k)]
  BY ONLY <1>1, ElementsFacts
<1> HIDE DEF old, new
<1>5. CASE ~Full
  <2>1. len < Cap /\ len' = len + 1 /\ head' = head
    BY <1>0, <1>5 DEF WriteOver, WriteBlocking, Full
  <2>2. ASSUME NEW k \in 1 .. len PROVE new[k] = old[k]
    <3>1. Slot(head, k) # tail
      BY <1>0, <2>1 DEF Slot, Index
    <3> QED BY <1>0, <1>3, <1>4, <2>1, <3>1
  <2>3. new[len + 1] = e
    <3>1. Slot(head, len + 1) = tail
      BY <1>0 DEF Slot, Index
    <3> QED BY <1>0, <1>4, <2>1, <3>1
  <2>4. new = Append(old, e)
    BY <1>0, <1>3, <1>4, <2>1, <2>2, <2>3
  <2> QED BY <1>2, <1>5, <2>4
<1>6. CASE Full
  <2>1. /\ len = Cap /\ len' = Cap /\ tail = head
        /\ head' = (IF head + 1 = Cap THEN 0 ELSE head + 1)
    BY <1>0, <1>6, SuccFacts DEF WriteOver, WriteBlocking, Full, Index
  <2>2. ASSUME NEW k \in 1 .. Cap - 1 PROVE new[k] = old[k + 1]
    <3>1. Slot(head', k) = Slot(head, k + 1) /\ Slot(head', k) # tail
      BY <1>0, <2>1 DEF Slot, Index
    <3>2. k \in 1 .. len' /\ k + 1 \in 1 .. len
      BY <1>0, <2>1
    <3> QED BY <1>0, <1>3, <1>4, <3>1, <3>2
  <2>3. new[Cap] = e
    <3>1. Slot(head', Cap) = tail /\ Cap \in 1 .. len'
      BY <1>0, <2>1 DEF Slot, Index
    <3> QED BY <1>0, <1>4, <3>1
  <2>4. /\ Tail(old) \in Seq(Elem) /\ Len(Tail(old)) = Cap - 1
        /\ \A k \in 1 .. Cap - 1 : Tail(old)[k] = old[k + 1]
    BY <1>0, <1>3, <2>1
  <2>5. new = Append(Tail(old), e)
    BY <1>0, <1>4, <2>1, <2>2, <2>3, <2>4
  <2> QED BY <1>2, <1>6, <2>5
<1> QED BY <1>5, <1>6

\* A read takes out the oldest.
LEMMA ReadStep ==
  ASSUME Inv, Inv', Read
  PROVE  Contents # <<>> /\ out' = Head(Contents) /\ Contents' = Tail(Contents)
<1> DEFINE old == Elements(buf, head, len)
           new == Elements(buf', head', len')
<1>0. /\ Cap \in Nat \ {0} /\ head \in Index /\ len \in 1 .. Cap
      /\ buf \in [Index -> Elem] /\ buf' = buf
      /\ head' = (IF head + 1 = Cap THEN 0 ELSE head + 1) /\ len' = len - 1
      /\ out' = buf[head]
  BY CapAssumption, SuccFacts DEF Inv, TypeOK, Elem, Read
<1>1. buf' \in [Index -> Elem] /\ head' \in Index /\ len' \in 0 .. Cap /\ len \in 0 .. Cap
  BY DEF Inv, TypeOK, Elem
<1>2. Contents = old /\ Contents' = new
  BY DEF Contents, Elements
<1>3. /\ old \in Seq(Elem) /\ Len(old) = len
      /\ \A k \in 1 .. len : old[k] = buf[Slot(head, k)]
  <2>1. buf \in [Index -> Elem] /\ head \in Index /\ len \in 0 .. Cap
    BY <1>0, <1>1
  <2> QED BY ONLY <2>1, ElementsFacts
<1>4. /\ new \in Seq(Elem) /\ Len(new) = len - 1
      /\ \A k \in 1 .. len - 1 : new[k] = buf[Slot(head', k)]
  <2>1. /\ new \in Seq(Elem) /\ Len(new) = len'
        /\ \A k \in 1 .. len' : new[k] = buf'[Slot(head', k)]
    BY ONLY <1>1, ElementsFacts
  <2> HIDE DEF new
  <2> QED BY <1>0, <2>1
<1> HIDE DEF old, new
<1>5. ASSUME NEW k \in 1 .. len - 1 PROVE new[k] = old[k + 1]
  <2>1. Slot(head', k) = Slot(head, k + 1)
    BY <1>0 DEF Slot, Index
  <2> QED BY <1>0, <1>3, <1>4, <2>1
<1>6. Slot(head, 1) = head
  BY <1>0 DEF Slot, Index
<1>7. old # <<>> /\ Head(old) = old[1] /\ old[1] = buf[head]
  BY <1>0, <1>3, <1>6
<1>8. /\ Tail(old) \in Seq(Elem) /\ Len(Tail(old)) = len - 1
      /\ \A k \in 1 .. len - 1 : Tail(old)[k] = old[k + 1]
  BY <1>0, <1>3
<1>9. new = Tail(old)
  BY <1>4, <1>5, <1>8
<1> QED BY <1>0, <1>2, <1>7, <1>9

\* The ring buffer implements the bounded queue.
THEOREM BufferRefinement == Spec => ImplementsQueue
<1>1. Init => Queue!Init
  BY CapAssumption DEF Init, Queue!Init, Contents
<1>2. Inv /\ Inv' /\ [Next]_vars => [Queue!Next]_(Queue!vars)
  <2> SUFFICES ASSUME Inv, Inv', [Next]_vars PROVE [Queue!Next]_(Queue!vars)
    OBVIOUS
  <2>0. Len(Contents) = len
    BY ElementsFacts DEF Inv, TypeOK, Elem, Contents, Elements
  <2>1. ASSUME NEW e \in Event, WriteOver(e) \/ WriteBlocking(e)
        PROVE  Queue!Push(e) \/ Queue!Replace(e)
    <3>1. mode' = mode /\ out' = out
      BY <2>1 DEF WriteOver, WriteBlocking
    <3>2. Full => mode = "OVERWRITE"
      BY <2>1 DEF WriteOver, WriteBlocking
    <3>3. Full => len = Cap
      BY DEF Full
    <3>4. ~Full => len < Cap
      BY CapAssumption DEF Full, Inv, TypeOK
    <3> QED BY <2>0, <2>1, <3>1, <3>2, <3>3, <3>4, WriteStep DEF Queue!Push, Queue!Replace
  <2>2. CASE Read
    BY <2>2, ReadStep DEF Read, Queue!Next, Queue!Pop
  <2>3. CASE UNCHANGED vars
    BY <2>3 DEF vars, Queue!vars, Contents
  <2> QED BY <2>1, <2>2, <2>3 DEF Next, Write, Queue!Next
<1> QED BY <1>1, <1>2, InitInv, NextInv, PTL DEF Spec, ImplementsQueue, Queue!Spec
-----------------------------------------------------------------------------
(* The chunks of a file.                                                   *)

Value == Byte \cup {0}
Chunk == [Place -> Value]

\* Byte i of a list of chunks.
At(list, i) == list[ChunkOf(i)][PlaceOf(i)]

\* The length is within the chunks there are.
FileInv ==
  /\ chunks \in Seq(Chunk) /\ left \in Nat /\ cap \in Nat
  /\ cap <= ChunkSize * Len(chunks)

-----------------------------------------------------------------------------
LEMMA MaxTwo == ASSUME NEW a \in Int, NEW b \in Int PROVE Max({a, b}) = IF a < b THEN b ELSE a
<1>1. (IF a < b THEN b ELSE a) \in {a, b} /\ \A y \in {a, b} : (IF a < b THEN b ELSE a) >= y
  OBVIOUS
<1>2. \A x \in {a, b} : (\A y \in {a, b} : x >= y) => x = (IF a < b THEN b ELSE a)
  OBVIOUS
<1> QED BY <1>1, <1>2 DEF Max

LEMMA MinTwo == ASSUME NEW a \in Int, NEW b \in Int PROVE Min({a, b}) = IF a < b THEN a ELSE b
<1>1. (IF a < b THEN a ELSE b) \in {a, b} /\ \A y \in {a, b} : (IF a < b THEN a ELSE b) <= y
  OBVIOUS
<1>2. \A x \in {a, b} : (\A y \in {a, b} : x <= y) => x = (IF a < b THEN a ELSE b)
  OBVIOUS
<1> QED BY <1>1, <1>2 DEF Min

\* The greatest and the least of FileBytes are these.
LEMMA SameBounds == \A S : File!Max(S) = Max(S) /\ File!Min(S) = Min(S)
BY DEF File!Max, File!Min, Max, Min

\* Where byte i is: a chunk and a place in it, and no other.
LEMMA Places ==
  ASSUME NEW i \in Nat
  PROVE  /\ ChunkOf(i) \in Nat \ {0} /\ PlaceOf(i) \in Place
         /\ (ChunkOf(i) - 1) * ChunkSize + PlaceOf(i) = i
<1>1. ChunkSize \in Nat \ {0}
  BY FileAssumption
<1> QED BY <1>1 DEF ChunkOf, PlaceOf, Place

LEMMA Order ==
  ASSUME NEW c \in Nat, NEW d \in Nat, c <= d
  PROVE  ChunkSize * c <= ChunkSize * d /\ ChunkSize * c \in Nat
<1>1. ChunkSize \in Nat \ {0}
  BY FileAssumption
<1>2. PICK e \in Nat : d = c + e
  OBVIOUS
<1>3. ChunkSize * d = ChunkSize * c + ChunkSize * e /\ ChunkSize * e \in Nat /\ ChunkSize * c \in Nat
  BY <1>1, <1>2
<1> QED BY <1>3

\* A byte is within the first n chunks exactly if its chunk is one of them.
LEMMA Within ==
  ASSUME NEW i \in Nat, NEW n \in Nat
  PROVE  ChunkOf(i) <= n <=> i < ChunkSize * n
<1>0. ChunkSize \in Nat \ {0} /\ ChunkOf(i) \in Nat \ {0} /\ PlaceOf(i) \in 0 .. ChunkSize - 1
      /\ (ChunkOf(i) - 1) * ChunkSize + PlaceOf(i) = i
  BY FileAssumption, Places DEF Place
<1> DEFINE k == ChunkOf(i)
<1>1. ChunkSize * k = (k - 1) * ChunkSize + ChunkSize /\ (k - 1) * ChunkSize \in Nat
      /\ (k - 1) * ChunkSize = ChunkSize * (k - 1)
  BY <1>0
<1>2. k <= n => ChunkSize * k <= ChunkSize * n
  BY <1>0, Order
<1>3. n <= k - 1 => ChunkSize * n <= ChunkSize * (k - 1)
  BY <1>0, Order
<1>4. ChunkSize * n \in Nat
  BY <1>0
<1> QED BY <1>0, <1>1, <1>2, <1>3, <1>4

-----------------------------------------------------------------------------
(* Writing.                                                                *)

Buffer(m) == [1 .. m -> Byte]

\* What Stored(n, data, offset) holds, byte by byte.
LEMMA StoredFacts ==
  ASSUME FileInv, NEW n \in Nat, NEW m \in Nat, NEW data \in Buffer(m), NEW offset \in Nat
  PROVE  /\ Stored(n, data, offset) \in Seq(Chunk)
         /\ Len(Stored(n, data, offset)) = IF n < Len(chunks) THEN Len(chunks) ELSE n
         /\ \A i \in Nat : ChunkOf(i) <= Len(Stored(n, data, offset)) =>
              At(Stored(n, data, offset), i) =
                IF offset <= i /\ i < offset + m THEN data[i - offset + 1]
                ELSE IF ChunkOf(i) <= Len(chunks) THEN At(chunks, i) ELSE 0
<1> DEFINE length == IF n < Len(chunks) THEN Len(chunks) ELSE n
           new(k, b) == LET i == (k - 1) * ChunkSize + b
                        IN  IF offset <= i /\ i < offset + Len(data) THEN data[i - offset + 1]
                            ELSE IF k <= Len(chunks) THEN chunks[k][b] ELSE NewChunk[b]
<1>0. /\ Len(chunks) \in Nat /\ chunks \in Seq(Chunk) /\ length \in Nat /\ ChunkSize \in Nat \ {0}
      /\ Len(data) = m
  BY FileAssumption DEF FileInv, Buffer
<1>1. Stored(n, data, offset) = [k \in 1 .. length |-> [b \in Place |-> new(k, b)]]
  BY <1>0, MaxTwo DEF Stored
<1>2. ASSUME NEW k \in 1 .. length, NEW b \in Place PROVE new(k, b) \in Value
  <2> DEFINE i == (k - 1) * ChunkSize + b
  <2>0. i \in Nat
    <3>1. (k - 1) \in Nat /\ b \in Nat
      BY <1>0 DEF Place
    <3> QED BY <1>0, <3>1
  <2>1. CASE offset <= i /\ i < offset + m
    <3> HIDE DEF i
    <3>1. i - offset + 1 \in 1 .. m
      BY <2>0, <2>1
    <3>2. data[i - offset + 1] \in Byte
      BY <3>1 DEF Buffer
    <3> QED BY <1>0, <2>1, <3>2 DEF Value, i
  <2>2. CASE ~(offset <= i /\ i < offset + m) /\ k <= Len(chunks)
    <3>1. chunks[k] \in Chunk
      BY <1>0, <2>2
    <3>2. new(k, b) = chunks[k][b]
      BY <1>0, <2>2
    <3> QED BY <3>1, <3>2 DEF Chunk
  <2>3. CASE ~(offset <= i /\ i < offset + m) /\ ~(k <= Len(chunks))
    <3>1. new(k, b) = NewChunk[b]
      BY <1>0, <2>3
    <3> QED BY <3>1 DEF NewChunk, Value
  <2> QED BY <2>1, <2>2, <2>3
<1>3. Stored(n, data, offset) \in [1 .. length -> Chunk]
  <2> HIDE DEF new, length
  <2> QED BY <1>1, <1>2 DEF Chunk
<1>4. Stored(n, data, offset) \in Seq(Chunk) /\ Len(Stored(n, data, offset)) = length
  <2> HIDE DEF length
  <2> QED BY <1>0, <1>3
<1>5. ASSUME NEW i \in Nat, ChunkOf(i) <= length
      PROVE  At(Stored(n, data, offset), i) =
               IF offset <= i /\ i < offset + m THEN data[i - offset + 1]
               ELSE IF ChunkOf(i) <= Len(chunks) THEN At(chunks, i) ELSE 0
  <2>1. /\ ChunkOf(i) \in 1 .. length /\ PlaceOf(i) \in Place
        /\ (ChunkOf(i) - 1) * ChunkSize + PlaceOf(i) = i
    <3>1. /\ ChunkOf(i) \in Nat \ {0} /\ PlaceOf(i) \in Place
          /\ (ChunkOf(i) - 1) * ChunkSize + PlaceOf(i) = i
      BY Places
    <3> HIDE DEF length
    <3> QED BY <1>0, <1>5, <3>1
  <2>2. At(Stored(n, data, offset), i) = new(ChunkOf(i), PlaceOf(i))
    <3> HIDE DEF new, length
    <3> QED BY <1>1, <2>1 DEF At
  <2>3. new(ChunkOf(i), PlaceOf(i)) =
          IF offset <= i /\ i < offset + m THEN data[i - offset + 1]
          ELSE IF ChunkOf(i) <= Len(chunks) THEN chunks[ChunkOf(i)][PlaceOf(i)] ELSE NewChunk[PlaceOf(i)]
    BY <1>0, <2>1
  <2>4. NewChunk[PlaceOf(i)] = 0
    BY <2>1 DEF NewChunk
  <2> HIDE DEF new
  <2> QED BY <2>2, <2>3, <2>4 DEF At
<1> QED BY <1>4, <1>5

\* The data callers give.
LEMMA DataFacts ==
  ASSUME NEW data \in Data
  PROVE  \E m \in Nat : data \in Buffer(m) /\ Len(data) = m /\ (data = <<>> <=> m = 0)
<1>1. PICK m \in 0 .. MaxCount : data \in [1 .. m -> Byte]
  BY DEF Data
<1>2. m \in Nat /\ Len(data) = m
  BY <1>1, FileAssumption
<1>3. data = <<>> <=> m = 0
  BY <1>1, <1>2
<1> QED BY <1>1, <1>2, <1>3 DEF Buffer

-----------------------------------------------------------------------------
(* The invariant.                                                          *)

LEMMA InitFileInv == FileInit => FileInv
BY FileAssumption DEF FileInit, FileInv

LEMMA WriteFileInv ==
  ASSUME FileInv, NEW data \in Data, NEW offset \in Nat, TmpfsWrite(data, offset)
  PROVE  FileInv'
<1>0. /\ Len(chunks) \in Nat /\ cap \in Nat /\ left \in Nat /\ ChunkSize \in Nat \ {0}
      /\ cap <= ChunkSize * Len(chunks)
  BY FileAssumption DEF FileInv
<1>1. PICK m \in Nat : data \in Buffer(m) /\ Len(data) = m /\ (data = <<>> <=> m = 0)
  BY DataFacts
<1>2. CASE UNCHANGED <<chunks, cap, left>>
  BY <1>2 DEF FileInv
<1>3. CASE WriteOutOfMemory(data, offset)
  <2>1. /\ chunks' = Stored(Len(chunks) + left, data, offset) /\ left' = 0 /\ cap' = cap
    BY <1>3 DEF WriteOutOfMemory
  <2>2. /\ chunks' \in Seq(Chunk)
        /\ Len(chunks') = IF Len(chunks) + left < Len(chunks) THEN Len(chunks) ELSE Len(chunks) + left
    BY <1>0, <1>1, <2>1, StoredFacts
  <2>3. ChunkSize * Len(chunks) <= ChunkSize * Len(chunks') /\ ChunkSize * Len(chunks) \in Nat
        /\ ChunkSize * Len(chunks') \in Nat
    BY <1>0, <2>2, Order
  <2> QED BY <1>0, <2>1, <2>2, <2>3 DEF FileInv
<1>4. CASE WriteAll(data, offset)
  <2> DEFINE last == offset + m - 1
  <2>0. m >= 1 /\ last \in Nat /\ Needed(data, offset) = ChunkOf(last) /\ ChunkOf(last) \in Nat
        /\ ChunkOf(last) <= Len(chunks) + left
    <3>1. m >= 1 /\ Needed(data, offset) = ChunkOf(last) /\ Needed(data, offset) <= Len(chunks) + left
      BY <1>1, <1>4 DEF WriteAll, Needed
    <3>2. last \in Nat
      BY <3>1
    <3> HIDE DEF last
    <3> QED BY <3>1, <3>2, Places
  <2>1. /\ chunks' = Stored(ChunkOf(last), data, offset) /\ left' = left - (Len(chunks') - Len(chunks))
        /\ cap' = IF cap < offset + m THEN offset + m ELSE cap
    BY <1>0, <1>1, <1>4, <2>0, MaxTwo DEF WriteAll, NewCap
  <2>2. /\ chunks' \in Seq(Chunk)
        /\ Len(chunks') = IF ChunkOf(last) < Len(chunks) THEN Len(chunks) ELSE ChunkOf(last)
    <3> HIDE DEF last
    <3> QED BY <1>1, <2>0, <2>1, StoredFacts
  <2>3. last < ChunkSize * ChunkOf(last) /\ last < ChunkSize * Len(chunks')
    <3> HIDE DEF last
    <3> QED BY <1>0, <2>0, <2>2, Within
  <2>4. ChunkSize * Len(chunks) <= ChunkSize * Len(chunks') /\ ChunkSize * Len(chunks) \in Nat
        /\ ChunkSize * Len(chunks') \in Nat
    <3> HIDE DEF last
    <3> QED BY <1>0, <2>0, <2>2, Order
  <2>5. cap' \in Nat /\ cap' <= ChunkSize * Len(chunks')
    BY <1>0, <1>1, <2>1, <2>3, <2>4
  <2>6. left' \in Nat
    <3> HIDE DEF last
    <3> QED BY <1>0, <2>0, <2>1, <2>2
  <2> QED BY <2>2, <2>5, <2>6 DEF FileInv
<1> QED BY <1>2, <1>3, <1>4 DEF TmpfsWrite, WriteNothing, WriteOutOfBounds

LEMMA ReadsKeep ==
  ASSUME NEW count, NEW offset, TmpfsRead(count, offset)
  PROVE  UNCHANGED <<chunks, cap, left>>
BY DEF TmpfsRead, ReadError, ReadNothing, ReadSome, ReadReturns

LEMMA NextFileInv == FileInv /\ [FileNext]_fileVars => FileInv'
<1> SUFFICES ASSUME FileInv, [FileNext]_fileVars PROVE FileInv'
  OBVIOUS
<1>1. CASE FileNext
  <2>1. PICK offset \in 0 .. cap + 1 :
          \/ \E data \in Data : TmpfsWrite(data, offset)
          \/ \E count \in 0 .. MaxCount : TmpfsRead(count, offset)
    BY <1>1 DEF FileNext
  <2>2. offset \in Nat
    BY DEF FileInv
  <2>3. CASE \E data \in Data : TmpfsWrite(data, offset)
    BY <2>2, <2>3, WriteFileInv
  <2>4. CASE \E count \in 0 .. MaxCount : TmpfsRead(count, offset)
    BY <2>4, ReadsKeep DEF FileInv
  <2> QED BY <2>1, <2>3, <2>4
<1>2. CASE UNCHANGED fileVars
  BY <1>2 DEF fileVars, FileInv
<1> QED BY <1>1, <1>2

-----------------------------------------------------------------------------
(* The chunks are a file.                                                  *)

\* The first n bytes of a list of chunks.
Bytes(list, n) == [i \in 1 .. n |-> At(list, i - 1)]

LEMMA BytesFacts ==
  ASSUME NEW list \in Seq(Chunk), NEW n \in Nat, n <= ChunkSize * Len(list)
  PROVE  /\ Bytes(list, n) \in Seq(Value) /\ Len(Bytes(list, n)) = n
         /\ \A i \in 1 .. n : i - 1 \in Nat /\ ChunkOf(i - 1) <= Len(list) /\ Bytes(list, n)[i] = At(list, i - 1)
<1>1. ASSUME NEW i \in 1 .. n
      PROVE  i - 1 \in Nat /\ ChunkOf(i - 1) <= Len(list) /\ At(list, i - 1) \in Value
  <2>1. i - 1 \in Nat /\ i - 1 < ChunkSize * Len(list)
    <3>1. ChunkSize * Len(list) \in Nat
      BY FileAssumption
    <3> QED BY <3>1
  <2>2. ChunkOf(i - 1) <= Len(list) /\ ChunkOf(i - 1) \in Nat \ {0} /\ PlaceOf(i - 1) \in Place
    BY <2>1, Within, Places
  <2>3. list[ChunkOf(i - 1)] \in Chunk
    BY <2>2
  <2> QED BY <2>1, <2>2, <2>3 DEF At, Chunk
<1> QED BY <1>1 DEF Bytes

LEMMA ContentIs ==
  ASSUME FileInv
  PROVE  /\ Content = Bytes(chunks, cap) /\ Content \in Seq(Value) /\ Len(Content) = cap
         /\ \A i \in 1 .. cap : Content[i] = At(chunks, i - 1) /\ ChunkOf(i - 1) <= Len(chunks) /\ i - 1 \in Nat
<1>1. Content = Bytes(chunks, cap)
  BY DEF Content, Bytes, At
<1> QED BY <1>1, BytesFacts DEF FileInv

\* What a caller is told: why a call failed is not part of it.
Told(c) == [c EXCEPT !.ret = IF @ < 0 THEN -1 ELSE @]

LEMMA WriteRefines ==
  ASSUME FileInv, FileInv', NEW data \in Data, NEW offset \in Nat, TmpfsWrite(data, offset)
  PROVE  File!Write \/ File!WriteFails
<1>0. /\ Len(chunks) \in Nat /\ cap \in Nat /\ left \in Nat /\ ChunkSize \in Nat \ {0}
      /\ chunks' \in Seq(Chunk) /\ cap' \in Nat /\ cap' <= ChunkSize * Len(chunks')
  BY FileAssumption DEF FileInv
<1>1. PICK m \in Nat : data \in Buffer(m) /\ Len(data) = m /\ (data = <<>> <=> m = 0)
  BY DataFacts
<1>2. /\ Len(Content) = cap /\ \A i \in 1 .. cap : Content[i] = At(chunks, i - 1)
                                /\ ChunkOf(i - 1) <= Len(chunks) /\ i - 1 \in Nat
  BY ContentIs
<1>3. /\ Content' = Bytes(chunks', cap')
      /\ Content' \in Seq(Value) /\ Len(Content') = cap'
      /\ \A i \in 1 .. cap' : /\ Content'[i] = At(chunks', i - 1)
                              /\ ChunkOf(i - 1) <= Len(chunks') /\ i - 1 \in Nat
  <2>1. Content' = Bytes(chunks', cap')
    BY DEF Content, Bytes, At
  <2> QED BY <1>0, <2>1, BytesFacts
<1>4. CASE data = <<>> /\ WriteNothing(offset)
  <2>1. /\ Told(call').op = "write" /\ Told(call').data = <<>> /\ Told(call').ret = 0
    BY <1>4 DEF WriteNothing, WriteReturns, Told
  <2>2. Content' = Content
    BY <1>4 DEF WriteNothing, Content
  <2> QED BY <2>1, <2>2 DEF File!Write, Told
<1>5. CASE WriteOutOfBounds(data, offset)
  <2>1. /\ Told(call').op = "write" /\ Told(call').data = data /\ Told(call').offset = offset
        /\ Told(call').ret = -1
    BY <1>1, <1>5 DEF WriteOutOfBounds, WriteReturns, OUT_OF_BOUNDS, Told
  <2>2. Content' = Content /\ offset > cap /\ data # <<>>
    BY <1>5 DEF WriteOutOfBounds, Content
  <2> QED BY <1>2, <2>1, <2>2 DEF File!WriteFails, File!Error, Told
<1>6. CASE WriteOutOfMemory(data, offset)
  <2> DEFINE last == offset + m - 1
             list == Stored(Len(chunks) + left, data, offset)
             k == m - 1
             part == SubSeq(data, 1, k)
             over == File!Over(part, offset)
  <2>0. /\ m >= 1 /\ k \in Nat /\ last \in Nat /\ offset <= cap /\ data # <<>>
        /\ ~(ChunkOf(last) <= Len(chunks) + left) /\ Len(chunks) + left \in Nat
        /\ chunks' = list /\ cap' = cap /\ offset + k = last
    <3>1. data # <<>> /\ offset <= cap /\ chunks' = list /\ cap' = cap
          /\ Needed(data, offset) > Len(chunks) + left /\ Needed(data, offset) = ChunkOf(last)
      BY <1>1, <1>6 DEF WriteOutOfMemory, Needed
    <3>2. m >= 1 /\ last \in Nat /\ k \in Nat /\ Len(chunks) + left \in Nat /\ offset + k = last
      BY <1>0, <1>1, <3>1
    <3>3. ChunkOf(last) \in Nat
      <4> HIDE DEF last
      <4> QED BY <3>2, Places
    <3> HIDE DEF last, list
    <3> QED BY <3>1, <3>2, <3>3
  <2> HIDE DEF last, list
  <2>1. /\ Told(call').op = "write" /\ Told(call').data = data /\ Told(call').offset = offset
        /\ Told(call').ret = -1
    BY <1>1, <1>6 DEF WriteOutOfMemory, WriteReturns, OUT_OF_MEMORY, Told
  \* What was stored ends before the last byte, and so does the length.
  <2>2. Len(list) = Len(chunks) + left
        /\ \A i \in Nat : ChunkOf(i) <= Len(list) =>
              At(list, i) =
                IF offset <= i /\ i < offset + m THEN data[i - offset + 1]
                ELSE IF ChunkOf(i) <= Len(chunks) THEN At(chunks, i) ELSE 0
    BY <1>0, <1>1, <2>0, StoredFacts DEF list
  <2>3. last >= ChunkSize * Len(list) /\ cap <= last
    <3>1. last >= ChunkSize * Len(list)
      <4>1. ChunkSize * Len(list) \in Nat
        BY <1>0, <2>0, <2>2
      <4> QED BY <2>0, <2>2, <4>1, Within
    <3>2. ChunkSize * Len(chunks) <= ChunkSize * Len(list) /\ ChunkSize * Len(chunks) \in Nat
          /\ ChunkSize * Len(list) \in Nat
      BY <1>0, <2>0, <2>2, Order
    <3>3. cap <= ChunkSize * Len(chunks)
      BY DEF FileInv
    <3> QED BY <1>0, <2>0, <3>1, <3>2, <3>3
  <2>4. /\ part \in Seq(Byte) /\ Len(part) = k
        /\ \A i \in 1 .. k : part[i] = data[i]
    BY <1>1, <2>0 DEF Buffer
  <2> HIDE DEF part
  <2>5. /\ over = [i \in 1 .. last |-> IF offset < i /\ i <= last THEN part[i - offset] ELSE Content[i]]
    <3>1. offset + Len(part) = last
      BY <2>0, <2>4
    <3>2. Max({Len(Content), offset + Len(part)}) = last
      BY <1>0, <1>2, <2>0, <2>3, <3>1, MaxTwo
    <3> QED BY <3>1, <3>2, SameBounds DEF File!Over
  <2>6. ASSUME NEW i \in 1 .. last
        PROVE  (IF offset < i /\ i <= last THEN part[i - offset] ELSE Content[i]) \in Value
    <3>1. CASE offset < i
      <4>1. i - offset \in 1 .. k
        BY <2>0, <3>1
      <4>2. part[i - offset] \in Byte
        BY <2>4, <4>1
      <4> QED BY <3>1, <4>2 DEF Value
    <3>2. CASE ~(offset < i)
      <4>1. i \in 1 .. cap
        BY <1>0, <2>0, <3>2
      <4>2. Content[i] \in Value
        BY <4>1, <1>0, ContentIs
      <4> QED BY <3>2, <4>2
    <3> QED BY <3>1, <3>2
  <2>7. over \in Seq(Value) /\ Len(over) = last
    <3> HIDE DEF over
    <3> QED BY <2>0, <2>5, <2>6
  <2>8. \A i \in 1 .. last : over[i] = IF offset < i /\ i <= last THEN part[i - offset] ELSE Content[i]
    BY <2>5
  <2> HIDE DEF over
  <2>9. /\ SubSeq(over, 1, cap) \in Seq(Value) /\ Len(SubSeq(over, 1, cap)) = cap
        /\ \A i \in 1 .. cap : SubSeq(over, 1, cap)[i] = over[i]
    BY <1>0, <2>0, <2>3, <2>7, SMTT(30)
  <2>10. ASSUME NEW i \in 1 .. cap PROVE Content'[i] = over[i]
    <3>1. i - 1 \in Nat /\ i \in 1 .. last /\ Content'[i] = At(list, i - 1)
          /\ ChunkOf(i - 1) <= Len(list) /\ Content[i] = At(chunks, i - 1) /\ ChunkOf(i - 1) <= Len(chunks)
      <4>1. i \in 1 .. last /\ i \in 1 .. cap'
        BY <1>0, <2>0, <2>3
      <4> HIDE DEF k
      <4> QED BY <1>2, <1>3, <2>0, <4>1
    <3>2. At(list, i - 1) = IF offset <= i - 1 /\ i - 1 < offset + m THEN data[(i - 1) - offset + 1]
                            ELSE At(chunks, i - 1)
      BY <2>2, <3>1
    <3>3. CASE offset < i
      <4>1. i - offset \in 1 .. k /\ (i - 1) - offset + 1 = i - offset /\ offset <= i - 1 /\ i - 1 < offset + m
        BY <2>0, <3>1, <3>3
      <4>2. over[i] = data[i - offset]
        BY <2>4, <2>8, <3>1, <3>3, <4>1
      <4> QED BY <3>1, <3>2, <4>1, <4>2
    <3>4. CASE ~(offset < i)
      <4>1. ~(offset <= i - 1)
        BY <3>1, <3>4
      <4>2. over[i] = Content[i]
        BY <2>8, <3>1, <3>4
      <4> QED BY <3>1, <3>2, <4>1, <4>2
    <3> QED BY <3>3, <3>4
  <2>11. Content' = SubSeq(over, 1, cap)
    BY <1>0, <1>3, <2>0, <2>9, <2>10
  <2>12. k \in 0 .. Len(data) - 1
    BY <1>1, <2>0
  <2>13. Content' = SubSeq(File!Over(SubSeq(data, 1, k), offset), 1, Len(Content))
    BY <1>2, <2>11 DEF over, part
  <2>14. ~(offset > Len(Content))
    BY <1>0, <1>2, <2>0
  <2> HIDE DEF k
  <2> QED BY <2>0, <2>1, <2>12, <2>13, <2>14 DEF File!WriteFails, File!Error, Told
<1>7. CASE WriteAll(data, offset)
  <2> DEFINE last == offset + m - 1
             end == offset + m
             list == Stored(ChunkOf(last), data, offset)
             over == File!Over(data, offset)
  <2>0. /\ m >= 1 /\ last \in Nat /\ offset <= cap /\ end \in Nat
        /\ chunks' = list /\ cap' = (IF cap < end THEN end ELSE cap)
    <3>1. data # <<>> /\ offset <= cap /\ chunks' = list /\ cap' = NewCap(end)
      BY <1>1, <1>7 DEF WriteAll, Needed
    <3>2. m >= 1 /\ last \in Nat /\ end \in Nat
      BY <1>0, <1>1, <3>1
    <3> HIDE DEF end, last, list
    <3> QED BY <1>0, <3>1, <3>2, MaxTwo DEF NewCap
  <2>1. /\ Told(call').op = "write" /\ Told(call').data = data /\ Told(call').offset = offset
        /\ Told(call').ret = Len(data)
    BY <1>1, <1>7 DEF WriteAll, WriteReturns, Told
  <2>2. /\ \A i \in Nat : ChunkOf(i) <= Len(list) =>
              At(list, i) =
                IF offset <= i /\ i < offset + m THEN data[i - offset + 1]
                ELSE IF ChunkOf(i) <= Len(chunks) THEN At(chunks, i) ELSE 0
    <3>1. ChunkOf(last) \in Nat
      <4> HIDE DEF last
      <4> QED BY <2>0, Places
    <3> HIDE DEF last
    <3> QED BY <1>0, <1>1, <2>0, <3>1, StoredFacts DEF list
  <2> HIDE DEF list
  <2>3. over = [i \in 1 .. cap' |-> IF offset < i /\ i <= end THEN data[i - offset] ELSE Content[i]]
    <3>1. Max({Len(Content), offset + Len(data)}) = cap' /\ offset + Len(data) = end
      BY <1>0, <1>1, <1>2, <2>0, MaxTwo
    <3> QED BY <3>1, SameBounds DEF File!Over
  <2> HIDE DEF over
  <2>4. ASSUME NEW i \in 1 .. cap'
        PROVE  Content'[i] = IF offset < i /\ i <= end THEN data[i - offset] ELSE Content[i]
    <3>1. i - 1 \in Nat /\ Content'[i] = At(list, i - 1) /\ ChunkOf(i - 1) <= Len(list)
      BY <1>3, <2>0
    <3>2. At(list, i - 1) = IF offset <= i - 1 /\ i - 1 < offset + m THEN data[(i - 1) - offset + 1]
                            ELSE IF ChunkOf(i - 1) <= Len(chunks) THEN At(chunks, i - 1) ELSE 0
      BY <2>2, <3>1
    <3>3. CASE offset < i /\ i <= end
      <4>1. offset <= i - 1 /\ i - 1 < offset + m /\ (i - 1) - offset + 1 = i - offset
        BY <3>1, <3>3
      <4> QED BY <3>1, <3>2, <3>3, <4>1
    <3>4. CASE ~(offset < i /\ i <= end)
      <4>1. ~(offset <= i - 1 /\ i - 1 < offset + m)
        BY <3>1, <3>4
      <4>2. i \in 1 .. cap
        BY <1>0, <2>0, <3>4
      <4>3. Content[i] = At(chunks, i - 1) /\ ChunkOf(i - 1) <= Len(chunks)
        BY <1>2, <4>2
      <4> QED BY <3>1, <3>2, <3>4, <4>1, <4>3
    <3> QED BY <3>3, <3>4
  <2>5. DOMAIN Content' = 1 .. cap' /\ Content' = [i \in 1 .. cap' |-> Content'[i]]
    BY <1>0, <1>3
  <2>6. Content' = over
    BY <2>3, <2>4, <2>5
  <2>7. offset <= Len(Content)
    BY <1>2, <2>0
  <2> QED BY <2>1, <2>6, <2>7 DEF File!Write, Told, over
<1> QED BY <1>4, <1>5, <1>6, <1>7 DEF TmpfsWrite

\* What a part of a sequence holds.
LEMMA SubSeqFacts ==
  ASSUME NEW V, NEW s \in Seq(V), NEW a \in Nat, NEW n \in Nat, a + n <= Len(s)
  PROVE  /\ SubSeq(s, a + 1, a + n) \in Seq(V) /\ Len(SubSeq(s, a + 1, a + n)) = n
         /\ \A k \in 1 .. n : SubSeq(s, a + 1, a + n)[k] = s[a + k]
<1>1. Len(s) \in Nat /\ \A i \in 1 .. n : a + i \in 1 .. Len(s) /\ s[a + i] \in V
  OBVIOUS
<1>2. SubSeq(s, a + 1, a + n) = [i \in 1 .. n |-> s[a + i]]
  OBVIOUS
<1> QED BY <1>1, <1>2

\* A read tells what is there, or that there is nothing.
LEMMA ReadRefines ==
  ASSUME FileInv, NEW count \in Nat, NEW offset \in Nat, TmpfsRead(count, offset)
  PROVE  File!Read \/ File!ReadFails
<1>0. Len(chunks) \in Nat /\ chunks \in Seq(Chunk) /\ cap \in Nat /\ ChunkSize \in Nat \ {0} /\ cap <= ChunkSize * Len(chunks)
  BY FileAssumption DEF FileInv
<1>1. /\ Content \in Seq(Value) /\ Len(Content) = cap
      /\ \A i \in 1 .. cap : Content[i] = At(chunks, i - 1)
  BY ContentIs
<1>2. Content' = Content
  BY ReadsKeep DEF Content
<1>3. CASE ReadError(count, offset)
  <2>1. /\ Told(call').op = "read" /\ Told(call').count = count /\ Told(call').offset = offset
        /\ Told(call').ret = -1
    BY <1>3 DEF ReadError, ReadReturns, FILE_NOT_FOUND, OUT_OF_BOUNDS, Told
  <2>2. offset >= cap
    <3>1. CASE chunks = <<>>
      <4>1. cap = 0
        BY <1>0, <3>1
      <4> QED BY <4>1
    <3> QED BY <1>3, <3>1 DEF ReadError
  <2> QED BY <1>1, <1>2, <1>3, <2>1, <2>2 DEF File!ReadFails, File!Error, Told, ReadError
<1>4. CASE ReadNothing(count, offset)
  <2>1. /\ Told(call').op = "read" /\ Told(call').count = 0 /\ Told(call').offset = offset
        /\ Told(call').data = <<>> /\ Told(call').ret = 0 /\ count = 0
    BY <1>4 DEF ReadNothing, ReadReturns, Told
  <2>2. Min({offset + 0, cap}) <= offset /\ Min({offset + 0, cap}) \in Int
    BY <1>0, MinTwo
  <2>3. SubSeq(Content, offset + 1, Min({offset + 0, cap})) = <<>>
    BY <1>1, <2>2
  <2>4. Told(call').data = SubSeq(Content, Told(call').offset + 1,
                         Min({Told(call').offset + Told(call').count, Len(Content)}))
        /\ Len(Told(call').data) = 0
    BY <1>1, <2>1, <2>3
  <2> QED BY <1>2, <2>1, <2>4, SameBounds DEF File!Read, Told
<1>5. CASE ReadSome(count, offset)
  <2> DEFINE n == IF count < cap - offset THEN count ELSE cap - offset
             bytes == [k \in 1 .. n |-> At(chunks, offset + k - 1)]
             part == SubSeq(Content, offset + 1, offset + n)
  <2>0. offset < cap /\ count > 0 /\ n \in Nat /\ offset + n <= cap /\ Clipped(count, offset) = n
        /\ Min({offset + count, cap}) = offset + n
    BY <1>0, <1>5, MinTwo DEF ReadSome, Clipped
  <2>1. call' = [op |-> "read", offset |-> offset, count |-> count, data |-> bytes, ret |-> n]
    <3> HIDE DEF n
    <3> QED BY <1>5, <2>0 DEF ReadSome, ReadReturns, At
  <2> HIDE DEF n
  <2>2. \A k \in 1 .. n : bytes[k] = Content[offset + k] /\ Content[offset + k] \in Value
    <3> TAKE k \in 1 .. n
    <3>1. offset + k \in 1 .. cap /\ offset + k - 1 = (offset + k) - 1
      BY <1>0, <2>0
    <3> QED BY <1>1, <3>1
  <2>3. bytes \in Seq(Value) /\ Len(bytes) = n
    <3>1. \A k \in 1 .. n : At(chunks, offset + k - 1) \in Value
      BY <2>2
    <3> QED BY <2>0, <3>1
  <2> HIDE DEF bytes
  <2>4. /\ part \in Seq(Value) /\ Len(part) = n
        /\ \A k \in 1 .. n : part[k] = Content[offset + k]
    <3>1. Content \in Seq(Value) /\ offset \in Nat /\ n \in Nat /\ offset + n <= Len(Content)
      BY <1>0, <1>1, <2>0
    <3> QED BY ONLY <3>1, SubSeqFacts
  <2> HIDE DEF part
  <2>5. \A k \in 1 .. n : part[k] = bytes[k]
    BY <2>2, <2>4
  <2>6. bytes = part
    BY <2>0, <2>3, <2>4, <2>5
  <2>7. /\ Told(call').op = "read" /\ Told(call').count = count /\ Told(call').offset = offset
        /\ Told(call').data = bytes /\ Told(call').ret = n
    BY <2>0, <2>1 DEF Told
  <2> QED BY <1>1, <1>2, <2>0, <2>3, <2>6, <2>7, SameBounds DEF File!Read, Told, part
<1> QED BY <1>3, <1>4, <1>5 DEF TmpfsRead

\* The chunks are a file: tmpfs_write and tmpfs_read do what a sequence of bytes
\* does, whatever the size of a chunk, the memory there is and the calls made.
THEOREM FileRefinement == FileSpec => ImplementsFile
<1>1. FileInit => File!Init
  <2> SUFFICES ASSUME FileInit PROVE File!Init
    OBVIOUS
  <2>1. Told(call) = [op |-> "none", offset |-> 0, count |-> 0, data |-> <<>>, ret |-> 0]
    BY DEF FileInit, Told
  <2>2. Content = <<>>
    BY DEF FileInit, Content
  <2> QED BY <2>1, <2>2 DEF File!Init, Told
<1>2. FileInv /\ FileInv' /\ [FileNext]_fileVars => [File!Next]_(File!vars)
  <2> SUFFICES ASSUME FileInv, FileInv', [FileNext]_fileVars PROVE [File!Next]_(File!vars)
    OBVIOUS
  <2>1. CASE FileNext
    <3>1. PICK offset \in 0 .. cap + 1 :
            \/ \E data \in Data : TmpfsWrite(data, offset)
            \/ \E count \in 0 .. MaxCount : TmpfsRead(count, offset)
      BY <2>1 DEF FileNext
    <3>2. offset \in Nat
      BY DEF FileInv
    <3>3. CASE \E data \in Data : TmpfsWrite(data, offset)
      BY <3>2, <3>3, WriteRefines DEF File!Next
    <3>4. ASSUME NEW count \in 0 .. MaxCount, TmpfsRead(count, offset) PROVE File!Next
      <4>1. count \in Nat
        BY FileAssumption
      <4> QED BY <3>2, <3>4, <4>1, ReadRefines DEF File!Next
    <3> QED BY <3>1, <3>3, <3>4
  <2>2. CASE UNCHANGED fileVars
    BY <2>2 DEF fileVars, File!vars, Content
  <2> QED BY <2>1, <2>2
<1> QED BY <1>1, <1>2, InitFileInv, NextFileInv, PTL DEF FileSpec, ImplementsFile, File!Spec

-----------------------------------------------------------------------------
(* The lists of the slab allocator.                                        *)

\* A non-empty set of naturals has a least one.
LEMMA LeastNat ==
  ASSUME NEW T, T \subseteq Nat, T # {}
  PROVE  \E x \in T : \A y \in T : x <= y
<1> DEFINE R == OpToRel(<, Nat)
<1>1. IsWellFoundedOn(R, Nat)
  BY NatLessThanWellFounded
<1>2. \A x, y \in Nat : <<y, x>> \in R <=> y < x
  BY DEF OpToRel
<1> HIDE DEF R
<1>3. PICK x \in T : \A y \in T : ~(<<y, x>> \in R)
  BY <1>1, WFMin
<1>4. ASSUME NEW y \in T PROVE x <= y
  <2>1. x \in Nat /\ y \in Nat
    OBVIOUS
  <2>2. ~(y < x)
    BY <1>2, <1>3, <2>1, Zenon
  <2> QED BY <2>1, <2>2
<1> QED BY <1>4

-----------------------------------------------------------------------------
(* Circles: what a walk along the next pointers from a head meets.         *)

\* q names the nodes of S in the order of the walk.
Passes(f, h, S, n, q) ==
  /\ q \in [0 .. n -> S]
  /\ q[0] = h
  /\ \A i \in 0 .. n : f[q[i]] = IF i = n THEN h ELSE q[i + 1]
  /\ \A i, j \in 0 .. n : q[i] = q[j] => i = j
  /\ \A x \in S : \E i \in 0 .. n : q[i] = x

Circle(f, h, S) == \E n \in Nat : \E q : Passes(f, h, S, n, q)

\* A circle is a matter of its own nodes.
LEMMA CircleFrame ==
  ASSUME NEW f, NEW g, NEW h, NEW S, Circle(f, h, S), \A x \in S : g[x] = f[x]
  PROVE  Circle(g, h, S)
<1>0. PICK n \in Nat : \E q : Passes(f, h, S, n, q)
  BY DEF Circle
<1>1. PICK q : Passes(f, h, S, n, q)
  BY <1>0
<1>2. Passes(g, h, S, n, q)
  BY <1>1 DEF Passes
<1> QED BY <1>2 DEF Circle

LEMMA CircleAlone ==
  ASSUME NEW f, NEW h, f[h] = h
  PROVE  Circle(f, h, {h})
<1> DEFINE q == [i \in 0 .. 0 |-> h]
<1>1. Passes(f, h, {h}, 0, q)
  BY DEF Passes
<1> QED BY <1>1 DEF Circle

LEMMA CircleIn ==
  ASSUME NEW f, NEW h, NEW S, Circle(f, h, S)
  PROVE  /\ h \in S /\ \A x \in S : f[x] \in S
         /\ S = {h} <=> f[h] = h
<1>0. PICK n \in Nat : \E q : Passes(f, h, S, n, q)
  BY DEF Circle
<1>1. PICK q : Passes(f, h, S, n, q)
  BY <1>0
<1>2. 0 \in 0 .. n /\ h = q[0] /\ h \in S
  BY <1>1 DEF Passes
<1>3. ASSUME NEW x \in S PROVE f[x] \in S
  <2>1. PICK i \in 0 .. n : q[i] = x
    BY <1>1 DEF Passes
  <2>2. i = n \/ i + 1 \in 0 .. n
    OBVIOUS
  <2> QED BY <1>1, <1>2, <2>1, <2>2 DEF Passes
<1>4. CASE n = 0
  <2>1. S = {h} /\ f[h] = h
    BY <1>1, <1>4 DEF Passes
  <2> QED BY <1>2, <1>3, <2>1
<1>5. CASE n # 0
  <2>1. 1 \in 0 .. n /\ f[h] = q[1] /\ q[1] \in S /\ q[1] # q[0]
    BY <1>1, <1>2, <1>5 DEF Passes
  <2> QED BY <1>2, <1>3, <2>1
<1> QED BY <1>4, <1>5

\* A node stored between the last one and the head.
LEMMA CircleAdd ==
  ASSUME NEW f, NEW g, NEW h, NEW S, NEW x, NEW last \in S, Circle(f, h, S), x \notin S,
         f[last] = h, g[last] = x, g[x] = h, \A y \in S \ {last} : g[y] = f[y]
  PROVE  Circle(g, h, S \cup {x})
<1>0. PICK n \in Nat : \E q : Passes(f, h, S, n, q)
  BY DEF Circle
<1>1. PICK q : Passes(f, h, S, n, q)
  BY <1>0
<1> DEFINE p == [i \in 0 .. n + 1 |-> IF i = n + 1 THEN x ELSE q[i]]
<1>2. \A i \in 0 .. n : p[i] = q[i] /\ q[i] \in S
  BY <1>1 DEF Passes
<1>3. p[n + 1] = x
  OBVIOUS
<1>4. q[n] = last
  <2>1. PICK i \in 0 .. n : q[i] = last
    BY <1>1 DEF Passes
  <2>2. i # n => i + 1 \in 0 .. n /\ q[i + 1] = q[0]
    BY <1>1, <2>1 DEF Passes
  <2>3. i # n => i + 1 = 0
    BY <1>1, <2>2 DEF Passes
  <2> QED BY <2>1, <2>3
<1>5. p \in [0 .. n + 1 -> S \cup {x}]
  <2>1. \A i \in 0 .. n + 1 : (IF i = n + 1 THEN x ELSE q[i]) \in S \cup {x}
    <3> TAKE i \in 0 .. n + 1
    <3>1. i = n + 1 \/ i \in 0 .. n
      OBVIOUS
    <3> QED BY <1>2, <3>1
  <2> QED BY <2>1
<1> HIDE DEF p
<1>6. ASSUME NEW i \in 0 .. n + 1 PROVE g[p[i]] = IF i = n + 1 THEN h ELSE p[i + 1]
  <2>1. CASE i = n + 1
    BY <1>3, <2>1
  <2>2. CASE i = n
    BY <1>2, <1>3, <1>4, <2>2
  <2>3. CASE i \in 0 .. n - 1
    <3>1. q[i] # last /\ i \in 0 .. n /\ i + 1 \in 0 .. n /\ f[q[i]] = q[i + 1]
      <4>1. i \in 0 .. n /\ i + 1 \in 0 .. n /\ n \in 0 .. n /\ i # n
        BY <2>3
      <4> QED BY <1>1, <1>4, <4>1 DEF Passes
    <3> QED BY <1>2, <2>3, <3>1
  <2> QED BY <2>1, <2>2, <2>3
<1>7. ASSUME NEW i \in 0 .. n + 1, NEW j \in 0 .. n + 1, p[i] = p[j] PROVE i = j
  <2>1. \A k \in 0 .. n + 1 : k = n + 1 \/ k \in 0 .. n
    OBVIOUS
  <2>2. CASE i \in 0 .. n /\ j \in 0 .. n
    BY <1>1, <1>2, <1>7, <2>2 DEF Passes
  <2> QED BY <1>2, <1>3, <1>7, <2>1, <2>2
<1>8. ASSUME NEW y \in S \cup {x} PROVE \E i \in 0 .. n + 1 : p[i] = y
  <2>1. CASE y = x
    BY <1>3, <2>1
  <2>2. CASE y \in S
    <3>1. PICK i \in 0 .. n : q[i] = y
      BY <1>1, <2>2 DEF Passes
    <3>2. i \in 0 .. n + 1
      OBVIOUS
    <3> QED BY <1>2, <3>1, <3>2
  <2> QED BY <2>1, <2>2
<1>9. p[0] = h
  BY <1>1, <1>2 DEF Passes
<1>10. Passes(g, h, S \cup {x}, n + 1, p)
  BY <1>5, <1>6, <1>7, <1>8, <1>9 DEF Passes
<1> QED BY <1>10 DEF Circle

\* A node that is passed by.
LEMMA CircleDrop ==
  ASSUME NEW f, NEW g, NEW h, NEW S, NEW x \in S, NEW before \in S, Circle(f, h, S), x # h,
         f[before] = x, g[before] = f[x], \A y \in S \ {x, before} : g[y] = f[y]
  PROVE  Circle(g, h, S \ {x})
<1>0. PICK n \in Nat : \E q : Passes(f, h, S, n, q)
  BY DEF Circle
<1>1. PICK q : Passes(f, h, S, n, q)
  BY <1>0
<1>2. PICK k \in 0 .. n : q[k] = x
  BY <1>1 DEF Passes
<1>3. k \in 1 .. n /\ n - 1 \in Nat
  BY <1>1, <1>2 DEF Passes
<1>4. q[k - 1] = before
  <2>1. PICK i \in 0 .. n : q[i] = before
    BY <1>1 DEF Passes
  <2>2. i # n
    BY <1>1, <2>1 DEF Passes
  <2>3. i + 1 \in 0 .. n /\ q[i + 1] = q[k]
    BY <1>1, <1>2, <2>1, <2>2 DEF Passes
  <2>4. i + 1 = k
    BY <1>1, <2>3 DEF Passes
  <2> QED BY <2>1, <2>4
<1> DEFINE from(i) == IF i < k THEN i ELSE i + 1
           p == [i \in 0 .. n - 1 |-> q[from(i)]]
<1>5. ASSUME NEW i \in 0 .. n - 1 PROVE from(i) \in 0 .. n /\ from(i) # k
  BY <1>3
<1>6. ASSUME NEW i \in 0 .. n, i # k PROVE \E j \in 0 .. n - 1 : from(j) = i
  <2>1. CASE i < k
    <3>1. i \in 0 .. n - 1 /\ from(i) = i
      BY <1>3, <2>1
    <3> QED BY <3>1
  <2>2. CASE i > k
    <3>1. i - 1 \in 0 .. n - 1 /\ from(i - 1) = i
      BY <1>3, <2>2
    <3> QED BY <3>1
  <2> QED BY <1>6, <2>1, <2>2
<1>7. \A i \in 0 .. n - 1 : p[i] = q[from(i)]
  OBVIOUS
<1>8. ASSUME NEW i \in 0 .. n - 1, NEW j \in 0 .. n - 1, from(i) = from(j) PROVE i = j
  BY <1>3, <1>8
<1>9. ASSUME NEW i \in 0 .. n - 1
      PROVE  \/ i = n - 1 /\ from(i) = n
             \/ i = n - 1 /\ from(i) = k - 1 /\ k = n
             \/ i # n - 1 /\ i + 1 \in 0 .. n - 1 /\ from(i) = k - 1 /\ from(i + 1) = k + 1 /\ k # n
             \/ i # n - 1 /\ i + 1 \in 0 .. n - 1 /\ from(i) # k - 1 /\ from(i + 1) = from(i) + 1 /\ from(i) # n
  BY <1>3
<1>10. p \in [0 .. n - 1 -> S \ {x}]
  <2>1. \A i \in 0 .. n - 1 : q[from(i)] \in S /\ q[from(i)] # x
    BY <1>1, <1>2, <1>5 DEF Passes
  <2> HIDE DEF from
  <2> QED BY <2>1
<1>11. p[0] = h
  <2>1. 0 \in 0 .. n - 1 /\ from(0) = 0
    BY <1>3
  <2> QED BY <1>1, <1>7, <2>1 DEF Passes
<1> HIDE DEF p, from
<1>12. ASSUME NEW i \in 0 .. n - 1 PROVE g[p[i]] = IF i = n - 1 THEN h ELSE p[i + 1]
  <2>0. /\ f[q[from(i)]] = (IF from(i) = n THEN h ELSE q[from(i) + 1]) /\ q[from(i)] \in S
        /\ p[i] = q[from(i)] /\ q[from(i)] # x /\ f[x] = (IF k = n THEN h ELSE q[k + 1])
    BY <1>1, <1>2, <1>5, <1>7 DEF Passes
  <2>1. from(i) = k - 1 => g[p[i]] = f[x]
    BY <1>4, <2>0
  <2>2. from(i) # k - 1 => g[p[i]] = f[q[from(i)]]
    <3>1. k - 1 \in 0 .. n
      BY <1>3
    <3>2. from(i) # k - 1 => q[from(i)] # before
      BY <1>1, <1>4, <1>5, <3>1 DEF Passes
    <3> QED BY <2>0, <3>2
  <2>3. CASE i = n - 1 /\ from(i) = n
    <3>1. n # k - 1
      BY <1>3
    <3> QED BY <2>0, <2>2, <2>3, <3>1
  <2>4. CASE i = n - 1 /\ from(i) = k - 1 /\ k = n
    BY <2>0, <2>1, <2>4
  <2>5. CASE i # n - 1 /\ i + 1 \in 0 .. n - 1 /\ from(i) = k - 1 /\ from(i + 1) = k + 1 /\ k # n
    BY <1>7, <2>0, <2>1, <2>5
  <2>6. CASE i # n - 1 /\ i + 1 \in 0 .. n - 1 /\ from(i) # k - 1 /\ from(i + 1) = from(i) + 1 /\ from(i) # n
    BY <1>7, <2>0, <2>2, <2>6
  <2> QED BY <1>9, <2>3, <2>4, <2>5, <2>6
<1>13. ASSUME NEW i \in 0 .. n - 1, NEW j \in 0 .. n - 1, p[i] = p[j] PROVE i = j
  <2>1. from(i) = from(j)
    BY <1>1, <1>5, <1>7, <1>13, SMTT(30) DEF Passes
  <2> QED BY <1>8, <2>1
<1>14. ASSUME NEW y \in S \ {x} PROVE \E i \in 0 .. n - 1 : p[i] = y
  <2>1. PICK i \in 0 .. n : q[i] = y
    BY <1>1 DEF Passes
  <2>2. i # k
    BY <1>2, <2>1
  <2>3. PICK j \in 0 .. n - 1 : from(j) = i
    BY <1>6, <2>2
  <2> QED BY <1>7, <2>1, <2>3
<1>15. Passes(g, h, S \ {x}, n - 1, p)
  BY <1>10, <1>11, <1>12, <1>13, <1>14 DEF Passes
<1> QED BY <1>3, <1>15 DEF Circle

\* The first size steps of a walk, as the recursive function of Ring.
Steps(f, h, size, w) == w = [k \in 0 .. size |-> IF k = 0 THEN h ELSE f[w[k - 1]]]

LEMMA StepsAre ==
  ASSUME NEW f, NEW h, NEW size \in Nat, NEW w, Steps(f, h, size, w)
  PROVE  w[0] = h /\ \A k \in 1 .. size : w[k] = f[w[k - 1]]
<1>1. \A k \in 0 .. size : w[k] = IF k = 0 THEN h ELSE f[w[k - 1]]
  BY Zenon DEF Steps
<1>2. 0 \in 0 .. size /\ \A k \in 1 .. size : k \in 0 .. size /\ k # 0
  OBVIOUS
<1> QED BY <1>1, <1>2

\* A walk can be made as long as one likes.
LEMMA StepsExist ==
  ASSUME NEW f, NEW h, NEW size \in Nat
  PROVE  \E w : Steps(f, h, size, w)
<1> DEFINE T == {n \in Nat : ~ \E w : Steps(f, h, n, w)}
<1> SUFFICES ASSUME T # {} PROVE FALSE
  OBVIOUS
<1>1. PICK n \in T : \A k \in T : n <= k
  BY LeastNat
<1>2. CASE n = 0
  <2> DEFINE w == [k \in 0 .. 0 |-> h]
  <2>1. w = [k \in 0 .. 0 |-> IF k = 0 THEN h ELSE f[w[k - 1]]]
    OBVIOUS
  <2> QED BY <1>1, <1>2, <2>1 DEF Steps
<1>3. CASE n # 0
  <2>1. n - 1 \in Nat /\ n - 1 \notin T
    BY <1>1, <1>3
  <2>2. PICK v : Steps(f, h, n - 1, v)
    BY <2>1
  <2>3. v[0] = h /\ \A k \in 1 .. n - 1 : v[k] = f[v[k - 1]]
    BY <2>1, <2>2, StepsAre
  <2> DEFINE w == [k \in 0 .. n |-> IF k = n THEN f[v[n - 1]] ELSE v[k]]
  <2>4. ASSUME NEW k \in 0 .. n PROVE w[k] = IF k = 0 THEN h ELSE f[w[k - 1]]
    <3>1. CASE k = 0
      BY <1>3, <2>3, <3>1
    <3>2. CASE k = n
      <4>1. k - 1 \in 0 .. n /\ k - 1 # n
        BY <1>3, <3>2
      <4> QED BY <1>3, <3>2, <4>1
    <3>3. CASE k \in 1 .. n - 1
      <4>1. k - 1 \in 0 .. n /\ k - 1 # n /\ k # n /\ k # 0
        BY <3>3
      <4> QED BY <2>3, <3>3, <4>1
    <3> QED BY <3>1, <3>2, <3>3
  <2>5. w = [k \in 0 .. n |-> w[k]]
    OBVIOUS
  <2> HIDE DEF w
  <2>6. w = [k \in 0 .. n |-> IF k = 0 THEN h ELSE f[w[k - 1]]]
    BY <2>4, <2>5, Zenon
  <2>7. Steps(f, h, n, w)
    BY <2>6 DEF Steps
  <2> QED BY <1>1, <2>7
<1> QED BY <1>2, <1>3

\* A walk as long as there are nodes meets the circle, and nothing else.
LEMMA RingIs ==
  ASSUME NEW m, NEW h, NEW S, IsFiniteSet(DOMAIN m.next), S \subseteq DOMAIN m.next, Circle(m.next, h, S)
  PROVE  Ring(m, h) = S \ {h}
<1>2. PICK size \in Nat : size = Cardinality(DOMAIN m.next)
  BY FS_CardinalityType
<1>3. PICK at : Steps(m.next, h, size, at) /\ Ring(m, h) = {at[k] : k \in 0 .. size} \ {h}
  <2> DEFINE w == CHOOSE w : w = [k \in 0 .. size |-> IF k = 0 THEN h ELSE m.next[w[k - 1]]]
  <2>1. Ring(m, h) = {w[k] : k \in 0 .. size} \ {h}
    BY <1>2, Zenon DEF Ring
  <2>2. PICK v : Steps(m.next, h, size, v)
    BY StepsExist
  <2>3. Steps(m.next, h, size, w)
    BY <2>2, Zenon DEF Steps
  <2> HIDE DEF w
  <2> QED BY <2>1, <2>3
<1>0. PICK n \in Nat : \E q : Passes(m.next, h, S, n, q)
  BY DEF Circle
<1>4. PICK q : Passes(m.next, h, S, n, q)
  BY <1>0
<1>5. n + 1 <= size
  <2>1. q \in Injection(0 .. n, DOMAIN m.next)
    BY <1>4 DEF Passes, Injection, IsInjective
  <2>2. Cardinality(0 .. n) <= size
    BY <1>2, <2>1, FS_Injection
  <2>3. Cardinality(0 .. n) = IF 0 > n THEN 0 ELSE n - 0 + 1
    BY ONLY n \in Nat, FS_Interval
  <2> QED BY <2>2, <2>3
<1>6. at[0] = h /\ \A k \in 1 .. size : at[k] = m.next[at[k - 1]]
  BY <1>3, StepsAre
<1>7. ASSUME NEW k \in 0 .. size PROVE at[k] \in S
  <2> DEFINE T == {j \in 0 .. size : at[j] \notin S}
  <2> SUFFICES ASSUME T # {} PROVE FALSE
    OBVIOUS
  <2>1. PICK j \in T : \A i \in T : j <= i
    <3>1. T \subseteq Nat
      OBVIOUS
    <3> QED BY <3>1, LeastNat
  <2>2. j # 0
    BY <1>6, <2>1, CircleIn
  <2>3. j \in 1 .. size /\ j - 1 \in 0 .. size /\ j - 1 \notin T
    BY <1>2, <2>1, <2>2
  <2>4. at[j - 1] \in S /\ at[j] = m.next[at[j - 1]]
    BY <1>6, <2>3
  <2> QED BY <2>1, <2>4, CircleIn
<1>8. ASSUME NEW i \in 0 .. n PROVE at[i] = q[i]
  <2> DEFINE T == {j \in 0 .. n : at[j] # q[j]}
  <2> SUFFICES ASSUME T # {} PROVE FALSE
    OBVIOUS
  <2>1. PICK j \in T : \A l \in T : j <= l
    <3>1. T \subseteq Nat
      OBVIOUS
    <3> QED BY <3>1, LeastNat
  <2>2. j # 0
    BY <1>4, <1>6, <2>1 DEF Passes
  <2>3. j \in 1 .. size /\ j - 1 \in 0 .. n /\ j - 1 # n /\ j - 1 \notin T
    BY <1>2, <1>5, <2>1, <2>2
  <2>4. at[j - 1] = q[j - 1] /\ at[j] = m.next[at[j - 1]]
    BY <1>6, <2>3
  <2>5. m.next[q[j - 1]] = q[(j - 1) + 1] /\ (j - 1) + 1 = j
    BY <1>4, <2>3 DEF Passes
  <2> QED BY <2>1, <2>4, <2>5
<1>9. ASSUME NEW x \in S PROVE \E k \in 0 .. size : at[k] = x
  <2>1. PICK i \in 0 .. n : q[i] = x
    BY <1>4 DEF Passes
  <2>2. i \in 0 .. size
    BY <1>2, <1>5
  <2> QED BY <1>8, <2>1, <2>2
<1> QED BY <1>3, <1>7, <1>9

-----------------------------------------------------------------------------
(* The operations of list.h.                                               *)

\* The nodes are linked both ways.
Paired(f, g) ==
  /\ IsFiniteSet(DOMAIN f)
  /\ f \in [DOMAIN f -> DOMAIN f] /\ g \in [DOMAIN f -> DOMAIN f]
  /\ \A n \in DOMAIN f : g[f[n]] = n /\ f[g[n]] = n

Lists(m) ==
  /\ m = [next |-> m.next, prev |-> m.prev, slab |-> m.slab, cache |-> m.cache]
  /\ Paired(m.next, m.prev)

\* A node in no list.
Loose(m, n) == n \in DOMAIN m.next => m.next[n] = n

\* r is m with other pointers, and for nodes alone those in T may differ.
Relinked(m, r, T) ==
  /\ Lists(r) /\ r.slab = m.slab /\ r.cache = m.cache
  /\ DOMAIN r.next = DOMAIN m.next \cup T
  /\ \A x \in DOMAIN m.next \ T : r.next[x] = m.next[x]

LEMMA LooseFacts ==
  ASSUME NEW m, NEW n, Lists(m), Loose(m, n), n \in DOMAIN m.next
  PROVE  /\ m.next[n] = n /\ m.prev[n] = n
         /\ \A x \in DOMAIN m.next : m.next[x] = n \/ m.prev[x] = n => x = n
BY DEF Lists, Loose, Paired

LEMMA ListInitFacts ==
  ASSUME NEW m, NEW n, Lists(m), Loose(m, n)
  PROVE  Relinked(m, ListInit(m, n), {n}) /\ ListInit(m, n).next[n] = n
<1> DEFINE r == ListInit(m, n)
           D == DOMAIN m.next
           f == Store(m.next, n, n)
           g == Store(m.prev, n, n)
<1>1. r = [next |-> f, prev |-> g, slab |-> m.slab, cache |-> m.cache]
  <2> DEFINE c == [m EXCEPT !.next = f]
  <2>1. c = [next |-> f, prev |-> m.prev, slab |-> m.slab, cache |-> m.cache]
    BY DEF Lists
  <2>2. r = [c EXCEPT !.prev = g]
    BY DEF ListInit
  <2> HIDE DEF c, r
  <2> QED BY <2>1, <2>2
<1>2. /\ DOMAIN f = D \cup {n} /\ f[n] = n /\ \A x \in D \ {n} : f[x] = m.next[x]
      /\ DOMAIN g = D \cup {n} /\ g[n] = n /\ \A x \in D \ {n} : g[x] = m.prev[x]
  BY DEF Lists, Paired, Store
<1>3. f = [x \in D \cup {n} |-> f[x]] /\ g = [x \in D \cup {n} |-> g[x]]
  BY DEF Lists, Paired, Store
<1> HIDE DEF f, g
<1>4. Paired(f, g)
  <2>1. IsFiniteSet(D \cup {n})
    BY FS_AddElement DEF Lists, Paired
  <2>2. ASSUME NEW x \in D \ {n}
        PROVE  m.next[x] \in D \ {n} /\ m.prev[x] \in D \ {n} /\ m.prev[m.next[x]] = x /\ m.next[m.prev[x]] = x
    <3>1. m.next[x] # n /\ m.prev[x] # n
      <4>1. CASE n \in D
        BY <2>2, <4>1, LooseFacts
      <4>2. CASE n \notin D
        BY <4>2 DEF Lists, Paired
      <4> QED BY <4>1, <4>2
    <3> QED BY <3>1 DEF Lists, Paired
  <2>3. \A x \in D \cup {n} : f[x] \in D \cup {n} /\ g[x] \in D \cup {n} /\ g[f[x]] = x /\ f[g[x]] = x
    BY <1>2, <2>2
  <2> QED BY <1>2, <1>3, <2>1, <2>3 DEF Paired
<1>5. Lists(r)
  BY <1>1, <1>4 DEF Lists
<1> QED BY <1>1, <1>2, <1>5 DEF Relinked

LEMMA ListAppendFacts ==
  ASSUME NEW m, NEW into \in DOMAIN m.next, NEW new, Lists(m), Loose(m, new), new # into
  PROVE  /\ Relinked(m, ListAppend(m, into, new), {new, m.prev[into]})
         /\ ListAppend(m, into, new).next[new] = into
         /\ ListAppend(m, into, new).next[m.prev[into]] = new
         /\ m.prev[into] \in DOMAIN m.next /\ m.prev[into] # new
<1> DEFINE D == DOMAIN m.next
           last == m.prev[into]
           f1 == Store(m.next, new, into)
           g1 == Store(m.prev, new, last)
           f == [f1 EXCEPT ![last] = new]
           g == [g1 EXCEPT ![into] = new]
           a == [m EXCEPT !.next = Store(@, new, into), !.prev = Store(@, new, m.prev[into])]
           b == [a EXCEPT !.next[a.prev[new]] = new]
           r == [b EXCEPT !.prev[b.next[new]] = new]
<1>0. last \in D /\ last # new /\ m.next[last] = into
  <2>1. last \in D /\ m.next[last] = into
    BY DEF Lists, Paired
  <2> QED BY <2>1, LooseFacts
<1>1. ListAppend(m, into, new) = r
  BY DEF ListAppend
<1>2. a = [next |-> f1, prev |-> g1, slab |-> m.slab, cache |-> m.cache]
  <2> DEFINE c == [m EXCEPT !.next = f1]
  <2>1. c = [next |-> f1, prev |-> m.prev, slab |-> m.slab, cache |-> m.cache]
    BY DEF Lists
  <2>2. a = [c EXCEPT !.prev = g1]
    OBVIOUS
  <2> HIDE DEF c, a
  <2> QED BY <2>1, <2>2
<1>3. /\ f1 = [x \in D \cup {new} |-> IF x = new THEN into ELSE m.next[x]]
      /\ g1 = [x \in D \cup {new} |-> IF x = new THEN last ELSE m.prev[x]]
  BY DEF Lists, Paired, Store
<1> HIDE DEF f1, g1, a
<1>4. b = [next |-> f, prev |-> g1, slab |-> m.slab, cache |-> m.cache]
  <2>1. a.prev[new] = last
    BY <1>2, <1>3
  <2> QED BY <1>2, <2>1
<1>5. f[new] = into
  BY <1>0, <1>3
<1>6. /\ f = [x \in D \cup {new} |-> IF x = new THEN into ELSE IF x = last THEN new ELSE m.next[x]]
      /\ g = [x \in D \cup {new} |-> IF x = into THEN new ELSE IF x = new THEN last ELSE m.prev[x]]
  BY <1>0, <1>3
<1> HIDE DEF f, g, b
<1>7. r = [next |-> f, prev |-> g, slab |-> m.slab, cache |-> m.cache]
  <2>1. b.next[new] = into
    BY <1>4, <1>5
  <2> QED BY <1>4, <2>1 DEF g
<1> HIDE DEF r
<1>8. Paired(f, g)
  <2>1. IsFiniteSet(D \cup {new})
    BY FS_AddElement DEF Lists, Paired
  <2>2. ASSUME NEW x \in D, x # new
        PROVE  /\ m.next[x] \in D /\ m.prev[x] \in D /\ m.prev[m.next[x]] = x /\ m.next[m.prev[x]] = x
               /\ m.next[x] # new /\ m.prev[x] # new
    <3>1. m.next[x] # new /\ m.prev[x] # new
      <4>1. CASE new \in D
        BY <2>2, <4>1, LooseFacts
      <4>2. CASE new \notin D
        BY <4>2 DEF Lists, Paired
      <4> QED BY <4>1, <4>2
    <3> QED BY <3>1 DEF Lists, Paired
  <2>3. \A x \in D \cup {new} : f[x] \in D \cup {new} /\ g[x] \in D \cup {new}
    BY <1>0, <1>6, <2>2
  <2>4. \A x \in D \cup {new} : g[f[x]] = x
    <3> TAKE x \in D \cup {new}
    <3>1. CASE x = new
      BY <1>0, <1>6, <3>1
    <3>2. CASE x = last
      BY <1>0, <1>6, <3>2
    <3>3. CASE x # new /\ x # last
      <4>1. f[x] = m.next[x] /\ m.next[x] \in D /\ m.next[x] # new /\ m.prev[m.next[x]] = x
        BY <1>6, <2>2, <3>3
      <4>2. m.next[x] # into
        BY <3>3, <4>1
      <4> QED BY <1>6, <4>1, <4>2
    <3> QED BY <3>1, <3>2, <3>3
  <2>5. \A x \in D \cup {new} : f[g[x]] = x
    <3> TAKE x \in D \cup {new}
    <3>1. CASE x = new
      BY <1>0, <1>6, <3>1
    <3>2. CASE x = into
      BY <1>0, <1>6, <3>2
    <3>3. CASE x # new /\ x # into
      <4>1. g[x] = m.prev[x] /\ m.prev[x] \in D /\ m.prev[x] # new /\ m.next[m.prev[x]] = x
        BY <1>6, <2>2, <3>3
      <4>2. m.prev[x] # last
        BY <1>0, <3>3, <4>1
      <4> QED BY <1>6, <4>1, <4>2
    <3> QED BY <3>1, <3>2, <3>3
  <2>6. DOMAIN f = D \cup {new}
    BY <1>6
  <2>7. f \in [D \cup {new} -> D \cup {new}] /\ g \in [D \cup {new} -> D \cup {new}]
    BY <1>6, <2>3
  <2> HIDE DEF D
  <2> QED BY <2>1, <2>4, <2>5, <2>6, <2>7 DEF Paired
<1>9. Lists(r) /\ r.next = f /\ r.slab = m.slab /\ r.cache = m.cache
  BY <1>7, <1>8 DEF Lists
<1>10. /\ DOMAIN f = D \cup {new, last} /\ f[new] = into /\ f[last] = new
       /\ \A x \in D \ {new, last} : f[x] = m.next[x]
  BY <1>0, <1>6
<1> QED BY <1>0, <1>1, <1>9, <1>10 DEF Relinked

LEMMA ListRemoveFacts ==
  ASSUME NEW m, NEW n \in DOMAIN m.next, Lists(m)
  PROVE  /\ Relinked(m, ListRemove(m, n), {n, m.prev[n]})
         /\ ListRemove(m, n).next[n] = n
         /\ m.prev[n] # n => ListRemove(m, n).next[m.prev[n]] = m.next[n]
         /\ m.prev[n] \in DOMAIN m.next
<1> DEFINE D == DOMAIN m.next
           before == m.prev[n]
           after == m.next[n]
           f1 == [m.next EXCEPT ![before] = after]
           g1 == [m.prev EXCEPT ![after] = before]
           f == [f1 EXCEPT ![n] = n]
           g == [g1 EXCEPT ![n] = n]
           a == [m EXCEPT !.next[m.prev[n]] = m.next[n]]
           b == [a EXCEPT !.prev[a.next[n]] = a.prev[n]]
           r == [b EXCEPT !.next[n] = n, !.prev[n] = n]
<1>0. /\ before \in D /\ after \in D /\ m.next[before] = n /\ m.prev[after] = n
      /\ before = n <=> after = n
  BY DEF Lists, Paired
<1>1. ListRemove(m, n) = r
  BY DEF ListRemove
<1>2. a = [next |-> f1, prev |-> m.prev, slab |-> m.slab, cache |-> m.cache]
  BY DEF Lists
<1>3. /\ m.next \in [D -> D] /\ m.prev \in [D -> D]
  BY DEF Lists, Paired
<1>4. f1[n] = after
  BY <1>0, <1>3
<1> HIDE DEF f1, a
<1>5. b = [next |-> f1, prev |-> g1, slab |-> m.slab, cache |-> m.cache]
  <2>1. a.next[n] = after /\ a.prev[n] = before
    BY <1>2, <1>4
  <2> QED BY <1>2, <2>1
<1> HIDE DEF g1, b
<1>6. r = [next |-> f, prev |-> g, slab |-> m.slab, cache |-> m.cache]
  <2> DEFINE c == [b EXCEPT !.next[n] = n]
  <2>1. c = [next |-> f, prev |-> g1, slab |-> m.slab, cache |-> m.cache]
    BY <1>5
  <2>2. r = [c EXCEPT !.prev[n] = n]
    OBVIOUS
  <2> HIDE DEF c, r
  <2> QED BY <2>1, <2>2
<1>7. /\ f = [x \in D |-> IF x = n THEN n ELSE IF x = before THEN after ELSE m.next[x]]
      /\ g = [x \in D |-> IF x = n THEN n ELSE IF x = after THEN before ELSE m.prev[x]]
  BY <1>0, <1>3 DEF f1, g1
<1> HIDE DEF f, g, r
<1>8. Paired(f, g)
  <2>1. IsFiniteSet(D)
    BY DEF Lists, Paired
  <2>2. \A x \in D : m.next[x] \in D /\ m.prev[x] \in D /\ m.prev[m.next[x]] = x /\ m.next[m.prev[x]] = x
    BY DEF Lists, Paired
  <2>3. f \in [D -> D] /\ g \in [D -> D]
    BY <1>0, <1>7, <2>2
  <2>4. \A x \in D : g[f[x]] = x
    <3> TAKE x \in D
    <3>1. CASE x = n
      BY <1>7, <3>1
    <3>2. CASE x = before /\ x # n
      BY <1>0, <1>7, <3>2
    <3>3. CASE x # n /\ x # before
      <4>1. f[x] = m.next[x]
        BY <1>7, <3>3
      <4>2. m.next[x] # n /\ m.next[x] # after /\ m.next[x] \in D /\ m.prev[m.next[x]] = x
        BY <1>0, <2>2, <3>3
      <4> QED BY <1>7, <4>1, <4>2
    <3> QED BY <3>1, <3>2, <3>3
  <2>5. \A x \in D : f[g[x]] = x
    <3> TAKE x \in D
    <3>1. CASE x = n
      BY <1>7, <3>1
    <3>2. CASE x = after /\ x # n
      BY <1>0, <1>7, <3>2
    <3>3. CASE x # n /\ x # after
      <4>1. g[x] = m.prev[x]
        BY <1>7, <3>3
      <4>2. m.prev[x] # n /\ m.prev[x] # before /\ m.prev[x] \in D /\ m.next[m.prev[x]] = x
        BY <1>0, <2>2, <3>3
      <4> QED BY <1>7, <4>1, <4>2
    <3> QED BY <3>1, <3>2, <3>3
  <2>6. DOMAIN f = D
    BY <2>3
  <2> HIDE DEF D
  <2> QED BY <2>1, <2>3, <2>4, <2>5, <2>6 DEF Paired
<1>9. Lists(r) /\ r.next = f /\ r.slab = m.slab /\ r.cache = m.cache
  BY <1>6, <1>8 DEF Lists
<1>10. /\ DOMAIN f = D \cup {n, before} /\ f[n] = n /\ (before # n => f[before] = after)
       /\ \A x \in D \ {n, before} : f[x] = m.next[x]
  BY <1>0, <1>7
<1> QED BY <1>0, <1>1, <1>9, <1>10 DEF Relinked

-----------------------------------------------------------------------------
(* The lists of a memory, by the head each node is on.                     *)

Class(own, h) == {n \in DOMAIN own : own[n] = h}

\* own[n] is the head of the list that n is on; a node on no list is its own head.
Owned(m, own) ==
  /\ Lists(m)
  /\ own \in [DOMAIN m.next -> DOMAIN m.next]
  /\ \A n \in DOMAIN own : own[own[n]] = own[n]
  /\ \A h \in DOMAIN own : own[h] = h => Circle(m.next, h, Class(own, h))

\* A node on no list and with no list, or no node yet.
Alone(own, n) == n \in DOMAIN own => own[n] = n /\ \A x \in DOMAIN own : own[x] = n => x = n

\* The neighbours of a node are on its list.
LEMMA OwnedStep ==
  ASSUME NEW m, NEW own, Owned(m, own), NEW x \in DOMAIN own
  PROVE  /\ DOMAIN own = DOMAIN m.next
         /\ m.next[x] \in DOMAIN own /\ m.prev[x] \in DOMAIN own
         /\ own[m.next[x]] = own[x] /\ own[m.prev[x]] = own[x]
         /\ m.next[m.prev[x]] = x
<1>1. /\ DOMAIN own = DOMAIN m.next
      /\ \A y \in DOMAIN own : own[y] \in DOMAIN own /\ own[own[y]] = own[y]
      /\ m.next[x] \in DOMAIN own /\ m.prev[x] \in DOMAIN own /\ m.next[m.prev[x]] = x
  BY DEF Owned, Lists, Paired
<1>2. ASSUME NEW y \in DOMAIN own PROVE own[m.next[y]] = own[y]
  <2>1. Circle(m.next, own[y], Class(own, own[y])) /\ y \in Class(own, own[y])
    BY <1>1 DEF Owned, Class
  <2>2. m.next[y] \in Class(own, own[y])
    BY <2>1, CircleIn
  <2> QED BY <2>2 DEF Class
<1> QED BY <1>1, <1>2

LEMMA AloneLoose ==
  ASSUME NEW m, NEW own, NEW n, Owned(m, own), Alone(own, n)
  PROVE  Loose(m, n)
<1> SUFFICES ASSUME n \in DOMAIN m.next PROVE m.next[n] = n
  BY DEF Loose
<1>1. n \in DOMAIN own
  BY DEF Owned
<1>2. m.next[n] \in DOMAIN own /\ own[m.next[n]] = n
  BY <1>1, OwnedStep DEF Alone
<1> QED BY <1>1, <1>2 DEF Alone

LEMMA OwnedInit ==
  ASSUME NEW m, NEW own, NEW n, Owned(m, own), Alone(own, n)
  PROVE  /\ Owned(ListInit(m, n), Store(own, n, n))
         /\ ListInit(m, n).slab = m.slab /\ ListInit(m, n).cache = m.cache
<1> DEFINE r == ListInit(m, n)
           put == Store(own, n, n)
<1>1. Relinked(m, r, {n}) /\ r.next[n] = n
  BY AloneLoose, ListInitFacts DEF Owned
<1> HIDE DEF r
<1>2. /\ DOMAIN own = DOMAIN m.next /\ DOMAIN r.next = DOMAIN own \cup {n} /\ Lists(r)
      /\ \A x \in DOMAIN own \ {n} : r.next[x] = m.next[x]
      /\ \A y \in DOMAIN own : own[y] \in DOMAIN own /\ own[own[y]] = own[y]
  BY <1>1 DEF Owned, Relinked
<1>3. /\ DOMAIN put = DOMAIN own \cup {n} /\ put[n] = n
      /\ \A x \in DOMAIN own \ {n} : put[x] = own[x]
      /\ put = [x \in DOMAIN put |-> put[x]]
  BY DEF Store
<1> HIDE DEF put
<1>4. \A x \in DOMAIN own \ {n} : own[x] # n /\ own[x] \in DOMAIN own \ {n}
  BY <1>2 DEF Alone
<1>5. put \in [DOMAIN r.next -> DOMAIN r.next]
  BY <1>2, <1>3, <1>4
<1>6. \A x \in DOMAIN put : put[put[x]] = put[x]
  BY <1>2, <1>3, <1>4
<1>7. ASSUME NEW h \in DOMAIN put, put[h] = h PROVE Circle(r.next, h, Class(put, h))
  <2>1. CASE h = n
    <3>1. Class(put, n) = {n}
      BY <1>3, <1>4 DEF Class
    <3> QED BY <1>1, <2>1, <3>1, CircleAlone
  <2>2. CASE h # n
    <3>1. h \in DOMAIN own /\ own[h] = h
      BY <1>3, <1>7, <2>2
    <3>2. Class(put, h) = Class(own, h) /\ n \notin Class(own, h)
      BY <1>3, <2>2 DEF Class, Alone
    <3>3. \A x \in Class(own, h) : r.next[x] = m.next[x]
      BY <1>2, <3>2 DEF Class
    <3>4. Circle(m.next, h, Class(own, h))
      BY <3>1 DEF Owned
    <3> QED BY <3>2, <3>3, <3>4, CircleFrame
  <2> QED BY <2>1, <2>2
<1>8. Owned(r, put)
  BY <1>2, <1>5, <1>6, <1>7 DEF Owned
<1> QED BY <1>1, <1>8 DEF Relinked, r, put

LEMMA OwnedAppend ==
  ASSUME NEW m, NEW own, NEW into \in DOMAIN own, NEW new, Owned(m, own),
         own[into] = into, Alone(own, new), new # into
  PROVE  /\ Owned(ListAppend(m, into, new), Store(own, new, into))
         /\ ListAppend(m, into, new).slab = m.slab /\ ListAppend(m, into, new).cache = m.cache
<1> DEFINE r == ListAppend(m, into, new)
           put == Store(own, new, into)
           last == m.prev[into]
<1>0. Loose(m, new) /\ Lists(m) /\ into \in DOMAIN m.next
  BY AloneLoose DEF Owned
<1>1. /\ Relinked(m, r, {new, last}) /\ r.next[new] = into /\ r.next[last] = new
      /\ last # new
  BY ONLY <1>0, new # into, ListAppendFacts, SMTT(30)
<1>2. last \in DOMAIN own /\ own[last] = into /\ m.next[last] = into
  BY OwnedStep
<1> HIDE DEF r, last
<1>3. /\ DOMAIN own = DOMAIN m.next /\ DOMAIN r.next = DOMAIN own \cup {new} /\ Lists(r)
      /\ \A x \in DOMAIN own \ {new, last} : r.next[x] = m.next[x]
      /\ \A y \in DOMAIN own : own[y] \in DOMAIN own /\ own[own[y]] = own[y]
  BY <1>1, <1>2 DEF Owned, Relinked
<1>4. /\ DOMAIN put = DOMAIN own \cup {new} /\ put[new] = into
      /\ \A x \in DOMAIN own \ {new} : put[x] = own[x]
      /\ put = [x \in DOMAIN put |-> put[x]]
  BY DEF Store
<1> HIDE DEF put
<1>5. \A x \in DOMAIN own \ {new} : own[x] # new
  BY <1>3 DEF Alone
<1>6. put \in [DOMAIN r.next -> DOMAIN r.next]
  BY <1>3, <1>4, <1>5
<1>7. \A x \in DOMAIN put : put[put[x]] = put[x]
  BY <1>3, <1>4, <1>5
<1>8. ASSUME NEW h \in DOMAIN put, put[h] = h PROVE Circle(r.next, h, Class(put, h))
  <2>1. h # new /\ h \in DOMAIN own /\ own[h] = h
    BY <1>4, <1>8
  <2>2. Circle(m.next, h, Class(own, h))
    BY <2>1 DEF Owned
  <2>3. new \notin Class(own, h)
    BY <2>1 DEF Class, Alone
  <2>4. CASE h = into
    <3>1. Class(put, h) = Class(own, h) \cup {new}
      BY <1>4, <2>4 DEF Class, Alone
    <3>2. last \in Class(own, h) /\ m.next[last] = h /\ r.next[last] = new /\ r.next[new] = h
      BY <1>1, <1>2, <2>4 DEF Class
    <3>3. \A y \in Class(own, h) \ {last} : r.next[y] = m.next[y]
      BY <1>3, <2>3 DEF Class
    <3>4. Circle(r.next, h, Class(own, h) \cup {new})
      BY <2>2, <2>3, <3>2, <3>3, CircleAdd
    <3> QED BY <3>1, <3>4
  <2>5. CASE h # into
    <3>1. Class(put, h) = Class(own, h)
      BY <1>4, <2>3, <2>5 DEF Class
    <3>2. last \notin Class(own, h)
      BY <1>2, <2>5 DEF Class
    <3>3. \A y \in Class(own, h) : r.next[y] = m.next[y]
      BY <1>3, <2>3, <3>2 DEF Class
    <3> QED BY <2>2, <3>1, <3>3, CircleFrame
  <2> QED BY <2>4, <2>5
<1>9. Owned(r, put)
  BY <1>3, <1>6, <1>7, <1>8 DEF Owned
<1> QED BY <1>1, <1>9 DEF Relinked, r, put

LEMMA OwnedRemove ==
  ASSUME NEW m, NEW own, NEW n \in DOMAIN own, Owned(m, own), own[n] # n
  PROVE  /\ Owned(ListRemove(m, n), [own EXCEPT ![n] = n])
         /\ ListRemove(m, n).slab = m.slab /\ ListRemove(m, n).cache = m.cache
<1> DEFINE r == ListRemove(m, n)
           put == [own EXCEPT ![n] = n]
           before == m.prev[n]
           top == own[n]
<1>0. n \in DOMAIN m.next /\ Lists(m)
  BY DEF Owned
<1>1. /\ Relinked(m, r, {n, before}) /\ r.next[n] = n
      /\ before # n => r.next[before] = m.next[n]
  BY <1>0, ListRemoveFacts
<1>2. /\ before \in DOMAIN own /\ own[before] = top /\ m.next[before] = n
      /\ DOMAIN own = DOMAIN m.next
  BY OwnedStep
<1> HIDE DEF r, before
<1>3. /\ DOMAIN r.next = DOMAIN own /\ Lists(r)
      /\ \A x \in DOMAIN own \ {n, before} : r.next[x] = m.next[x]
      /\ \A y \in DOMAIN own : own[y] \in DOMAIN own /\ own[own[y]] = own[y]
  BY <1>1, <1>2 DEF Owned, Relinked
<1>4. /\ DOMAIN put = DOMAIN own /\ put[n] = n
      /\ \A x \in DOMAIN own \ {n} : put[x] = own[x]
      /\ put = [x \in DOMAIN put |-> put[x]]
  BY DEF Owned
<1>5. \A x \in DOMAIN own : own[x] # n
  BY <1>3
<1> HIDE DEF put
<1>6. put \in [DOMAIN r.next -> DOMAIN r.next]
  BY <1>3, <1>4
<1>7. \A x \in DOMAIN put : put[put[x]] = put[x]
  BY <1>3, <1>4, <1>5
<1>8. ASSUME NEW h \in DOMAIN put, put[h] = h PROVE Circle(r.next, h, Class(put, h))
  <2>1. CASE h = n
    <3>1. Class(put, n) = {n}
      BY <1>4, <1>5 DEF Class
    <3> QED BY <1>1, <2>1, <3>1, CircleAlone
  <2>2. CASE h = top
    <3>1. own[h] = h /\ h \in DOMAIN own /\ h # n /\ n \in Class(own, h) /\ before \in Class(own, h)
      BY <1>2, <1>3, <2>2 DEF Class
    <3>2. Circle(m.next, h, Class(own, h))
      BY <3>1 DEF Owned
    <3>3. r.next[before] = m.next[n]
      BY <1>1, <1>2
    <3>4. \A y \in Class(own, h) \ {n, before} : r.next[y] = m.next[y]
      BY <1>3 DEF Class
    <3>5. Circle(r.next, h, Class(own, h) \ {n})
      BY <1>2, <3>1, <3>2, <3>3, <3>4, CircleDrop
    <3>6. Class(put, h) = Class(own, h) \ {n}
      BY <1>4, <3>1 DEF Class
    <3> QED BY <3>5, <3>6
  <2>3. CASE h # n /\ h # top
    <3>1. own[h] = h /\ h \in DOMAIN own /\ n \notin Class(own, h) /\ before \notin Class(own, h)
      BY <1>2, <1>4, <1>8, <2>3 DEF Class
    <3>2. Circle(m.next, h, Class(own, h))
      BY <3>1 DEF Owned
    <3>3. \A y \in Class(own, h) : r.next[y] = m.next[y]
      BY <1>3, <3>1 DEF Class
    <3>4. Class(put, h) = Class(own, h)
      BY <1>4, <2>3, <3>1 DEF Class
    <3> QED BY <3>2, <3>3, <3>4, CircleFrame
  <2> QED BY <2>1, <2>2, <2>3
<1>9. Owned(r, put)
  BY <1>3, <1>6, <1>7, <1>8 DEF Owned
<1> QED BY <1>1, <1>9 DEF Relinked, r, put

\* What follows a head: a node of its list, or NULL.
LEMMA OwnedNext ==
  ASSUME NEW m, NEW own, NEW h \in DOMAIN own, Owned(m, own), own[h] = h
  PROVE  \/ ListNext(m, h) = NULL /\ Class(own, h) = {h}
         \/ ListNext(m, h) \in Class(own, h) \ {h}
<1>1. Circle(m.next, h, Class(own, h))
  BY DEF Owned
<1>2. h \in Class(own, h) /\ m.next[h] \in Class(own, h) /\ (Class(own, h) = {h} <=> m.next[h] = h)
  BY <1>1, CircleIn
<1> QED BY <1>2 DEF ListNext

\* Other fields than the pointers.
LEMMA OwnedFrame ==
  ASSUME NEW m, NEW r, NEW own, Owned(m, own), r.next = m.next, r.prev = m.prev,
         r = [next |-> r.next, prev |-> r.prev, slab |-> r.slab, cache |-> r.cache]
  PROVE  Owned(r, own)
BY DEF Owned, Lists

-----------------------------------------------------------------------------
(* What the allocator keeps: the memory, the objects handed out, and of    *)
(* these the caches on the chain.                                          *)

\* The nodes differ in kind and number.
LEMMA Tags ==
  /\ \A s, i : Obj(s, i)[1] = "obj" /\ Obj(s, i)[2] = s /\ Obj(s, i)[3] = i
  /\ \A s : Freelist(s)[1] = "freelist" /\ Freelist(s)[2] = s
  /\ \A s : OwnHeader(s)[1] = "slab" /\ OwnHeader(s)[2] = s
  /\ \A c, l : ListHead(c, l)[1] = l /\ ListHead(c, l)[2] = c
  /\ Chain[1] = "chain" /\ NULL[1] = "null" /\ FAULT[1] = "fault"
BY DEF Obj, Freelist, OwnHeader, ListHead, Chain, NULL, FAULT

LEMMA Distinct ==
  /\ \A s, t : Freelist(s) = Freelist(t) => s = t
  /\ \A s, t : OwnHeader(s) = OwnHeader(t) => s = t
  /\ \A c, d, k, l : ListHead(c, k) = ListHead(d, l) => c = d /\ k = l
<1>1. ASSUME NEW s, NEW t, Freelist(s) = Freelist(t) PROVE s = t
  BY <1>1, Tags
<1>2. ASSUME NEW s, NEW t, OwnHeader(s) = OwnHeader(t) PROVE s = t
  BY <1>2, Tags
<1>3. ASSUME NEW c, NEW d, NEW k, NEW l, ListHead(c, k) = ListHead(d, l) PROVE c = d /\ k = l
  BY <1>3, Tags
<1> QED BY <1>1, <1>2, <1>3

Objs(m, s) == {Obj(s, i) : i \in 1 .. PerSlab[m.slab[s].cache]}
AllObjs(m) == UNION {Objs(m, s) : s \in DOMAIN m.slab}
Heads(m) == {m.slab[s].node : s \in DOMAIN m.slab}
Of(m, c) == {s \in DOMAIN m.slab : m.slab[s].cache = c}
Used(m, taken, s) == Objs(m, s) \cap (Heads(m) \cup taken)

ListIn(m, s) ==
  IF m.slab[s].num_objs_inuse = 0 THEN "slabs_free"
  ELSE IF m.slab[s].num_objs_inuse = PerSlab[m.slab[s].cache] THEN "slabs_full"
  ELSE "slabs_partial"

Typed(m) ==
  /\ m.cache \in Seq([total_num_objs : Nat, total_num_slabs : Nat])
  /\ Len(m.cache) \in CACHES .. MaxCaches
  /\ DOMAIN m.slab \subseteq 1 .. MaxSlabs
  /\ m.slab = [s \in DOMAIN m.slab |-> m.slab[s]]
  /\ \A s \in DOMAIN m.slab :
       /\ m.slab[s] = [cache |-> m.slab[s].cache, num_objs_inuse |-> m.slab[s].num_objs_inuse,
                       node |-> m.slab[s].node]
       /\ m.slab[s].cache \in 1 .. Len(m.cache)
       /\ m.slab[s].num_objs_inuse \in Nat

\* Where the headers of slabs are, each slab's at a place of its own.
Headed(m, taken) ==
  /\ \A s \in DOMAIN m.slab :
       IF m.slab[s].cache = SLABS THEN m.slab[s].node = OwnHeader(s)
       ELSE \E t \in Of(m, SLABS) : m.slab[s].node \in Objs(m, t) \ taken
  /\ \A s, t \in DOMAIN m.slab : m.slab[s].node = m.slab[t].node => s = t

Counted(m, taken) ==
  /\ \A s \in DOMAIN m.slab : m.slab[s].num_objs_inuse = Cardinality(Used(m, taken, s))
  /\ \A c \in 1 .. Len(m.cache) :
       /\ m.cache[c].total_num_slabs = Cardinality(Of(m, c))
       /\ m.cache[c].total_num_objs = PerSlab[c] * Cardinality(Of(m, c))

ListHeads(n) == {ListHead(c, l) : c \in 1 .. n, l \in SlabLists}
Freelists(m) == {Freelist(s) : s \in DOMAIN m.slab}
Tops(m) == ListHeads(Len(m.cache)) \cup Freelists(m) \cup {Chain}

\* Which list every node is on.
Placed(m, own, taken, chain) ==
  /\ DOMAIN own = Tops(m) \cup Heads(m) \cup AllObjs(m)
  /\ \A n \in Tops(m) : own[n] = n
  /\ \A s \in DOMAIN m.slab : own[m.slab[s].node] = ListHead(m.slab[s].cache, ListIn(m, s))
  /\ \A s \in DOMAIN m.slab : \A o \in Objs(m, s) \ Heads(m) :
       own[o] = IF o \in chain THEN Chain ELSE IF o \in taken THEN o ELSE Freelist(s)

WF(m, own, taken, chain) ==
  /\ Owned(m, own)
  /\ Typed(m) /\ Headed(m, taken) /\ Counted(m, taken)
  /\ taken \subseteq AllObjs(m) /\ chain \subseteq taken
  /\ Placed(m, own, taken, chain)

Sane(m, taken, chain) == \E own : WF(m, own, taken, chain)

\* A node is a list's head, a slab's own header or an object.
LEMMA Kinds ==
  ASSUME NEW m, NEW own, NEW taken, NEW chain, WF(m, own, taken, chain)
  PROVE  /\ \A n \in Tops(m) : n \notin Heads(m) \cup AllObjs(m) /\ n[1] # "obj" /\ n[1] # "slab"
         /\ \A n \in AllObjs(m) : n[1] = "obj" /\ n[2] \in DOMAIN m.slab /\ n \in Objs(m, n[2])
         /\ \A s \in DOMAIN m.slab : \A n \in Objs(m, s) : n[1] = "obj" /\ n[2] = s
         /\ \A n \in Heads(m) : n \notin taken /\ (n \in AllObjs(m) \/ (n[1] = "slab" /\ n[2] \in DOMAIN m.slab))
         /\ Heads(m) \cap taken = {}
         /\ \A l \in SlabLists : l \notin {"obj", "slab", "freelist", "chain", "null", "fault"}
         /\ {"slabs_free", "slabs_partial", "slabs_full"} \subseteq SlabLists
<1>1. \A s, n : n \in Objs(m, s) => n[1] = "obj" /\ n[2] = s
  BY Tags DEF Objs
<1>2. \A n \in AllObjs(m) : n[1] = "obj" /\ n[2] \in DOMAIN m.slab /\ n \in Objs(m, n[2])
  BY <1>1 DEF AllObjs
<1>3. /\ \A l \in SlabLists : l \notin {"obj", "slab", "freelist", "chain", "null", "fault"}
      /\ {"slabs_free", "slabs_partial", "slabs_full"} \subseteq SlabLists
  BY DEF SlabLists
<1>4. \A n \in Tops(m) : n[1] # "obj" /\ n[1] # "slab"
  BY <1>3, Tags DEF Tops, ListHeads, Freelists
<1>5. ASSUME NEW n \in Heads(m) PROVE n \notin taken /\ (n \in AllObjs(m) \/ (n[1] = "slab" /\ n[2] \in DOMAIN m.slab))
  <2>1. PICK s \in DOMAIN m.slab : n = m.slab[s].node
    BY DEF Heads
  <2>2. CASE m.slab[s].cache = SLABS
    <3>1. n = OwnHeader(s)
      BY <2>1, <2>2 DEF WF, Headed
    <3>2. n[1] = "slab" /\ n[2] = s
      BY <3>1, Tags
    <3>3. n \notin AllObjs(m)
      BY <1>2, <3>2
    <3> QED BY <3>2, <3>3 DEF WF
  <2>3. CASE m.slab[s].cache # SLABS
    <3>1. PICK t \in Of(m, SLABS) : n \in Objs(m, t) \ taken
      BY <2>1, <2>3 DEF WF, Headed
    <3>2. t \in DOMAIN m.slab /\ n \in Objs(m, t) /\ n \notin taken
      BY <3>1 DEF Of
    <3>3. n \in AllObjs(m)
      BY <3>2 DEF AllObjs
    <3> QED BY <3>2, <3>3
  <2> QED BY <2>2, <2>3
<1>6. \A n \in Tops(m) : n \notin Heads(m) \cup AllObjs(m)
  BY <1>2, <1>4, <1>5
<1> QED BY <1>1, <1>2, <1>3, <1>4, <1>5, <1>6

\* The nodes on each list.
LEMMA Classes ==
  ASSUME NEW m, NEW own, NEW taken, NEW chain, WF(m, own, taken, chain)
  PROVE  /\ \A s \in DOMAIN m.slab :
              Class(own, Freelist(s)) = {Freelist(s)} \cup (Objs(m, s) \ (Heads(m) \cup taken))
         /\ \A c \in 1 .. Len(m.cache), l \in SlabLists :
              Class(own, ListHead(c, l)) =
                {ListHead(c, l)} \cup {m.slab[s].node : s \in {t \in Of(m, c) : ListIn(m, t) = l}}
         /\ Class(own, Chain) = {Chain} \cup chain
         /\ \A o \in taken \ chain : o \in DOMAIN own /\ Alone(own, o)
<1>0. /\ DOMAIN own = Tops(m) \cup Heads(m) \cup AllObjs(m)
      /\ \A n \in Tops(m) : own[n] = n
      /\ \A s \in DOMAIN m.slab : own[m.slab[s].node] = ListHead(m.slab[s].cache, ListIn(m, s))
      /\ \A s \in DOMAIN m.slab : \A o \in Objs(m, s) \ Heads(m) :
           own[o] = IF o \in chain THEN Chain ELSE IF o \in taken THEN o ELSE Freelist(s)
      /\ taken \subseteq AllObjs(m) /\ chain \subseteq taken
  BY DEF WF, Placed
<1>1. \A s \in DOMAIN m.slab : ListIn(m, s) \in SlabLists /\ m.slab[s].cache \in 1 .. Len(m.cache)
  BY DEF WF, Typed, ListIn, SlabLists
<1>2. ASSUME NEW n \in DOMAIN own
      PROVE  \/ n \in Tops(m) /\ own[n] = n
             \/ \E s \in DOMAIN m.slab : n = m.slab[s].node /\ own[n] = ListHead(m.slab[s].cache, ListIn(m, s))
             \/ n \in chain /\ own[n] = Chain /\ n \notin Heads(m)
             \/ n \in taken \ chain /\ own[n] = n /\ n \notin Heads(m)
             \/ \E s \in DOMAIN m.slab : n \in Objs(m, s) \ (Heads(m) \cup taken) /\ own[n] = Freelist(s)
  <2>1. CASE n \in Tops(m)
    BY <1>0, <2>1
  <2>2. CASE n \in Heads(m)
    BY <1>0, <2>2 DEF Heads
  <2>3. CASE n \in AllObjs(m) \ Heads(m)
    <3>1. PICK s \in DOMAIN m.slab : n \in Objs(m, s) \ Heads(m)
      BY <2>3 DEF AllObjs
    <3> QED BY <1>0, <3>1
  <2> QED BY <1>0, <2>1, <2>2, <2>3
<1>3. /\ \A s \in DOMAIN m.slab : Freelist(s) \in Tops(m)
      /\ \A c \in 1 .. Len(m.cache), l \in SlabLists : ListHead(c, l) \in Tops(m)
      /\ Chain \in Tops(m)
  BY DEF Tops, ListHeads, Freelists
<1>4. /\ \A n \in Tops(m) : n \notin Heads(m) \cup AllObjs(m) /\ n \notin taken
      /\ \A n \in AllObjs(m) : n[1] = "obj"
      /\ \A s \in DOMAIN m.slab : \A n \in Objs(m, s) : n \in AllObjs(m) /\ n[2] = s
      /\ \A l \in SlabLists : l # "obj" /\ l # "slab" /\ l # "freelist" /\ l # "chain"
  BY <1>0, Kinds DEF AllObjs
<1>5. ASSUME NEW s \in DOMAIN m.slab
      PROVE  Class(own, Freelist(s)) = {Freelist(s)} \cup (Objs(m, s) \ (Heads(m) \cup taken))
  <2>1. ASSUME NEW n \in DOMAIN own, own[n] = Freelist(s)
        PROVE  n = Freelist(s) \/ n \in Objs(m, s) \ (Heads(m) \cup taken)
    <3>1. ~ \E t \in DOMAIN m.slab : own[n] = ListHead(m.slab[t].cache, ListIn(m, t))
      BY <1>1, <1>4, <2>1, Tags
    <3>2. n \in taken => own[n] # n
      BY <1>0, <1>4, <2>1, Tags
    <3>3. own[n] # Chain
      BY <2>1, Tags
    <3>4. \A t : own[n] = Freelist(t) => t = s
      BY <2>1, Distinct
    <3> QED BY <1>2, <2>1, <3>1, <3>2, <3>3, <3>4
  <2>2. ASSUME NEW n \in Objs(m, s) \ (Heads(m) \cup taken) PROVE n \in DOMAIN own /\ own[n] = Freelist(s)
    BY <1>0, <1>4
  <2> QED BY <1>0, <1>3, <2>1, <2>2 DEF Class
<1>6. ASSUME NEW c \in 1 .. Len(m.cache), NEW l \in SlabLists
      PROVE  Class(own, ListHead(c, l)) =
               {ListHead(c, l)} \cup {m.slab[s].node : s \in {t \in Of(m, c) : ListIn(m, t) = l}}
  <2>1. ASSUME NEW n \in DOMAIN own, own[n] = ListHead(c, l)
        PROVE  n = ListHead(c, l) \/ \E s \in Of(m, c) : ListIn(m, s) = l /\ n = m.slab[s].node
    <3>1. own[n] # Chain /\ \A s : own[n] # Freelist(s)
      BY <1>4, <2>1, Tags
    <3>2. n \in taken => own[n] # n
      BY <1>0, <1>4, <2>1, Tags
    <3>3. ASSUME NEW s \in DOMAIN m.slab, own[n] = ListHead(m.slab[s].cache, ListIn(m, s))
          PROVE  s \in Of(m, c) /\ ListIn(m, s) = l
      <4>1. m.slab[s].cache = c /\ ListIn(m, s) = l
        <5>1. ListHead(m.slab[s].cache, ListIn(m, s)) = ListHead(c, l)
          BY <2>1, <3>3
        <5> QED BY <5>1, Distinct
      <4> QED BY <4>1 DEF Of
    <3> QED BY <1>2, <2>1, <3>1, <3>2, <3>3
  <2>2. ASSUME NEW s \in Of(m, c), ListIn(m, s) = l
        PROVE  m.slab[s].node \in DOMAIN own /\ own[m.slab[s].node] = ListHead(c, l)
    BY <1>0, <2>2 DEF Of, Heads
  <2> QED BY <1>0, <1>3, <2>1, <2>2 DEF Class
<1>7. Class(own, Chain) = {Chain} \cup chain
  <2>1. ASSUME NEW n \in DOMAIN own, own[n] = Chain PROVE n = Chain \/ n \in chain
    <3>1. ~ \E t \in DOMAIN m.slab : own[n] = ListHead(m.slab[t].cache, ListIn(m, t))
      BY <1>1, <1>4, <2>1, Tags
    <3>2. \A t : own[n] # Freelist(t)
      BY <2>1, Tags
    <3> QED BY <1>2, <2>1, <3>1, <3>2
  <2>2. ASSUME NEW n \in chain PROVE n \in DOMAIN own /\ own[n] = Chain
    <3>1. n \in AllObjs(m) \ Heads(m)
      BY <1>0, Kinds
    <3>2. PICK s \in DOMAIN m.slab : n \in Objs(m, s) \ Heads(m)
      BY <3>1 DEF AllObjs
    <3> QED BY <1>0, <3>1, <3>2
  <2> QED BY <1>0, <1>3, <2>1, <2>2 DEF Class
<1>8. ASSUME NEW o \in taken \ chain PROVE o \in DOMAIN own /\ Alone(own, o)
  <2>1. o \in AllObjs(m) \ Heads(m)
    BY <1>0, Kinds
  <2>2. PICK s \in DOMAIN m.slab : o \in Objs(m, s) \ Heads(m)
    BY <2>1 DEF AllObjs
  <2>3. o \in DOMAIN own /\ own[o] = o /\ o[1] = "obj"
    BY <1>0, <1>4, <2>1, <2>2
  <2>4. ASSUME NEW n \in DOMAIN own, own[n] = o PROVE n = o
    <3>1. ~ \E t \in DOMAIN m.slab : own[n] = ListHead(m.slab[t].cache, ListIn(m, t))
      BY <1>1, <1>4, <2>3, <2>4, Tags
    <3>2. own[n] # Chain /\ \A t : own[n] # Freelist(t)
      BY <2>3, <2>4, Tags
    <3> QED BY <1>2, <2>4, <3>1, <3>2
  <2> QED BY <2>3, <2>4 DEF Alone
<1> QED BY <1>5, <1>6, <1>7, <1>8

\* How many objects a slab has.
LEMMA ObjsFacts ==
  ASSUME NEW m, Typed(m), NEW s \in DOMAIN m.slab
  PROVE  /\ PerSlab[m.slab[s].cache] \in Nat \ {0}
         /\ IsFiniteSet(Objs(m, s)) /\ Cardinality(Objs(m, s)) = PerSlab[m.slab[s].cache]
<1> DEFINE n == PerSlab[m.slab[s].cache]
           b == [i \in 1 .. n |-> Obj(s, i)]
<1>1. n \in Nat \ {0}
  <2>1. m.slab[s].cache \in 1 .. MaxCaches
    <3>1. m.slab[s].cache \in 1 .. Len(m.cache) /\ Len(m.cache) \in CACHES .. MaxCaches
      BY DEF Typed
    <3> QED BY <3>1, SlabAssumption DEF CACHES
  <2> QED BY <2>1, SlabAssumption
<1> HIDE DEF n
<1>2. b \in Bijection(1 .. n, Objs(m, s))
  <2>1. \A i, j \in 1 .. n : b[i] = b[j] => i = j
    BY Tags
  <2>2. \A x \in Objs(m, s) : \E i \in 1 .. n : b[i] = x
    BY DEF Objs, n
  <2>3. b \in [1 .. n -> Objs(m, s)]
    BY DEF Objs, n
  <2> QED BY <2>1, <2>2, <2>3 DEF Bijection, Injection, Surjection, IsInjective
<1>3. IsFiniteSet(1 .. n) /\ Cardinality(1 .. n) = n
  <2>1. Cardinality(1 .. n) = IF 1 > n THEN 0 ELSE n - 1 + 1
    BY ONLY <1>1, FS_Interval
  <2> QED BY <1>1, <2>1, FS_Interval
<1>4. IsFiniteSet(Objs(m, s)) /\ Cardinality(Objs(m, s)) = n
  <2>1. ExistsBijection(1 .. n, Objs(m, s))
    BY <1>2 DEF ExistsBijection
  <2> QED BY <1>3, <2>1, FS_Bijection
<1> QED BY <1>1, <1>4 DEF n

LEMMA UsedFacts ==
  ASSUME NEW m, NEW own, NEW taken, NEW chain, WF(m, own, taken, chain), NEW s \in DOMAIN m.slab
  PROVE  /\ IsFiniteSet(Used(m, taken, s))
         /\ m.slab[s].num_objs_inuse = Cardinality(Used(m, taken, s))
         /\ m.slab[s].num_objs_inuse \in 0 .. PerSlab[m.slab[s].cache]
         /\ Cardinality(Objs(m, s) \ (Heads(m) \cup taken)) = PerSlab[m.slab[s].cache] - m.slab[s].num_objs_inuse
         /\ m.slab[s].num_objs_inuse = 0 <=> Used(m, taken, s) = {}
<1>1. /\ PerSlab[m.slab[s].cache] \in Nat \ {0}
      /\ IsFiniteSet(Objs(m, s)) /\ Cardinality(Objs(m, s)) = PerSlab[m.slab[s].cache]
  BY ObjsFacts DEF WF
<1>2. Used(m, taken, s) \subseteq Objs(m, s)
  BY DEF Used
<1>3. /\ IsFiniteSet(Used(m, taken, s)) /\ Cardinality(Used(m, taken, s)) \in Nat
      /\ Cardinality(Used(m, taken, s)) <= Cardinality(Objs(m, s))
  BY <1>1, <1>2, FS_Subset, FS_CardinalityType
<1>4. Cardinality(Objs(m, s) \ (Heads(m) \cup taken)) = Cardinality(Objs(m, s)) - Cardinality(Used(m, taken, s))
  BY <1>1, FS_Difference DEF Used
<1>5. m.slab[s].num_objs_inuse = Cardinality(Used(m, taken, s))
  BY DEF WF, Counted
<1>6. Cardinality(Used(m, taken, s)) = 0 <=> Used(m, taken, s) = {}
  BY <1>3, FS_EmptySet
<1> QED BY <1>1, <1>3, <1>4, <1>5, <1>6

-----------------------------------------------------------------------------
(* cache_alloc's part on one slab.                                         *)

\* A header is on a list of its cache, and on no other.
LEMMA HeaderFacts ==
  ASSUME NEW m, NEW own, NEW taken, NEW chain, WF(m, own, taken, chain), NEW s \in DOMAIN m.slab
  PROVE  /\ m.slab[s].node \in DOMAIN own /\ m.slab[s].node \in Heads(m)
         /\ own[m.slab[s].node] = ListHead(m.slab[s].cache, ListIn(m, s))
         /\ m.slab[s].cache \in 1 .. Len(m.cache) /\ ListIn(m, s) \in SlabLists
         /\ SlabOf(m, m.slab[s].node) = s
<1>1. \A t \in DOMAIN m.slab : m.slab[t].node = m.slab[s].node => t = s
  BY DEF WF, Headed
<1>2. SlabOf(m, m.slab[s].node) = s
  BY <1>1 DEF SlabOf
<1>3. m.slab[s].node \in Heads(m)
  BY DEF Heads
<1> QED BY <1>2, <1>3 DEF WF, Placed, Typed, ListIn, SlabLists

\* What slab_select answers is NULL or a slab of the cache with an object left.
LEMMA SelectedFacts ==
  ASSUME NEW m, NEW own, NEW taken, NEW chain, WF(m, own, taken, chain), NEW c \in 1 .. Len(m.cache),
         Selected(m, c) # NULL
  PROVE  \E s \in Of(m, c) : Selected(m, c) = m.slab[s].node
<1>1. ASSUME NEW l \in SlabLists, ListNext(m, ListHead(c, l)) # NULL
      PROVE  \E s \in Of(m, c) : ListNext(m, ListHead(c, l)) = m.slab[s].node
  <2>1. ListHead(c, l) \in Tops(m)
    BY DEF Tops, ListHeads, Freelists
  <2>2. ListHead(c, l) \in DOMAIN own /\ own[ListHead(c, l)] = ListHead(c, l) /\ Owned(m, own)
    BY <2>1 DEF WF, Placed
  <2>3. ListNext(m, ListHead(c, l)) \in Class(own, ListHead(c, l)) \ {ListHead(c, l)}
    BY <1>1, <2>2, OwnedNext
  <2>4. Class(own, ListHead(c, l)) =
          {ListHead(c, l)} \cup {m.slab[s].node : s \in {t \in Of(m, c) : ListIn(m, t) = l}}
    BY Classes
  <2> QED BY <2>3, <2>4
<1>2. "slabs_partial" \in SlabLists /\ "slabs_free" \in SlabLists
  BY DEF SlabLists
<1> QED BY <1>1, <1>2 DEF Selected

\* o took an object of slab s.
Taken(m, s, taken, chain, o) ==
  /\ o.obj \in Objs(m, s) \ (Heads(m) \cup taken)
  /\ Sane(o.mem, taken \cup {o.obj}, chain)
  /\ o.mem.cache = m.cache /\ DOMAIN o.mem.slab = DOMAIN m.slab
  /\ \A t \in DOMAIN m.slab : /\ o.mem.slab[t].cache = m.slab[t].cache
                              /\ o.mem.slab[t].node = m.slab[t].node

LEMMA TakeFacts ==
  ASSUME NEW m, NEW own, NEW taken, NEW chain, WF(m, own, taken, chain), NEW s \in DOMAIN m.slab,
         NEW c, c = m.slab[s].cache, NEW o, o = Take(m, c, m.slab[s].node)
  PROVE  o.obj = FAULT \/ Taken(m, s, taken, chain, o)
<1> DEFINE node == m.slab[s].node
           obj == ListNext(m, Freelist(s))
           r1 == ListRemove(m, obj)
           own1 == [own EXCEPT ![obj] = obj]
           r2 == [r1 EXCEPT !.slab[s].num_objs_inuse = @ + 1]
           r3 == ListRemove(r2, node)
           own3 == [own1 EXCEPT ![node] = node]
           dest == ListHead(c, Destination(r2, s))
           r4 == ListAppend(r3, dest, node)
           own4 == Store(own3, node, dest)
           new == taken \cup {obj}
<1>1. /\ node \in Heads(m) /\ SlabOf(m, node) = s
      /\ node \in DOMAIN own /\ own[node] = ListHead(c, ListIn(m, s))
      /\ c \in 1 .. Len(m.cache) /\ ListIn(m, s) \in SlabLists
  BY HeaderFacts
<1>2. o = IF obj = NULL THEN [obj |-> FAULT, mem |-> m] ELSE [obj |-> obj, mem |-> r4]
  BY <1>1 DEF Take, SlabOf, Heads
<1>3. CASE obj = NULL
  BY <1>2, <1>3
<1>4. CASE obj # NULL
  <2>0. /\ Owned(m, own) /\ Typed(m) /\ Headed(m, taken) /\ Counted(m, taken)
        /\ taken \subseteq AllObjs(m) /\ chain \subseteq taken /\ Placed(m, own, taken, chain)
    BY DEF WF
  <2>1. obj \in Objs(m, s) \ (Heads(m) \cup taken) /\ obj \in DOMAIN own /\ own[obj] = Freelist(s)
    <3>1. Freelist(s) \in DOMAIN own /\ own[Freelist(s)] = Freelist(s)
      BY <2>0 DEF Placed, Tops, ListHeads, Freelists
    <3>2. obj \in Class(own, Freelist(s)) \ {Freelist(s)}
      BY <1>4, <2>0, <3>1, OwnedNext
    <3>3. Class(own, Freelist(s)) = {Freelist(s)} \cup (Objs(m, s) \ (Heads(m) \cup taken))
      BY Classes
    <3> QED BY <3>2, <3>3 DEF Class
  <2> HIDE DEF obj, node
  <2>2. obj # node /\ own[obj] # obj /\ own[node] # node
    <3>1. Freelist(s) \in Tops(m) /\ ListHead(c, ListIn(m, s)) \in Tops(m)
      BY <1>1 DEF Tops, ListHeads, Freelists
    <3>2. obj \in AllObjs(m)
      BY <2>1 DEF AllObjs
    <3> QED BY <1>1, <2>1, <3>1, <3>2, Kinds
  <2>3. Owned(r1, own1) /\ r1.slab = m.slab /\ r1.cache = m.cache
    BY <2>0, <2>1, <2>2, OwnedRemove
  <2>4. own \in [DOMAIN own -> DOMAIN own]
    BY <2>0 DEF Owned
  <2>5. /\ DOMAIN own1 = DOMAIN own /\ own1[obj] = obj /\ own1[node] = own[node]
        /\ \A x \in DOMAIN own \ {obj} : own1[x] = own[x]
    BY <1>1, <2>1, <2>2, <2>4
  <2> HIDE DEF r1, own1
  <2>6. /\ Owned(r2, own1) /\ r2.cache = m.cache
        /\ r2.slab = [m.slab EXCEPT ![s].num_objs_inuse = m.slab[s].num_objs_inuse + 1]
    <3>1. r1 = [next |-> r1.next, prev |-> r1.prev, slab |-> r1.slab, cache |-> r1.cache]
      BY <2>3 DEF Owned, Lists
    <3>2. r2 = [next |-> r1.next, prev |-> r1.prev, cache |-> r1.cache,
                slab |-> [r1.slab EXCEPT ![s].num_objs_inuse = r1.slab[s].num_objs_inuse + 1]]
      BY <3>1
    <3> HIDE DEF r2
    <3> QED BY <2>3, <3>2, OwnedFrame
  <2>7. /\ DOMAIN r2.slab = DOMAIN m.slab
        /\ r2.slab = [t \in DOMAIN r2.slab |-> r2.slab[t]]
        /\ r2.slab[s] = [cache |-> c, num_objs_inuse |-> m.slab[s].num_objs_inuse + 1, node |-> node]
        /\ \A t \in DOMAIN m.slab \ {s} : r2.slab[t] = m.slab[t]
    <3>1. /\ m.slab = [t \in DOMAIN m.slab |-> m.slab[t]]
          /\ m.slab[s] = [cache |-> c, num_objs_inuse |-> m.slab[s].num_objs_inuse, node |-> node]
      BY <2>0 DEF Typed, node
    <3> QED BY <2>6, <3>1
  <2> HIDE DEF r2
  <2>8. Owned(r3, own3) /\ r3.slab = r2.slab /\ r3.cache = m.cache
    <3>1. node \in DOMAIN own1 /\ own1[node] # node
      BY <1>1, <2>2, <2>5
    <3>2. Owned(r3, own3) /\ r3.slab = r2.slab /\ r3.cache = r2.cache
      BY ONLY <2>6, <3>1, OwnedRemove
    <3> QED BY <2>6, <3>2
  <2>9. /\ DOMAIN own3 = DOMAIN own /\ own3[obj] = obj /\ own3[node] = node
        /\ \A x \in DOMAIN own \ {obj, node} : own3[x] = own[x]
    <3>1. own1 \in [DOMAIN own -> DOMAIN own]
      BY <2>5, <2>6 DEF Owned
    <3> HIDE DEF own1
    <3> QED BY <1>1, <2>1, <2>2, <2>5, <3>1
  <2> HIDE DEF r3, own3
  <2>10. /\ Destination(r2, s) \in {"slabs_full", "slabs_partial"}
         /\ dest \in Tops(m) /\ dest \in DOMAIN own /\ own3[dest] = dest /\ dest # node
    <3>1. Destination(r2, s) \in {"slabs_full", "slabs_partial"}
      BY DEF Destination
    <3>2. dest \in Tops(m)
      BY <1>1, <3>1 DEF Tops, ListHeads, Freelists, SlabLists
    <3>3. dest \in DOMAIN own /\ own[dest] = dest
      BY <2>0, <3>2 DEF Placed
    <3>4. dest # obj /\ dest # node
      <4>1. obj \in AllObjs(m)
        BY <2>1 DEF AllObjs
      <4> QED BY <1>1, <3>2, <4>1, Kinds
    <3> QED BY <2>9, <3>1, <3>2, <3>3, <3>4
  <2> HIDE DEF dest
  <2>11. Alone(own3, node)
    <3>1. \A x \in DOMAIN own : own[own[x]] = own[x]
      BY <2>0 DEF Owned
    <3>2. \A x \in DOMAIN own : own[x] # node
      BY <2>2, <3>1
    <3> QED BY <2>2, <2>9, <3>2 DEF Alone
  <2>12. Owned(r4, own4) /\ r4.slab = r2.slab /\ r4.cache = m.cache
    BY <2>8, <2>9, <2>10, <2>11, OwnedAppend
  <2>13. /\ DOMAIN own4 = DOMAIN own /\ own4[obj] = obj /\ own4[node] = dest
         /\ \A x \in DOMAIN own \ {obj, node} : own4[x] = own[x]
    <3>1. /\ DOMAIN own4 = DOMAIN own3 \cup {node} /\ own4[node] = dest
          /\ \A x \in DOMAIN own3 \ {node} : own4[x] = own3[x]
      BY DEF Store
    <3> HIDE DEF own4
    <3> QED BY <1>1, <2>1, <2>2, <2>9, <3>1
  <2> HIDE DEF r4, own4
  <2>14. /\ \A t \in DOMAIN m.slab : /\ r4.slab[t].cache = m.slab[t].cache /\ r4.slab[t].node = m.slab[t].node
                                     /\ t # s => r4.slab[t] = m.slab[t]
         /\ DOMAIN r4.slab = DOMAIN m.slab
         /\ r4.slab[s].num_objs_inuse = m.slab[s].num_objs_inuse + 1
         /\ r4.slab[s].cache = c /\ r4.slab[s].node = node
    BY <2>7, <2>12 DEF node
  <2>15. /\ \A t \in DOMAIN m.slab : Objs(r4, t) = Objs(m, t)
         /\ Heads(r4) = Heads(m) /\ AllObjs(r4) = AllObjs(m) /\ Tops(r4) = Tops(m)
         /\ \A d : Of(r4, d) = Of(m, d)
    <3>1. \A t \in DOMAIN m.slab : Objs(r4, t) = Objs(m, t)
      BY <2>14 DEF Objs
    <3>2. Heads(r4) = Heads(m)
      BY <2>14 DEF Heads
    <3>3. AllObjs(r4) = AllObjs(m)
      BY <2>14, <3>1 DEF AllObjs
    <3>4. Tops(r4) = Tops(m)
      BY <2>12, <2>14 DEF Tops, ListHeads, Freelists
    <3>5. \A d : Of(r4, d) = Of(m, d)
      BY <2>14 DEF Of
    <3> QED BY <3>1, <3>2, <3>3, <3>4, <3>5
  <2>16. obj \in AllObjs(m) /\ \A t \in DOMAIN m.slab : obj \in Objs(m, t) => t = s
    <3>1. obj \in AllObjs(m)
      BY <2>1 DEF AllObjs
    <3>2. \A t \in DOMAIN m.slab : obj \in Objs(m, t) => obj[2] = t
      BY Kinds
    <3>3. obj[2] = s
      BY <2>1, <3>2
    <3> QED BY <3>1, <3>2, <3>3
  <2>17. Typed(r4)
    <3>1. m.slab[s].num_objs_inuse + 1 \in Nat
      <4>1. m.slab[s].num_objs_inuse \in Nat
        BY <2>0 DEF Typed
      <4> QED BY <4>1
    <3>2. \A t \in DOMAIN r4.slab :
            /\ r4.slab[t] = [cache |-> r4.slab[t].cache, num_objs_inuse |-> r4.slab[t].num_objs_inuse,
                             node |-> r4.slab[t].node]
            /\ r4.slab[t].cache \in 1 .. Len(r4.cache) /\ r4.slab[t].num_objs_inuse \in Nat
      <4> TAKE t \in DOMAIN r4.slab
      <4>1. CASE t = s
        BY <1>1, <2>7, <2>12, <3>1, <4>1
      <4>2. CASE t # s
        <5>1. t \in DOMAIN m.slab /\ r4.slab[t] = m.slab[t]
          BY <2>14, <4>2
        <5> QED BY <2>0, <2>12, <5>1 DEF Typed
      <4> QED BY <4>1, <4>2
    <3> QED BY <2>0, <2>7, <2>12, <3>2 DEF Typed
  <2>18. Headed(r4, new)
    <3>1. \A n \in Heads(m) : n # obj
      BY <2>1
    <3>2. \A t \in DOMAIN m.slab : m.slab[t].node # obj
      BY <3>1 DEF Heads
    <3>3. ASSUME NEW t \in DOMAIN m.slab, m.slab[t].cache # SLABS
          PROVE  \E u \in Of(r4, SLABS) : r4.slab[t].node \in Objs(r4, u) \ new
      <4>1. PICK u \in Of(m, SLABS) : m.slab[t].node \in Objs(m, u) \ taken
        BY <2>0, <3>3 DEF Headed
      <4>2. u \in DOMAIN m.slab
        BY <4>1 DEF Of
      <4> QED BY <2>14, <2>15, <3>2, <4>1, <4>2
    <3> QED BY <2>0, <2>14, <3>3 DEF Headed
  <2>19. \A t \in DOMAIN m.slab :
           Used(r4, new, t) = IF t = s THEN Used(m, taken, s) \cup {obj} ELSE Used(m, taken, t)
    BY <2>1, <2>15, <2>16 DEF Used
  <2>20. Counted(r4, new)
    <3>1. ASSUME NEW t \in DOMAIN r4.slab PROVE r4.slab[t].num_objs_inuse = Cardinality(Used(r4, new, t))
      <4>1. CASE t = s
        <5>1. IsFiniteSet(Used(m, taken, s)) /\ m.slab[s].num_objs_inuse = Cardinality(Used(m, taken, s))
          BY UsedFacts
        <5>2. obj \notin Used(m, taken, s)
          BY <2>1 DEF Used
        <5>3. Cardinality(Used(m, taken, s) \cup {obj}) = Cardinality(Used(m, taken, s)) + 1
          BY <5>1, <5>2, FS_AddElement
        <5> QED BY <2>14, <2>19, <4>1, <5>1, <5>3
      <4>2. CASE t # s
        BY <2>0, <2>14, <2>19, <4>2 DEF Counted
      <4> QED BY <4>1, <4>2
    <3> QED BY <2>0, <2>12, <2>15, <3>1 DEF Counted
  <2>21. new \subseteq AllObjs(r4) /\ chain \subseteq new
    BY <2>0, <2>15, <2>16
  <2>22. dest = ListHead(c, ListIn(r4, s))
    <3>1. r4.slab[s].num_objs_inuse # 0
      <4>1. m.slab[s].num_objs_inuse \in Nat
        BY <2>0 DEF Typed
      <4> QED BY <2>14, <4>1
    <3>2. Destination(r2, s) = ListIn(r4, s)
      BY <2>12, <3>1 DEF Destination, ListIn
    <3> QED BY <3>2 DEF dest
  <2>23. Placed(r4, own4, new, chain)
    <3>1. DOMAIN own4 = Tops(r4) \cup Heads(r4) \cup AllObjs(r4)
      BY <2>0, <2>13, <2>15 DEF Placed
    <3>2. ASSUME NEW n \in Tops(r4) PROVE own4[n] = n
      <4>1. n # obj /\ n # node
        BY <1>1, <2>15, <2>16, Kinds
      <4> QED BY <2>0, <2>13, <2>15, <4>1 DEF Placed
    <3>3. ASSUME NEW t \in DOMAIN r4.slab
          PROVE  own4[r4.slab[t].node] = ListHead(r4.slab[t].cache, ListIn(r4, t))
      <4>1. CASE t = s
        BY <2>13, <2>14, <2>22, <4>1
      <4>2. CASE t # s
        <5>1. t \in DOMAIN m.slab /\ r4.slab[t] = m.slab[t] /\ ListIn(r4, t) = ListIn(m, t)
          BY <2>14, <4>2 DEF ListIn
        <5>2. m.slab[t].node # node /\ m.slab[t].node # obj /\ m.slab[t].node \in DOMAIN own
          <6>1. m.slab[t].node \in Heads(m) /\ m.slab[t].node \in DOMAIN own
            BY <5>1, HeaderFacts
          <6> QED BY <2>0, <2>1, <4>2, <5>1, <6>1 DEF Headed, node
        <5>3. own[m.slab[t].node] = ListHead(m.slab[t].cache, ListIn(m, t))
          BY <5>1, HeaderFacts
        <5> QED BY <2>13, <5>1, <5>2, <5>3
      <4> QED BY <4>1, <4>2
    <3>4. ASSUME NEW t \in DOMAIN r4.slab, NEW x \in Objs(r4, t) \ Heads(r4)
          PROVE  own4[x] = IF x \in chain THEN Chain ELSE IF x \in new THEN x ELSE Freelist(t)
      <4>1. t \in DOMAIN m.slab /\ x \in Objs(m, t) \ Heads(m) /\ x \in DOMAIN own
        <5>1. t \in DOMAIN m.slab /\ x \in Objs(m, t) \ Heads(m)
          BY <2>14, <2>15
        <5>2. x \in AllObjs(m)
          BY <5>1 DEF AllObjs
        <5> QED BY <2>0, <5>1, <5>2 DEF Placed
      <4>2. CASE x = obj
        BY <2>0, <2>1, <2>13, <4>2
      <4>3. CASE x # obj
        <5>1. x # node /\ own4[x] = own[x]
          BY <1>1, <2>13, <4>1, <4>3
        <5> QED BY <2>0, <4>1, <4>3, <5>1 DEF Placed
      <4> QED BY <4>2, <4>3
    <3> QED BY <3>1, <3>2, <3>3, <3>4 DEF Placed
  <2>24. Sane(r4, new, chain)
    BY <2>12, <2>17, <2>18, <2>20, <2>21, <2>23 DEF Sane, WF
  <2>25. o.obj = obj /\ o.mem = r4
    BY <1>2, <1>4 DEF r4
  <2> QED BY <2>1, <2>12, <2>14, <2>24, <2>25 DEF Taken
<1> QED BY <1>3, <1>4

-----------------------------------------------------------------------------
(* cache_grow's part on one slab.                                          *)

\* The memory after each turn of cache_grow's loop, as the function of NewSlab.
Links(start, list, s, n, w) ==
  w = [i \in 0 .. n |-> IF i = 0 THEN start ELSE ListAppend(w[i - 1], list, Obj(s, i))]

LEMMA LinksAre ==
  ASSUME NEW start, NEW list, NEW s, NEW n \in Nat, NEW w, Links(start, list, s, n, w)
  PROVE  w[0] = start /\ \A i \in 1 .. n : w[i] = ListAppend(w[i - 1], list, Obj(s, i))
<1>1. \A i \in 0 .. n : w[i] = IF i = 0 THEN start ELSE ListAppend(w[i - 1], list, Obj(s, i))
  BY Zenon DEF Links
<1>2. 0 \in 0 .. n /\ \A i \in 1 .. n : i \in 0 .. n /\ i # 0
  OBVIOUS
<1> QED BY <1>1, <1>2

LEMMA LinksExist ==
  ASSUME NEW start, NEW list, NEW s, NEW size \in Nat
  PROVE  \E w : Links(start, list, s, size, w)
<1> DEFINE T == {n \in Nat : ~ \E w : Links(start, list, s, n, w)}
<1> SUFFICES ASSUME T # {} PROVE FALSE
  OBVIOUS
<1>1. PICK n \in T : \A k \in T : n <= k
  BY LeastNat
<1>2. CASE n = 0
  <2> DEFINE w == [k \in 0 .. 0 |-> start]
  <2>1. w = [k \in 0 .. 0 |-> IF k = 0 THEN start ELSE ListAppend(w[k - 1], list, Obj(s, k))]
    OBVIOUS
  <2> QED BY <1>1, <1>2, <2>1 DEF Links
<1>3. CASE n # 0
  <2>1. n - 1 \in Nat /\ n - 1 \notin T
    BY <1>1, <1>3
  <2>2. PICK v : Links(start, list, s, n - 1, v)
    BY <2>1
  <2>3. v[0] = start /\ \A k \in 1 .. n - 1 : v[k] = ListAppend(v[k - 1], list, Obj(s, k))
    BY <2>1, <2>2, LinksAre
  <2> DEFINE w == [k \in 0 .. n |-> IF k = n THEN ListAppend(v[n - 1], list, Obj(s, n)) ELSE v[k]]
  <2>4. ASSUME NEW k \in 0 .. n
        PROVE  w[k] = IF k = 0 THEN start ELSE ListAppend(w[k - 1], list, Obj(s, k))
    <3>1. CASE k = 0
      BY <1>3, <2>3, <3>1
    <3>2. CASE k = n
      <4>1. k - 1 \in 0 .. n /\ k - 1 # n
        BY <1>3, <3>2
      <4> QED BY <1>3, <3>2, <4>1
    <3>3. CASE k \in 1 .. n - 1
      <4>1. k - 1 \in 0 .. n /\ k - 1 # n /\ k # n /\ k # 0
        BY <3>3
      <4> QED BY <2>3, <3>3, <4>1
    <3> QED BY <3>1, <3>2, <3>3
  <2>5. w = [k \in 0 .. n |-> w[k]]
    OBVIOUS
  <2> HIDE DEF w
  <2>6. w = [k \in 0 .. n |-> IF k = 0 THEN start ELSE ListAppend(w[k - 1], list, Obj(s, k))]
    BY <2>4, <2>5, Zenon
  <2>7. Links(start, list, s, n, w)
    BY <2>6 DEF Links
  <2> QED BY <1>1, <2>7
<1> QED BY <1>2, <1>3

\* The first n objects of slab s put on a list.
With(own, list, s, n) ==
  [x \in DOMAIN own \cup {Obj(s, i) : i \in 1 .. n} |-> IF x \in DOMAIN own THEN own[x] ELSE list]

LEMMA LinkedFacts ==
  ASSUME NEW start, NEW own, NEW list \in DOMAIN own, NEW s, NEW size \in Nat, NEW w,
         Owned(start, own), own[list] = list, Links(start, list, s, size, w),
         \A i \in 1 .. size : Obj(s, i) \notin DOMAIN own
  PROVE  /\ Owned(w[size], With(own, list, s, size))
         /\ w[size].slab = start.slab /\ w[size].cache = start.cache
<1> DEFINE Fine(n) == /\ Owned(w[n], With(own, list, s, n))
                      /\ w[n].slab = start.slab /\ w[n].cache = start.cache
           T == {n \in 0 .. size : ~Fine(n)}
<1> SUFFICES ASSUME T # {} PROVE FALSE
  <2>1. size \in 0 .. size
    OBVIOUS
  <2> QED BY <2>1
<1>1. PICK n \in T : \A k \in T : n <= k
  <2>1. T \subseteq Nat
    OBVIOUS
  <2> HIDE DEF T
  <2> QED BY <2>1, LeastNat
<1>2. w[0] = start /\ \A i \in 1 .. size : w[i] = ListAppend(w[i - 1], list, Obj(s, i))
  BY LinksAre
<1>3. CASE n = 0
  <2>1. {Obj(s, i) : i \in 1 .. 0} = {}
    OBVIOUS
  <2>2. own = [x \in DOMAIN own |-> own[x]]
    BY DEF Owned
  <2>3. With(own, list, s, 0) = own
    BY <2>1, <2>2 DEF With
  <2> QED BY <1>1, <1>2, <1>3, <2>3
<1>4. CASE n # 0
  <2> DEFINE new == Obj(s, n)
             before == With(own, list, s, n - 1)
             after == With(own, list, s, n)
  <2>1. n \in 1 .. size /\ n - 1 \in 0 .. size /\ n - 1 \notin T
    BY <1>1, <1>4
  <2>2. Fine(n - 1) /\ w[n] = ListAppend(w[n - 1], list, new)
    BY <1>2, <2>1
  <2>3. \A i \in 1 .. n - 1 : Obj(s, i) # new
    <3> TAKE i \in 1 .. n - 1
    <3>1. Obj(s, i)[3] = i /\ new[3] = n
      BY Tags
    <3> QED BY <2>1, <3>1
  <2>4. /\ DOMAIN before = DOMAIN own \cup {Obj(s, i) : i \in 1 .. n - 1}
        /\ before[list] = list /\ list \in DOMAIN before
        /\ \A x \in DOMAIN before : before[x] = IF x \in DOMAIN own THEN own[x] ELSE list
    BY DEF With
  <2>5. new \notin DOMAIN own /\ new \notin DOMAIN before /\ new # list
    BY <2>1, <2>3, <2>4
  <2>6. DOMAIN after = DOMAIN before \cup {new}
    <3>1. {Obj(s, i) : i \in 1 .. n} = {Obj(s, i) : i \in 1 .. n - 1} \cup {new}
      <4>1. \A i \in 1 .. n : i \in 1 .. n - 1 \/ i = n
        BY <2>1
      <4>2. \A i \in 1 .. n - 1 : i \in 1 .. n
        BY <2>1
      <4>3. n \in 1 .. n
        BY <2>1
      <4> QED BY <4>1, <4>2, <4>3
    <3> QED BY <2>4, <3>1 DEF With
  <2>7. after = Store(before, new, list)
    <3>1. \A x \in DOMAIN after : after[x] = IF x = new THEN list ELSE before[x]
      <4> TAKE x \in DOMAIN after
      <4>1. after[x] = IF x \in DOMAIN own THEN own[x] ELSE list
        BY DEF With
      <4> QED BY <2>4, <2>5, <2>6, <4>1
    <3>2. after = [x \in DOMAIN after |-> after[x]]
      BY DEF With
    <3> HIDE DEF after, before
    <3> QED BY <2>6, <3>1, <3>2 DEF Store
  <2> HIDE DEF before, after, new, T
  <2>8. Alone(before, new)
    BY <2>5 DEF Alone
  <2>9. Owned(w[n - 1], before) /\ w[n - 1].slab = start.slab /\ w[n - 1].cache = start.cache
    BY <2>2 DEF before
  <2>10. /\ Owned(ListAppend(w[n - 1], list, new), Store(before, new, list))
         /\ ListAppend(w[n - 1], list, new).slab = w[n - 1].slab
         /\ ListAppend(w[n - 1], list, new).cache = w[n - 1].cache
    BY <2>4, <2>5, <2>8, <2>9, OwnedAppend
  <2>11. Fine(n)
    BY <2>2, <2>7, <2>9, <2>10 DEF after
  <2> QED BY <1>1, <2>11 DEF T
<1> QED BY <1>3, <1>4

\* Where a header may come from: vmalloc for slabs_cache, else a fresh object of it.
HeaderFor(m, c, taken, chain, h) ==
  \/ c = SLABS /\ h = OwnHeader(NextUnused(m))
  \/ c # SLABS /\ h \in taken \ chain /\ \E t \in Of(m, SLABS) : h \in Objs(m, t)

LEMMA UnusedFacts ==
  ASSUME NEW m, Unused(m) # {}
  PROVE  NextUnused(m) \in 1 .. MaxSlabs /\ NextUnused(m) \notin DOMAIN m.slab
<1>1. Unused(m) \subseteq Nat
  BY DEF Unused
<1>2. \E s \in Unused(m) : \A t \in Unused(m) : s <= t
  BY <1>1, LeastNat
<1>3. NextUnused(m) \in Unused(m)
  BY <1>2 DEF NextUnused
<1> QED BY <1>3 DEF Unused

\* The memory of NewSlab before it touches a list.
Bare(m, c, s, h) ==
  [m EXCEPT !.slab = Store(@, s, [cache |-> c, num_objs_inuse |-> 0, node |-> h]),
            !.cache[c].total_num_slabs = @ + 1,
            !.cache[c].total_num_objs = @ + PerSlab[c]]

LEMMA BareFacts ==
  ASSUME NEW m, NEW own, Owned(m, own), Typed(m), NEW c \in 1 .. Len(m.cache),
         NEW s, s \notin DOMAIN m.slab, NEW h
  PROVE  /\ Owned(Bare(m, c, s, h), own)
         /\ Bare(m, c, s, h).slab = Store(m.slab, s, [cache |-> c, num_objs_inuse |-> 0, node |-> h])
         /\ Bare(m, c, s, h).cache =
              [m.cache EXCEPT ![c] = [total_num_objs |-> m.cache[c].total_num_objs + PerSlab[c],
                                      total_num_slabs |-> m.cache[c].total_num_slabs + 1]]
<1> DEFINE objs == m.cache[c].total_num_objs
           slabs == m.cache[c].total_num_slabs
           slab == Store(m.slab, s, [cache |-> c, num_objs_inuse |-> 0, node |-> h])
           b1 == [m EXCEPT !.slab = slab]
           b2 == [b1 EXCEPT !.cache[c].total_num_slabs = slabs + 1]
           b3 == [b2 EXCEPT !.cache[c].total_num_objs = objs + PerSlab[c]]
           two == [m.cache EXCEPT ![c].total_num_slabs = slabs + 1]
           both == [m.cache EXCEPT ![c] = [total_num_objs |-> objs + PerSlab[c], total_num_slabs |-> slabs + 1]]
<1>1. Bare(m, c, s, h) = b3
  BY DEF Bare
<1> HIDE DEF slab, objs, slabs
<1>2. b1 = [next |-> m.next, prev |-> m.prev, slab |-> slab, cache |-> m.cache]
  BY DEF Owned, Lists
<1> HIDE DEF b1
<1>3. b2 = [next |-> m.next, prev |-> m.prev, slab |-> slab, cache |-> two]
  <2>1. b2 = [b1 EXCEPT !.cache = [b1.cache EXCEPT ![c].total_num_slabs = slabs + 1]]
    OBVIOUS
  <2>2. b1.cache = m.cache
    BY <1>2
  <2>3. b2 = [b1 EXCEPT !.cache = two]
    BY <2>1, <2>2
  <2> HIDE DEF b2, two
  <2> QED BY <1>2, <2>3
<1> HIDE DEF b2
<1>4. m.cache \in [1 .. Len(m.cache) -> [total_num_objs : Nat, total_num_slabs : Nat]]
  <2> DEFINE R == [total_num_objs : Nat, total_num_slabs : Nat]
  <2>1. m.cache \in Seq(R)
    BY DEF Typed
  <2> HIDE DEF R
  <2>2. m.cache \in [1 .. Len(m.cache) -> R]
    BY <2>1
  <2> QED BY <2>2 DEF R
<1>5. two = [m.cache EXCEPT ![c] = [total_num_objs |-> objs, total_num_slabs |-> slabs + 1]]
  <2>1. m.cache[c] \in [total_num_objs : Nat, total_num_slabs : Nat]
    BY ONLY <1>4, c \in 1 .. Len(m.cache)
  <2>2. m.cache[c] = [total_num_objs |-> objs, total_num_slabs |-> slabs]
    BY ONLY <2>1 DEF objs, slabs
  <2> QED BY ONLY <2>2
<1>6. [two EXCEPT ![c].total_num_objs = objs + PerSlab[c]] = both
  <2> DEFINE rec == [total_num_objs |-> objs, total_num_slabs |-> slabs + 1]
             more == [total_num_objs |-> objs + PerSlab[c], total_num_slabs |-> slabs + 1]
  <2>1. two = [x \in 1 .. Len(m.cache) |-> IF x = c THEN rec ELSE m.cache[x]]
    <3> HIDE DEF two, rec
    <3> QED BY <1>4, <1>5 DEF rec
  <2>2. [rec EXCEPT !.total_num_objs = objs + PerSlab[c]] = more
    OBVIOUS
  <2>3. both = [x \in 1 .. Len(m.cache) |-> IF x = c THEN more ELSE m.cache[x]]
    BY <1>4
  <2> HIDE DEF rec, more, two, both
  <2>4. [two EXCEPT ![c].total_num_objs = objs + PerSlab[c]] =
          [x \in 1 .. Len(m.cache) |-> IF x = c THEN more ELSE m.cache[x]]
    BY <2>1, <2>2
  <2> QED BY <2>3, <2>4
<1>7. b3 = [next |-> m.next, prev |-> m.prev, slab |-> slab, cache |-> both]
  <2> HIDE DEF two, both
  <2>1. b3 = [b2 EXCEPT !.cache = [b2.cache EXCEPT ![c].total_num_objs = objs + PerSlab[c]]]
    OBVIOUS
  <2>2. b2.cache = two
    BY <1>3
  <2>3. b3 = [b2 EXCEPT !.cache = both]
    BY <1>6, <2>1, <2>2
  <2> HIDE DEF b3
  <2> QED BY <1>3, <2>3
<1> HIDE DEF two, both
<1> HIDE DEF b3
<1>8. Owned(b3, own)
  BY <1>7, OwnedFrame
<1> QED BY <1>1, <1>7, <1>8 DEF slab, both, objs, slabs

\* What NewSlab makes of the lists: r has a slab s more, with its header at h.
Grown(m, own, c, s, h, r) ==
  /\ h \notin Heads(m) \cup Tops(m) /\ h # Freelist(s) /\ \A i : h # Obj(s, i)
  /\ \A i : Obj(s, i) \notin DOMAIN own
  /\ r.slab = Store(m.slab, s, [cache |-> c, num_objs_inuse |-> 0, node |-> h])
  /\ r.cache = [m.cache EXCEPT ![c] = [total_num_objs |-> m.cache[c].total_num_objs + PerSlab[c],
                                      total_num_slabs |-> m.cache[c].total_num_slabs + 1]]
  /\ \E own4 :
       /\ Owned(r, own4)
       /\ DOMAIN own4 = DOMAIN own \cup {h, Freelist(s)} \cup {Obj(s, i) : i \in 1 .. PerSlab[c]}
       /\ own4[h] = ListHead(c, "slabs_free") /\ own4[Freelist(s)] = Freelist(s)
       /\ \A i \in 1 .. PerSlab[c] : own4[Obj(s, i)] = Freelist(s)
       /\ \A x \in DOMAIN own \ {h} : own4[x] = own[x]

LEMMA NewSlabLists ==
  ASSUME NEW m, NEW own, NEW taken, NEW chain, WF(m, own, taken, chain),
         NEW c \in 1 .. Len(m.cache), NEW s, s = NextUnused(m), Unused(m) # {},
         NEW h, HeaderFor(m, c, taken, chain, h)
  PROVE  Grown(m, own, c, s, h, NewSlab(m, c, h))
<1> DEFINE n == PerSlab[c]
           F == Freelist(s)
           L == ListHead(c, "slabs_free")
           bare == Bare(m, c, s, h)
           m1 == ListInit(bare, h)
           own1 == Store(own, h, h)
           m2 == ListInit(m1, F)
           own2 == Store(own1, F, F)
           own3 == With(own2, F, s, n)
<1>0. /\ Owned(m, own) /\ Typed(m) /\ Placed(m, own, taken, chain) /\ taken \subseteq AllObjs(m)
      /\ DOMAIN own = Tops(m) \cup Heads(m) \cup AllObjs(m)
      /\ s \in 1 .. MaxSlabs /\ s \notin DOMAIN m.slab
  BY UnusedFacts DEF WF, Placed
<1>1. /\ \A x \in DOMAIN own : x[1] = "slab" => x[2] # s
      /\ \A x \in DOMAIN own : x[1] = "obj" => x[2] # s
      /\ \A x \in DOMAIN own : x # F
  <2>1. \A x \in Tops(m) : x[1] # "slab" /\ x[1] # "obj" /\ x # F
    <3>1. \A t \in DOMAIN m.slab : Freelist(t) # F
      BY <1>0, Distinct
    <3>2. \A d, l : l \in SlabLists => ListHead(d, l) # F
      BY Tags, Kinds
    <3>3. Chain # F
      BY Tags
    <3> QED BY <3>1, <3>2, <3>3, Kinds DEF Tops, ListHeads, Freelists
  <2>2. \A x \in AllObjs(m) : x[1] = "obj" /\ x[2] # s /\ x # F
    BY <1>0, Kinds, Tags
  <2>3. ASSUME NEW x \in Heads(m), x \notin AllObjs(m) PROVE x[1] = "slab" /\ x[2] # s /\ x # F
    BY <1>0, <2>3, Kinds, Tags
  <2> QED BY <1>0, <2>1, <2>2, <2>3
<1>2. \A i : Obj(s, i) \notin DOMAIN own
  BY <1>1, Tags
<1>3. /\ Alone(own, h) /\ h \notin Heads(m) \cup Tops(m) /\ h # F /\ \A i : h # Obj(s, i)
  <2>1. CASE h = OwnHeader(s)
    <3>1. h[1] = "slab" /\ h[2] = s
      BY <2>1, Tags
    <3>2. h \notin DOMAIN own
      BY <1>1, <3>1
    <3>3. h # F /\ \A i : h # Obj(s, i)
      BY <3>1, Tags
    <3> QED BY <1>0, <3>2, <3>3 DEF Alone
  <2>2. CASE h \in taken \ chain
    <3>1. h \in AllObjs(m) /\ Alone(own, h) /\ h \in DOMAIN own
      BY <1>0, <2>2, Classes
    <3>2. h \notin Heads(m) \cup Tops(m)
      BY <2>2, <3>1, Kinds
    <3> QED BY <1>1, <1>2, <3>1, <3>2
  <2> QED BY <2>1, <2>2 DEF HeaderFor
<1>4. /\ Owned(bare, own)
      /\ bare.slab = Store(m.slab, s, [cache |-> c, num_objs_inuse |-> 0, node |-> h])
      /\ bare.cache = [m.cache EXCEPT ![c] = [total_num_objs |-> m.cache[c].total_num_objs + PerSlab[c],
                                              total_num_slabs |-> m.cache[c].total_num_slabs + 1]]
  BY <1>0, BareFacts
<1>5. n \in Nat
  <2>1. c \in 1 .. MaxCaches
    <3>1. Len(m.cache) \in CACHES .. MaxCaches
      BY <1>0 DEF Typed
    <3> QED BY <3>1, SlabAssumption DEF CACHES
  <2> QED BY <2>1, SlabAssumption
<1>6. PICK w : Links(m2, F, s, n, w) /\ NewSlab(m, c, h) = ListAppend(w[n], L, h)
  <2> DEFINE v == CHOOSE v : v = [i \in 0 .. n |-> IF i = 0 THEN m2 ELSE ListAppend(v[i - 1], F, Obj(s, i))]
  <2>1. NewSlab(m, c, h) = ListAppend(v[n], L, h)
    BY Zenon DEF NewSlab, Bare
  <2>2. PICK w : Links(m2, F, s, n, w)
    BY <1>5, LinksExist
  <2>3. Links(m2, F, s, n, v)
    BY <2>2, Zenon DEF Links
  <2> HIDE DEF v
  <2> QED BY <2>1, <2>3
<1> HIDE DEF n, F, bare
<1>7. Owned(m1, own1) /\ m1.slab = bare.slab /\ m1.cache = bare.cache
  BY <1>3, <1>4, OwnedInit
<1>8. DOMAIN own1 = DOMAIN own \cup {h} /\ own1[h] = h /\ \A x \in DOMAIN own \ {h} : own1[x] = own[x]
  BY DEF Store
<1> HIDE DEF m1, own1
<1>9. Owned(m2, own2) /\ m2.slab = bare.slab /\ m2.cache = bare.cache
  <2>1. Alone(own1, F)
    BY <1>1, <1>3, <1>8 DEF Alone
  <2>2. Owned(m2, own2) /\ m2.slab = m1.slab /\ m2.cache = m1.cache
    BY ONLY <1>7, <2>1, OwnedInit
  <2> QED BY <1>7, <2>2
<1>10. /\ DOMAIN own2 = DOMAIN own \cup {h, F} /\ own2[h] = h /\ own2[F] = F
       /\ \A x \in DOMAIN own \ {h} : own2[x] = own[x]
  <2>1. DOMAIN own2 = DOMAIN own1 \cup {F} /\ own2[F] = F /\ \A x \in DOMAIN own1 \ {F} : own2[x] = own1[x]
    BY DEF Store
  <2> HIDE DEF own2
  <2> QED BY <1>1, <1>3, <1>8, <2>1
<1> HIDE DEF m2, own2
<1>11. \A i : Obj(s, i) \notin DOMAIN own2
  <2>1. \A i : Obj(s, i) # F
    BY Tags DEF F
  <2> QED BY <1>2, <1>3, <1>10, <2>1
<1>12. Owned(w[n], own3) /\ w[n].slab = m2.slab /\ w[n].cache = m2.cache
  <2>1. F \in DOMAIN own2 /\ own2[F] = F
    BY <1>10
  <2> QED BY <1>5, <1>6, <1>9, <1>11, <2>1, LinkedFacts
<1>13. /\ DOMAIN own3 = DOMAIN own \cup {h, F} \cup {Obj(s, i) : i \in 1 .. n}
       /\ own3[h] = h /\ own3[F] = F /\ \A i \in 1 .. n : own3[Obj(s, i)] = F
       /\ \A x \in DOMAIN own \ {h} : own3[x] = own[x]
  <2>1. /\ DOMAIN own3 = DOMAIN own2 \cup {Obj(s, i) : i \in 1 .. n}
        /\ \A x \in DOMAIN own3 : own3[x] = IF x \in DOMAIN own2 THEN own2[x] ELSE F
    BY DEF With
  <2> HIDE DEF own3
  <2>2. DOMAIN own3 = DOMAIN own \cup {h, F} \cup {Obj(s, i) : i \in 1 .. n}
    BY <1>10, <2>1
  <2>3. \A x \in DOMAIN own2 : own3[x] = own2[x]
    BY <2>1
  <2>4. \A i \in 1 .. n : own3[Obj(s, i)] = F
    BY <1>11, <2>1
  <2>5. own3[h] = h /\ own3[F] = F /\ \A x \in DOMAIN own \ {h} : own3[x] = own[x]
    BY <1>10, <2>3
  <2> QED BY <2>2, <2>4, <2>5
<1> HIDE DEF own3
<1> DEFINE own4 == Store(own3, h, L)
<1>14. L \in Tops(m) /\ L \in DOMAIN own /\ own[L] = L /\ L # h
  <2>1. L \in Tops(m)
    BY DEF Tops, ListHeads, Freelists, SlabLists
  <2> QED BY <1>0, <1>3, <2>1 DEF Placed
<1> HIDE DEF L
<1>15. L \in DOMAIN own3 /\ own3[L] = L
  BY <1>13, <1>14
<1>16. Alone(own3, h)
  <2>1. \A x \in DOMAIN own \ {h} : own[x] # h
    <3>1. \A x \in DOMAIN own : own[x] \in DOMAIN own
      BY <1>0 DEF Owned
    <3> QED BY <1>3, <3>1 DEF Alone
  <2>2. ASSUME NEW x \in DOMAIN own3, x # h PROVE own3[x] # h
    BY <1>3, <1>13, <2>1, <2>2
  <2> QED BY <1>13, <2>2 DEF Alone
<1>17. /\ Owned(ListAppend(w[n], L, h), own4)
       /\ ListAppend(w[n], L, h).slab = w[n].slab /\ ListAppend(w[n], L, h).cache = w[n].cache
  <2>1. h # L
    BY <1>14
  <2> QED BY ONLY <1>12, <1>15, <1>16, <2>1, OwnedAppend
<1>18. /\ DOMAIN own4 = DOMAIN own \cup {h, F} \cup {Obj(s, i) : i \in 1 .. n}
       /\ own4[h] = L /\ own4[F] = F /\ \A i \in 1 .. n : own4[Obj(s, i)] = F
       /\ \A x \in DOMAIN own \ {h} : own4[x] = own[x]
  <2>1. DOMAIN own4 = DOMAIN own3 \cup {h} /\ own4[h] = L /\ \A x \in DOMAIN own3 \ {h} : own4[x] = own3[x]
    BY DEF Store
  <2> HIDE DEF own4
  <2>2. DOMAIN own4 = DOMAIN own \cup {h, F} \cup {Obj(s, i) : i \in 1 .. n}
    BY <1>13, <2>1
  <2>3. \A i \in 1 .. n : own4[Obj(s, i)] = F
    <3> TAKE i \in 1 .. n
    <3>1. Obj(s, i) # h /\ Obj(s, i) \in DOMAIN own3
      BY <1>3, <1>13
    <3> QED BY <1>13, <2>1, <3>1
  <2> QED BY <1>3, <1>13, <2>1, <2>2, <2>3
<1> HIDE DEF own4
<1>19. PICK r : r = NewSlab(m, c, h)
  OBVIOUS
<1>20. /\ Owned(r, own4)
       /\ DOMAIN own4 = DOMAIN own \cup {h, Freelist(s)} \cup {Obj(s, i) : i \in 1 .. PerSlab[c]}
       /\ own4[h] = ListHead(c, "slabs_free") /\ own4[Freelist(s)] = Freelist(s)
       /\ \A i \in 1 .. PerSlab[c] : own4[Obj(s, i)] = Freelist(s)
       /\ \A x \in DOMAIN own \ {h} : own4[x] = own[x]
  BY <1>6, <1>17, <1>18, <1>19 DEF n, F, L
<1>21. /\ h \notin Heads(m) \cup Tops(m) /\ h # Freelist(s) /\ \A i : h # Obj(s, i)
       /\ \A i : Obj(s, i) \notin DOMAIN own
       /\ r.slab = bare.slab /\ r.cache = bare.cache
  BY <1>2, <1>3, <1>6, <1>9, <1>12, <1>17, <1>19 DEF F
<1>22. Grown(m, own, c, s, h, r)
  BY ONLY <1>4, <1>20, <1>21 DEF Grown
<1> QED BY <1>19, <1>22

LEMMA NewSlabFacts ==
  ASSUME NEW m, NEW own, NEW taken, NEW chain, WF(m, own, taken, chain),
         NEW c \in 1 .. Len(m.cache), Unused(m) # {}, NEW h, HeaderFor(m, c, taken, chain, h)
  PROVE  /\ Sane(NewSlab(m, c, h), taken \ {h}, chain)
         /\ Len(NewSlab(m, c, h).cache) = Len(m.cache)
<1>a. PICK s : s = NextUnused(m)
  OBVIOUS
<1>b. Grown(m, own, c, s, h, NewSlab(m, c, h))
  BY <1>a, NewSlabLists
<1> DEFINE n == PerSlab[c]
           F == Freelist(s)
           r == NewSlab(m, c, h)
           rec == [cache |-> c, num_objs_inuse |-> 0, node |-> h]
           count == [total_num_objs |-> m.cache[c].total_num_objs + PerSlab[c],
                     total_num_slabs |-> m.cache[c].total_num_slabs + 1]
           fresh == {Obj(s, i) : i \in 1 .. n}
           rest == taken \ {h}
<1>0. /\ Owned(m, own) /\ Typed(m) /\ Headed(m, taken) /\ Counted(m, taken)
      /\ taken \subseteq AllObjs(m) /\ chain \subseteq taken /\ Placed(m, own, taken, chain)
  BY DEF WF
<1>1. s \in 1 .. MaxSlabs /\ s \notin DOMAIN m.slab
  BY <1>a, UnusedFacts
<1>2. /\ h \notin Heads(m) \cup Tops(m) /\ h # F /\ \A i : h # Obj(s, i)
      /\ \A i : Obj(s, i) \notin DOMAIN own
      /\ r.slab = Store(m.slab, s, rec)
      /\ r.cache = [m.cache EXCEPT ![c] = count]
      /\ \E own4 :
           /\ Owned(r, own4)
           /\ DOMAIN own4 = DOMAIN own \cup {h, F} \cup fresh
           /\ own4[h] = ListHead(c, "slabs_free") /\ own4[F] = F
           /\ \A i \in 1 .. n : own4[Obj(s, i)] = F
           /\ \A x \in DOMAIN own \ {h} : own4[x] = own[x]
  BY <1>b DEF Grown
<1>3. PICK own4 :
           /\ Owned(r, own4)
           /\ DOMAIN own4 = DOMAIN own \cup {h, F} \cup fresh
           /\ own4[h] = ListHead(c, "slabs_free") /\ own4[F] = F
           /\ \A i \in 1 .. n : own4[Obj(s, i)] = F
           /\ \A x \in DOMAIN own \ {h} : own4[x] = own[x]
  BY <1>2
<1> HIDE DEF r
<1>4. m.cache \in [1 .. Len(m.cache) -> [total_num_objs : Nat, total_num_slabs : Nat]] /\ Len(m.cache) \in Nat
  <2> DEFINE R == [total_num_objs : Nat, total_num_slabs : Nat]
  <2>1. m.cache \in Seq(R)
    BY <1>0 DEF Typed
  <2> HIDE DEF R
  <2>2. m.cache \in [1 .. Len(m.cache) -> R] /\ Len(m.cache) \in Nat
    BY <2>1
  <2> QED BY <2>2 DEF R
<1>5. n \in Nat \ {0}
  <2>1. c \in 1 .. MaxCaches
    <3>1. Len(m.cache) \in CACHES .. MaxCaches
      BY <1>0 DEF Typed
    <3> QED BY <3>1, SlabAssumption DEF CACHES
  <2> QED BY <2>1, SlabAssumption
<1>6. /\ DOMAIN r.slab = DOMAIN m.slab \cup {s} /\ r.slab[s] = rec
      /\ \A t \in DOMAIN m.slab : r.slab[t] = m.slab[t]
      /\ r.slab = [t \in DOMAIN r.slab |-> r.slab[t]]
  <2>1. \A f : f = Store(m.slab, s, rec) =>
           /\ DOMAIN f = DOMAIN m.slab \cup {s} /\ f[s] = rec
           /\ \A t \in DOMAIN m.slab \ {s} : f[t] = m.slab[t]
           /\ f = [t \in DOMAIN f |-> f[t]]
    <3> HIDE DEF rec
    <3> QED BY DEF Store
  <2>2. r.slab = Store(m.slab, s, rec) /\ \A t \in DOMAIN m.slab : t # s
    BY <1>1, <1>2
  <2> HIDE DEF rec
  <2>a. PICK f : f = r.slab
    OBVIOUS
  <2>3. /\ DOMAIN f = DOMAIN m.slab \cup {s} /\ f[s] = rec
        /\ \A t \in DOMAIN m.slab \ {s} : f[t] = m.slab[t]
        /\ f = [t \in DOMAIN f |-> f[t]]
    BY ONLY <2>1, <2>2, <2>a
  <2> QED BY <2>2, <2>3, <2>a
<1>7. /\ r.slab[s].cache = c /\ r.slab[s].num_objs_inuse = 0 /\ r.slab[s].node = h
      /\ ListIn(r, s) = "slabs_free"
  BY <1>6 DEF ListIn
<1>8. /\ r.cache \in Seq([total_num_objs : Nat, total_num_slabs : Nat]) /\ Len(r.cache) = Len(m.cache)
      /\ r.cache[c] = count /\ \A d \in 1 .. Len(m.cache) \ {c} : r.cache[d] = m.cache[d]
  <2> DEFINE R == [total_num_objs : Nat, total_num_slabs : Nat]
  <2>1. count \in R
    <3>1. m.cache[c].total_num_objs \in Nat /\ m.cache[c].total_num_slabs \in Nat
      BY <1>4
    <3> QED BY <1>5, <3>1
  <2>2. m.cache \in [1 .. Len(m.cache) -> R] /\ m.cache \in Seq(R)
    BY <1>0, <1>4 DEF Typed
  <2> HIDE DEF R, count
  <2>3. [m.cache EXCEPT ![c] = count] \in Seq(R)
    BY <2>1, <2>2
  <2> QED BY <1>2, <2>2, <2>3, SMTT(30) DEF R
<1>9. /\ Objs(r, s) = fresh /\ \A t \in DOMAIN m.slab : Objs(r, t) = Objs(m, t)
      /\ Heads(r) = Heads(m) \cup {h} /\ AllObjs(r) = AllObjs(m) \cup fresh
      /\ Tops(r) = Tops(m) \cup {F}
      /\ Of(r, c) = Of(m, c) \cup {s} /\ \A d : d # c => Of(r, d) = Of(m, d)
      /\ \A t \in DOMAIN m.slab : ListIn(r, t) = ListIn(m, t)
  <2>1. Objs(r, s) = fresh
    BY <1>7 DEF Objs
  <2>2. \A t \in DOMAIN m.slab : Objs(r, t) = Objs(m, t)
    BY <1>6 DEF Objs
  <2> HIDE DEF fresh, F, rec
  <2>3. Heads(r) = Heads(m) \cup {h}
    BY <1>6, <1>7 DEF Heads
  <2>4. AllObjs(r) = AllObjs(m) \cup fresh
    BY <1>6, <2>1, <2>2 DEF AllObjs
  <2>5. Tops(r) = Tops(m) \cup {F}
    <3>1. Freelists(r) = Freelists(m) \cup {F}
      BY <1>6 DEF F, Freelists
    <3> QED BY <1>8, <3>1 DEF Tops
  <2>6. Of(r, c) = Of(m, c) \cup {s} /\ \A d : d # c => Of(r, d) = Of(m, d)
    BY <1>1, <1>6, <1>7 DEF Of
  <2>7. \A t \in DOMAIN m.slab : ListIn(r, t) = ListIn(m, t)
    BY <1>6 DEF ListIn
  <2> QED BY <2>1, <2>2, <2>3, <2>4, <2>5, <2>6, <2>7
<1>10. fresh \cap DOMAIN own = {} /\ h \notin fresh
  BY <1>2
<1>11. DOMAIN own = Tops(m) \cup Heads(m) \cup AllObjs(m)
  BY <1>0 DEF Placed
<1>12. \/ h = OwnHeader(s) /\ c = SLABS /\ h \notin AllObjs(m)
       \/ h \in taken \ chain /\ c # SLABS /\ \E t \in Of(m, SLABS) : h \in Objs(m, t)
  <2>1. OwnHeader(s)[1] = "slab" /\ \A x \in AllObjs(m) : x[1] = "obj"
    BY Tags, Kinds
  <2>2. OwnHeader(s) \notin AllObjs(m)
    BY <2>1
  <2> QED BY <1>a, <2>2 DEF HeaderFor
<1> HIDE DEF fresh, F, n, rec, count
<1>13. Typed(r)
  <2>1. \A t \in DOMAIN r.slab :
          /\ r.slab[t] = [cache |-> r.slab[t].cache, num_objs_inuse |-> r.slab[t].num_objs_inuse,
                          node |-> r.slab[t].node]
          /\ r.slab[t].cache \in 1 .. Len(r.cache) /\ r.slab[t].num_objs_inuse \in Nat
    <3> TAKE t \in DOMAIN r.slab
    <3>1. CASE t = s
      BY <1>6, <1>7, <1>8, <3>1 DEF rec
    <3>2. CASE t # s
      <4>1. t \in DOMAIN m.slab /\ r.slab[t] = m.slab[t]
        BY <1>6, <3>2
      <4> QED BY <1>0, <1>8, <4>1 DEF Typed
    <3> QED BY <3>1, <3>2
  <2>2. DOMAIN r.slab \subseteq 1 .. MaxSlabs /\ Len(r.cache) \in CACHES .. MaxCaches
    BY <1>0, <1>1, <1>6, <1>8 DEF Typed
  <2> QED BY <1>6, <1>8, <2>1, <2>2 DEF Typed
<1>14. Headed(r, rest)
  <2>1. \A t \in DOMAIN m.slab : m.slab[t].node \in Heads(m) /\ m.slab[t].node # h
    BY <1>2 DEF Heads
  <2>2. ASSUME NEW t \in DOMAIN r.slab, r.slab[t].cache # SLABS
        PROVE  \E u \in Of(r, SLABS) : r.slab[t].node \in Objs(r, u) \ rest
    <3>1. CASE t = s
      <4>1. PICK u \in Of(m, SLABS) : h \in Objs(m, u)
        BY <1>7, <1>12, <2>2, <3>1
      <4>2. u \in DOMAIN m.slab /\ u \in Of(r, SLABS)
        BY <1>9, <4>1 DEF Of
      <4> QED BY <1>7, <1>9, <3>1, <4>1, <4>2
    <3>2. CASE t # s
      <4>1. t \in DOMAIN m.slab /\ r.slab[t] = m.slab[t]
        BY <1>6, <3>2
      <4>2. PICK u \in Of(m, SLABS) : m.slab[t].node \in Objs(m, u) \ taken
        BY <1>0, <2>2, <4>1 DEF Headed
      <4>3. u \in DOMAIN m.slab /\ u \in Of(r, SLABS)
        BY <1>9, <4>2 DEF Of
      <4> QED BY <1>9, <4>1, <4>2, <4>3
    <3> QED BY <3>1, <3>2
  <2>3. ASSUME NEW t \in DOMAIN r.slab, r.slab[t].cache = SLABS PROVE r.slab[t].node = OwnHeader(t)
    <3>1. CASE t = s
      BY <1>7, <1>12, <2>3, <3>1
    <3>2. CASE t # s
      <4>1. t \in DOMAIN m.slab /\ r.slab[t] = m.slab[t]
        BY <1>6, <3>2
      <4> QED BY <1>0, <2>3, <4>1 DEF Headed
    <3> QED BY <3>1, <3>2
  <2>4. ASSUME NEW t \in DOMAIN r.slab, NEW u \in DOMAIN r.slab, r.slab[t].node = r.slab[u].node
        PROVE  t = u
    <3>1. \A v \in DOMAIN r.slab : v = s \/ (v \in DOMAIN m.slab /\ r.slab[v] = m.slab[v])
      BY <1>6
    <3> QED BY <1>0, <1>7, <2>1, <2>4, <3>1 DEF Headed
  <2> QED BY <2>2, <2>3, <2>4 DEF Headed
<1>15. /\ Used(r, rest, s) = {}
       /\ \A t \in DOMAIN m.slab : Used(r, rest, t) = Used(m, taken, t)
  <2>1. Used(r, rest, s) = {}
    <3>1. fresh \cap (Heads(m) \cup {h} \cup taken) = {}
      BY <1>0, <1>10, <1>11
    <3> QED BY <1>9, <3>1 DEF Used
  <2>2. ASSUME NEW t \in DOMAIN m.slab PROVE Used(r, rest, t) = Used(m, taken, t)
    <3>1. Objs(m, t) \subseteq AllObjs(m)
      BY DEF AllObjs
    <3> QED BY <1>9, <1>12, <3>1 DEF Used
  <2> QED BY <2>1, <2>2
<1>16. Counted(r, rest)
  <2>1. ASSUME NEW t \in DOMAIN r.slab PROVE r.slab[t].num_objs_inuse = Cardinality(Used(r, rest, t))
    <3>1. CASE t = s
      BY <1>7, <1>15, <3>1, FS_EmptySet
    <3>2. CASE t # s
      <4>1. t \in DOMAIN m.slab /\ r.slab[t] = m.slab[t]
        BY <1>6, <3>2
      <4> QED BY <1>0, <1>15, <4>1 DEF Counted
    <3> QED BY <3>1, <3>2
  <2>2. ASSUME NEW d \in 1 .. Len(r.cache)
        PROVE  /\ r.cache[d].total_num_slabs = Cardinality(Of(r, d))
               /\ r.cache[d].total_num_objs = PerSlab[d] * Cardinality(Of(r, d))
    <3>1. /\ m.cache[d].total_num_slabs = Cardinality(Of(m, d))
          /\ m.cache[d].total_num_objs = PerSlab[d] * Cardinality(Of(m, d))
      BY <1>0, <1>8 DEF Counted
    <3>2. CASE d = c
      <4>1. IsFiniteSet(Of(m, c)) /\ s \notin Of(m, c)
        <5>1. IsFiniteSet(1 .. MaxSlabs)
          BY SlabAssumption, FS_Interval
        <5>2. Of(m, c) \subseteq 1 .. MaxSlabs
          BY <1>0 DEF Of, Typed
        <5> QED BY <1>1, <5>1, <5>2, FS_Subset DEF Of
      <4>2. Cardinality(Of(m, c)) \in Nat /\ Cardinality(Of(r, c)) = Cardinality(Of(m, c)) + 1
        BY <1>9, <4>1, FS_AddElement, FS_CardinalityType
      <4>3. /\ r.cache[c].total_num_slabs = m.cache[c].total_num_slabs + 1
            /\ r.cache[c].total_num_objs = m.cache[c].total_num_objs + n
        BY <1>8 DEF count, n
      <4>4. n * (Cardinality(Of(m, c)) + 1) = n * Cardinality(Of(m, c)) + n
        BY <1>5, <4>2
      <4> QED BY <3>1, <3>2, <4>2, <4>3, <4>4 DEF n
    <3>3. CASE d # c
      BY <1>8, <1>9, <3>1, <3>3
    <3> QED BY <3>2, <3>3
  <2> QED BY <2>1, <2>2 DEF Counted
<1>17. rest \subseteq AllObjs(r) /\ chain \subseteq rest
  <2>1. h \notin chain
    BY <1>0, <1>12
  <2> QED BY <1>0, <1>9, <2>1
<1>18. Placed(r, own4, rest, chain)
  <2>1. DOMAIN own4 = Tops(r) \cup Heads(r) \cup AllObjs(r)
    BY <1>3, <1>9, <1>11
  <2>2. ASSUME NEW x \in Tops(r) PROVE own4[x] = x
    <3>1. CASE x = F
      BY <1>3, <3>1
    <3>2. CASE x \in Tops(m)
      <4>1. x # h /\ x \in DOMAIN own /\ own[x] = x
        BY <1>0, <1>2, <3>2 DEF Placed
      <4> QED BY <1>3, <4>1
    <3> QED BY <1>9, <3>1, <3>2
  <2>3. ASSUME NEW t \in DOMAIN r.slab
        PROVE  own4[r.slab[t].node] = ListHead(r.slab[t].cache, ListIn(r, t))
    <3>1. CASE t = s
      BY <1>3, <1>7, <3>1
    <3>2. CASE t # s
      <4>1. t \in DOMAIN m.slab /\ r.slab[t] = m.slab[t] /\ ListIn(r, t) = ListIn(m, t)
        BY <1>6, <1>9, <3>2
      <4>2. /\ m.slab[t].node \in DOMAIN own /\ m.slab[t].node \in Heads(m)
            /\ own[m.slab[t].node] = ListHead(m.slab[t].cache, ListIn(m, t))
        BY <4>1, HeaderFacts
      <4>3. m.slab[t].node # h
        BY <1>2, <4>2
      <4> QED BY <1>3, <4>1, <4>2, <4>3
    <3> QED BY <3>1, <3>2
  <2>4. ASSUME NEW t \in DOMAIN r.slab, NEW x \in Objs(r, t) \ Heads(r)
        PROVE  own4[x] = IF x \in chain THEN Chain ELSE IF x \in rest THEN x ELSE Freelist(t)
    <3>1. CASE t = s
      <4>1. x \in fresh
        BY <1>9, <3>1
      <4>2. own4[x] = F
        BY <1>3, <4>1 DEF fresh
      <4>3. x \notin taken /\ x \notin chain
        BY <1>0, <1>10, <1>11, <4>1
      <4> QED BY <3>1, <4>2, <4>3 DEF F
    <3>2. CASE t # s
      <4>1. t \in DOMAIN m.slab /\ x \in Objs(m, t) \ Heads(m) /\ x # h
        BY <1>6, <1>9, <3>2
      <4>2. x \in AllObjs(m)
        BY <4>1 DEF AllObjs
      <4>3. own4[x] = own[x]
        BY <1>3, <1>11, <4>1, <4>2
      <4> QED BY <1>0, <4>1, <4>3 DEF Placed
    <3> QED BY <3>1, <3>2
  <2> QED BY <2>1, <2>2, <2>3, <2>4 DEF Placed
<1>19. Sane(r, rest, chain)
  BY <1>3, <1>13, <1>14, <1>16, <1>17, <1>18 DEF Sane, WF
<1> QED BY <1>8, <1>19 DEF r

-----------------------------------------------------------------------------
(* cache_create's part: a cache more, on the chain.                        *)

NoObjects == [total_num_objs |-> 0, total_num_slabs |-> 0]

\* r has one cache more than m, number c, and its three lists.
CacheAdded(m, own, c, r, own2) ==
  /\ Owned(r, own2) /\ r.slab = m.slab /\ r.cache = Append(m.cache, NoObjects)
  /\ DOMAIN own2 = DOMAIN own \cup {ListHead(c, l) : l \in SlabLists}
  /\ \A l \in SlabLists : own2[ListHead(c, l)] = ListHead(c, l)
  /\ \A x \in DOMAIN own : own2[x] = own[x]

LEMMA CacheInitLists ==
  ASSUME NEW m, NEW own, Owned(m, own), NEW c, \A l \in SlabLists : ListHead(c, l) \notin DOMAIN own
  PROVE  \E own2 : CacheAdded(m, own, c, CacheInit(m, c), own2)
<1> DEFINE fresh == [m EXCEPT !.cache = Append(@, [total_num_objs |-> 0, total_num_slabs |-> 0])]
           a == ListHead(c, "slabs_free")
           b == ListHead(c, "slabs_partial")
           d == ListHead(c, "slabs_full")
           m1 == ListInit(fresh, a)
           m2 == ListInit(m1, b)
           m3 == ListInit(m2, d)
           own1 == Store(own, a, a)
           own2 == Store(own1, b, b)
           own3 == Store(own2, d, d)
<1>0. /\ a \notin DOMAIN own /\ b \notin DOMAIN own /\ d \notin DOMAIN own
      /\ a # b /\ a # d /\ b # d
      /\ {ListHead(c, l) : l \in SlabLists} = {a, b, d}
  <2>1. SlabLists = {"slabs_free", "slabs_partial", "slabs_full"}
    BY DEF SlabLists
  <2>2. a # b /\ a # d /\ b # d
    BY Distinct
  <2> QED BY <2>1, <2>2
<1>1. CacheInit(m, c) = m3
  BY DEF CacheInit
<1>2. /\ Owned(fresh, own) /\ fresh.slab = m.slab /\ fresh.cache = Append(m.cache, NoObjects)
  <2> DEFINE more == Append(m.cache, NoObjects)
  <2>1. fresh = [m EXCEPT !.cache = more]
    BY DEF NoObjects
  <2>2. m = [next |-> m.next, prev |-> m.prev, slab |-> m.slab, cache |-> m.cache]
    BY DEF Owned, Lists
  <2> HIDE DEF fresh, more
  <2>3. fresh = [next |-> m.next, prev |-> m.prev, slab |-> m.slab, cache |-> more]
    BY <2>1, <2>2
  <2>4. Owned(fresh, own) /\ fresh.slab = m.slab /\ fresh.cache = more
    BY <2>3, OwnedFrame
  <2> QED BY <2>4 DEF more
<1> HIDE DEF fresh, a, b, d
<1>3. Owned(m1, own1) /\ m1.slab = fresh.slab /\ m1.cache = fresh.cache
  <2>1. Alone(own, a)
    BY <1>0 DEF Alone
  <2> QED BY ONLY <1>2, <2>1, OwnedInit
<1>4. DOMAIN own1 = DOMAIN own \cup {a} /\ \A x \in DOMAIN own1 : own1[x] = IF x = a THEN a ELSE own[x]
  BY DEF Store
<1> HIDE DEF m1, own1
<1>5. Owned(m2, own2) /\ m2.slab = m1.slab /\ m2.cache = m1.cache
  <2>1. Alone(own1, b)
    BY <1>0, <1>4 DEF Alone
  <2> QED BY ONLY <1>3, <2>1, OwnedInit
<1>6. DOMAIN own2 = DOMAIN own1 \cup {b} /\ \A x \in DOMAIN own2 : own2[x] = IF x = b THEN b ELSE own1[x]
  BY DEF Store
<1> HIDE DEF m2, own2
<1>7. Owned(m3, own3) /\ m3.slab = m2.slab /\ m3.cache = m2.cache
  <2>1. Alone(own2, d)
    BY <1>0, <1>4, <1>6 DEF Alone
  <2> QED BY ONLY <1>5, <2>1, OwnedInit
<1>8. DOMAIN own3 = DOMAIN own2 \cup {d} /\ \A x \in DOMAIN own3 : own3[x] = IF x = d THEN d ELSE own2[x]
  BY DEF Store
<1> HIDE DEF m3, own3
<1>9. /\ DOMAIN own3 = DOMAIN own \cup {a, b, d} /\ \A x \in DOMAIN own : own3[x] = own[x]
      /\ \A x \in {a, b, d} : own3[x] = x
  BY <1>0, <1>4, <1>6, <1>8
<1>10. \A l \in SlabLists : own3[ListHead(c, l)] = ListHead(c, l)
  BY <1>0, <1>9
<1>11. /\ Owned(m3, own3) /\ m3.slab = m.slab /\ m3.cache = Append(m.cache, NoObjects)
       /\ DOMAIN own3 = DOMAIN own \cup {ListHead(c, l) : l \in SlabLists}
  BY <1>0, <1>2, <1>3, <1>5, <1>7, <1>9
<1>12. CacheAdded(m, own, c, m3, own3)
  BY ONLY <1>9, <1>10, <1>11 DEF CacheAdded
<1> QED BY <1>1, <1>12

\* How memory and caches of the slabs are after a cache was added.
LEMMA CacheInitFacts ==
  ASSUME NEW m, NEW own, NEW taken, NEW chain, WF(m, own, taken, chain), Len(m.cache) < MaxCaches
  PROVE  /\ Sane(CacheInit(m, Len(m.cache) + 1), taken, chain)
         /\ Len(CacheInit(m, Len(m.cache) + 1).cache) = Len(m.cache) + 1
<1> DEFINE R == [total_num_objs : Nat, total_num_slabs : Nat]
<1>a. PICK c : c = Len(m.cache) + 1
  OBVIOUS
<1>b. PICK r : r = CacheInit(m, c)
  OBVIOUS
<1>0. /\ Owned(m, own) /\ Typed(m) /\ Headed(m, taken) /\ Counted(m, taken)
      /\ taken \subseteq AllObjs(m) /\ chain \subseteq taken /\ Placed(m, own, taken, chain)
      /\ DOMAIN own = Tops(m) \cup Heads(m) \cup AllObjs(m)
  BY DEF WF, Placed
<1>1. /\ m.cache \in Seq(R) /\ Len(m.cache) \in Nat /\ Len(m.cache) >= CACHES /\ CACHES >= 1
      /\ c \in 1 .. MaxCaches /\ NoObjects \in R
  BY <1>0, <1>a, SlabAssumption, SMTT(30) DEF Typed, CACHES, NoObjects
<1>2. \A l \in SlabLists : ListHead(c, l) \notin DOMAIN own
  <2> TAKE l \in SlabLists
  <2>1. ListHead(c, l)[1] = l /\ l \notin {"obj", "slab", "freelist", "chain"}
    BY Tags, Kinds
  <2>2. \A n \in AllObjs(m) \cup Heads(m) : n[1] = "obj" \/ n[1] = "slab"
    BY Kinds
  <2>3. \A n \in ListHeads(Len(m.cache)) : ListHead(c, l) # n
    <3> TAKE n \in ListHeads(Len(m.cache))
    <3>1. PICK d \in 1 .. Len(m.cache), k \in SlabLists : n = ListHead(d, k)
      BY DEF ListHeads
    <3>2. d # c
      BY <1>1, <1>a
    <3> QED BY <3>1, <3>2, Distinct
  <2>4. \A n \in Freelists(m) : ListHead(c, l) # n
    BY <2>1, Tags DEF Freelists
  <2>5. ListHead(c, l) # Chain
    BY <2>1, Tags
  <2> QED BY <1>0, <2>1, <2>2, <2>3, <2>4, <2>5 DEF Tops
<1>3. PICK own2 : CacheAdded(m, own, c, r, own2)
  BY <1>0, <1>2, <1>b, CacheInitLists
<1>4. /\ Owned(r, own2) /\ r.slab = m.slab
      /\ DOMAIN own2 = DOMAIN own \cup {ListHead(c, l) : l \in SlabLists}
      /\ \A l \in SlabLists : own2[ListHead(c, l)] = ListHead(c, l)
      /\ \A x \in DOMAIN own : own2[x] = own[x]
  BY <1>3 DEF CacheAdded
<1>5. /\ r.cache \in Seq(R) /\ Len(r.cache) = c /\ r.cache[c] = NoObjects
      /\ \A d \in 1 .. Len(m.cache) : r.cache[d] = m.cache[d]
  <2>1. r.cache = Append(m.cache, NoObjects)
    BY <1>3 DEF CacheAdded
  <2> HIDE DEF R
  <2> QED BY <1>1, <1>a, <2>1
<1>6. /\ \A s : Objs(r, s) = Objs(m, s) /\ ListIn(r, s) = ListIn(m, s)
      /\ Heads(r) = Heads(m) /\ AllObjs(r) = AllObjs(m) /\ Freelists(r) = Freelists(m)
      /\ \A d : Of(r, d) = Of(m, d)
  <2>1. \A s : Objs(r, s) = Objs(m, s) /\ ListIn(r, s) = ListIn(m, s)
    BY <1>4 DEF Objs, ListIn
  <2>2. Heads(r) = Heads(m) /\ Freelists(r) = Freelists(m)
    BY <1>4 DEF Heads, Freelists
  <2>3. AllObjs(r) = AllObjs(m)
    BY <1>4, <2>1 DEF AllObjs
  <2>4. \A d : Of(r, d) = Of(m, d)
    BY <1>4 DEF Of
  <2> QED BY <2>1, <2>2, <2>3, <2>4
<1>7. Tops(r) = Tops(m) \cup {ListHead(c, l) : l \in SlabLists}
  <2>1. ListHeads(c) = ListHeads(Len(m.cache)) \cup {ListHead(c, l) : l \in SlabLists}
    <3>1. \A d \in 1 .. c : d = c \/ d \in 1 .. Len(m.cache)
      BY <1>1, <1>a
    <3>2. c \in 1 .. c /\ \A d \in 1 .. Len(m.cache) : d \in 1 .. c
      BY <1>1, <1>a
    <3> QED BY <3>1, <3>2 DEF ListHeads
  <2> QED BY <1>5, <1>6, <2>1 DEF Tops
<1>8. Typed(r)
  <2>1. \A s \in DOMAIN r.slab : r.slab[s].cache \in 1 .. Len(r.cache)
    <3> TAKE s \in DOMAIN r.slab
    <3>1. r.slab[s].cache \in 1 .. Len(m.cache)
      BY <1>0, <1>4 DEF Typed
    <3> QED BY <1>1, <1>5, <1>a, <3>1
  <2>2. Len(r.cache) \in CACHES .. MaxCaches
    BY <1>1, <1>5, <1>a DEF CACHES
  <2> QED BY <1>0, <1>4, <1>5, <2>1, <2>2 DEF Typed
<1>9. Headed(r, taken)
  BY <1>0, <1>4, <1>6 DEF Headed
<1>10. Counted(r, taken)
  <2>1. \A s : Used(r, taken, s) = Used(m, taken, s)
    BY <1>6 DEF Used
  <2>2. ASSUME NEW d \in 1 .. Len(r.cache)
        PROVE  /\ r.cache[d].total_num_slabs = Cardinality(Of(r, d))
               /\ r.cache[d].total_num_objs = PerSlab[d] * Cardinality(Of(r, d))
    <3>1. CASE d = c
      <4>1. \A s \in DOMAIN m.slab : m.slab[s].cache \in 1 .. Len(m.cache)
        BY <1>0 DEF Typed
      <4>2. \A s \in DOMAIN m.slab : m.slab[s].cache # c
        BY <1>1, <1>a, <4>1
      <4>3. Of(m, c) = {}
        BY <4>2 DEF Of
      <4>4. Cardinality(Of(r, d)) = 0
        BY <1>6, <3>1, <4>3, FS_EmptySet
      <4>5. PerSlab[d] \in Nat
        BY <1>1, <3>1, SlabAssumption
      <4>6. PerSlab[d] * 0 = 0
        BY <4>5
      <4> QED BY <1>5, <3>1, <4>4, <4>6 DEF NoObjects
    <3>2. CASE d # c
      <4>1. d \in 1 .. Len(m.cache)
        BY <1>1, <1>5, <1>a, <3>2
      <4> QED BY <1>0, <1>5, <1>6, <4>1 DEF Counted
    <3> QED BY <3>1, <3>2
  <2> QED BY <1>0, <1>4, <2>1, <2>2 DEF Counted
<1>11. Placed(r, own2, taken, chain)
  <2>1. DOMAIN own2 = Tops(r) \cup Heads(r) \cup AllObjs(r)
    BY <1>0, <1>4, <1>6, <1>7
  <2>2. \A n \in Tops(r) : own2[n] = n
    BY <1>0, <1>4, <1>7 DEF Placed
  <2>3. ASSUME NEW s \in DOMAIN r.slab
        PROVE  own2[r.slab[s].node] = ListHead(r.slab[s].cache, ListIn(r, s))
    <3>1. s \in DOMAIN m.slab
      BY <1>4
    <3>2. m.slab[s].node \in DOMAIN own /\ own[m.slab[s].node] = ListHead(m.slab[s].cache, ListIn(m, s))
      BY <3>1, HeaderFacts
    <3> QED BY <1>4, <1>6, <3>2
  <2>4. ASSUME NEW s \in DOMAIN r.slab, NEW o \in Objs(r, s) \ Heads(r)
        PROVE  own2[o] = IF o \in chain THEN Chain ELSE IF o \in taken THEN o ELSE Freelist(s)
    <3>1. s \in DOMAIN m.slab /\ o \in Objs(m, s) \ Heads(m) /\ o \in AllObjs(m)
      BY <1>4, <1>6 DEF AllObjs
    <3> QED BY <1>0, <1>4, <3>1 DEF Placed
  <2> QED BY <2>1, <2>2, <2>3, <2>4 DEF Placed
<1>12. WF(r, own2, taken, chain)
  BY <1>0, <1>4, <1>6, <1>8, <1>9, <1>10, <1>11 DEF WF
<1> QED BY <1>5, <1>12, <1>a, <1>b DEF Sane

\* An object handed out goes on the chain.
LEMMA ChainFacts ==
  ASSUME NEW m, NEW own, NEW taken, NEW chain, WF(m, own, taken, chain), NEW o \in taken \ chain
  PROVE  /\ Sane(ListAppend(m, Chain, o), taken, chain \cup {o})
         /\ ListAppend(m, Chain, o).cache = m.cache /\ ListAppend(m, Chain, o).slab = m.slab
<1> DEFINE put == Store(own, o, Chain)
<1>0. /\ Owned(m, own) /\ Typed(m) /\ Headed(m, taken) /\ Counted(m, taken)
      /\ taken \subseteq AllObjs(m) /\ chain \subseteq taken /\ Placed(m, own, taken, chain)
      /\ DOMAIN own = Tops(m) \cup Heads(m) \cup AllObjs(m)
  BY DEF WF, Placed
<1>1. Chain \in DOMAIN own /\ own[Chain] = Chain
  BY <1>0 DEF Placed, Tops
<1>2. o \in DOMAIN own /\ Alone(own, o) /\ o \in AllObjs(m) /\ o \notin Heads(m) \cup Tops(m) /\ o # Chain
  <2>1. o \in AllObjs(m) /\ o \in DOMAIN own /\ Alone(own, o)
    BY <1>0, Classes
  <2>2. o \notin Heads(m) \cup Tops(m)
    BY <2>1, Kinds
  <2> QED BY <2>1, <2>2 DEF Tops
<1>a. PICK r : r = ListAppend(m, Chain, o)
  OBVIOUS
<1>3. Owned(r, put) /\ r.slab = m.slab /\ r.cache = m.cache
  <2>1. /\ Owned(ListAppend(m, Chain, o), Store(own, o, Chain))
        /\ ListAppend(m, Chain, o).slab = m.slab /\ ListAppend(m, Chain, o).cache = m.cache
    BY ONLY <1>0, <1>1, <1>2, OwnedAppend
  <2> QED BY <1>a, <2>1
<1>4. /\ DOMAIN put = DOMAIN own /\ put[o] = Chain
      /\ \A x \in DOMAIN own \ {o} : put[x] = own[x]
  BY <1>2 DEF Store
<1> HIDE DEF put
<1>5. /\ \A s : Objs(r, s) = Objs(m, s) /\ ListIn(r, s) = ListIn(m, s) /\ Used(r, taken, s) = Used(m, taken, s)
      /\ Heads(r) = Heads(m) /\ AllObjs(r) = AllObjs(m) /\ Tops(r) = Tops(m)
      /\ \A d : Of(r, d) = Of(m, d)
  <2>1. \A s : Objs(r, s) = Objs(m, s) /\ ListIn(r, s) = ListIn(m, s)
    BY <1>3 DEF Objs, ListIn
  <2>2. Heads(r) = Heads(m) /\ Freelists(r) = Freelists(m)
    BY <1>3 DEF Heads, Freelists
  <2>3. AllObjs(r) = AllObjs(m)
    BY <1>3, <2>1 DEF AllObjs
  <2>4. \A d : Of(r, d) = Of(m, d)
    BY <1>3 DEF Of
  <2>5. Tops(r) = Tops(m)
    BY <1>3, <2>2 DEF Tops
  <2>6. \A s : Used(r, taken, s) = Used(m, taken, s)
    BY <2>1, <2>2 DEF Used
  <2> QED BY <2>1, <2>2, <2>3, <2>4, <2>5, <2>6
<1>6. Typed(r)
  BY <1>0, <1>3 DEF Typed
<1>7. Headed(r, taken)
  BY <1>0, <1>3, <1>5 DEF Headed
<1>8. Counted(r, taken)
  BY <1>0, <1>3, <1>5 DEF Counted
<1>9. Placed(r, put, taken, chain \cup {o})
  <2>1. \A n \in Tops(r) : put[n] = n
    BY <1>0, <1>2, <1>4, <1>5 DEF Placed
  <2>2. ASSUME NEW s \in DOMAIN r.slab
        PROVE  put[r.slab[s].node] = ListHead(r.slab[s].cache, ListIn(r, s))
    <3>1. s \in DOMAIN m.slab
      BY <1>3
    <3>2. /\ m.slab[s].node \in DOMAIN own /\ m.slab[s].node \in Heads(m)
          /\ own[m.slab[s].node] = ListHead(m.slab[s].cache, ListIn(m, s))
      BY <3>1, HeaderFacts
    <3> QED BY <1>2, <1>3, <1>4, <1>5, <3>2
  <2>3. ASSUME NEW s \in DOMAIN r.slab, NEW x \in Objs(r, s) \ Heads(r)
        PROVE  put[x] = IF x \in chain \cup {o} THEN Chain ELSE IF x \in taken THEN x ELSE Freelist(s)
    <3>1. s \in DOMAIN m.slab /\ x \in Objs(m, s) \ Heads(m) /\ x \in AllObjs(m)
      BY <1>3, <1>5 DEF AllObjs
    <3>2. own[x] = IF x \in chain THEN Chain ELSE IF x \in taken THEN x ELSE Freelist(s)
      BY <1>0, <3>1 DEF Placed
    <3> QED BY <1>0, <1>4, <3>1, <3>2
  <2> QED BY <1>0, <1>4, <1>5, <2>1, <2>2, <2>3 DEF Placed
<1>10. WF(r, put, taken, chain \cup {o})
  BY <1>0, <1>3, <1>5, <1>6, <1>7, <1>8, <1>9 DEF WF
<1> QED BY <1>3, <1>10, <1>a DEF Sane

-----------------------------------------------------------------------------
(* cache_shrink's part: a slab of slabs_cache and its header leave.        *)

\* The nodes of G go, and no list has nodes in G and others.
LEMMA OwnedUnmap ==
  ASSUME NEW m, NEW own, Owned(m, own), NEW G, \A x \in DOMAIN own : own[x] \in G <=> x \in G,
         NEW r, r.next = Without(m.next, G), r.prev = Without(m.prev, G),
         r = [next |-> r.next, prev |-> r.prev, slab |-> r.slab, cache |-> r.cache]
  PROVE  Owned(r, Without(own, G))
<1> DEFINE rest == Without(own, G)
<1>1. /\ DOMAIN own = DOMAIN m.next /\ IsFiniteSet(DOMAIN m.next)
      /\ \A x \in DOMAIN own : own[x] \in DOMAIN own /\ own[own[x]] = own[x]
      /\ \A x \in DOMAIN own : m.prev[m.next[x]] = x /\ m.next[m.prev[x]] = x
      /\ DOMAIN m.prev = DOMAIN own
  BY DEF Owned, Lists, Paired
<1>2. \A x \in DOMAIN own \ G : m.next[x] \in DOMAIN own \ G /\ m.prev[x] \in DOMAIN own \ G
  <2> TAKE x \in DOMAIN own \ G
  <2>1. /\ m.next[x] \in DOMAIN own /\ m.prev[x] \in DOMAIN own
        /\ own[m.next[x]] = own[x] /\ own[m.prev[x]] = own[x]
    BY OwnedStep
  <2> QED BY <2>1
<1>3. /\ DOMAIN r.next = DOMAIN own \ G /\ \A x \in DOMAIN own \ G : r.next[x] = m.next[x]
      /\ \A x \in DOMAIN own \ G : r.prev[x] = m.prev[x]
      /\ r.next = [x \in DOMAIN own \ G |-> r.next[x]] /\ r.prev = [x \in DOMAIN own \ G |-> r.prev[x]]
  BY <1>1 DEF Without
<1>4. Lists(r)
  <2>1. IsFiniteSet(DOMAIN r.next)
    BY <1>1, <1>3, FS_Subset
  <2>2. r.next \in [DOMAIN r.next -> DOMAIN r.next] /\ r.prev \in [DOMAIN r.next -> DOMAIN r.next]
    BY ONLY <1>2, <1>3
  <2>3. \A n \in DOMAIN r.next : r.prev[r.next[n]] = n /\ r.next[r.prev[n]] = n
    <3> TAKE n \in DOMAIN r.next
    <3>1. /\ n \in DOMAIN own \ G /\ m.next[n] \in DOMAIN own \ G /\ m.prev[n] \in DOMAIN own \ G
          /\ r.next[n] = m.next[n] /\ r.prev[n] = m.prev[n]
      BY ONLY <1>2, <1>3
    <3>2. r.prev[m.next[n]] = m.prev[m.next[n]] /\ r.next[m.prev[n]] = m.next[m.prev[n]]
      BY ONLY <1>3, <3>1
    <3> QED BY ONLY <1>1, <3>1, <3>2
  <2> QED BY <2>1, <2>2, <2>3 DEF Lists, Paired
<1>5. /\ DOMAIN rest = DOMAIN own \ G /\ \A x \in DOMAIN rest : rest[x] = own[x]
      /\ rest = [x \in DOMAIN rest |-> rest[x]]
  BY DEF Without
<1> HIDE DEF rest
<1>6. rest \in [DOMAIN r.next -> DOMAIN r.next]
  BY <1>1, <1>3, <1>5
<1>7. \A x \in DOMAIN rest : rest[rest[x]] = rest[x]
  BY <1>1, <1>5
<1>8. ASSUME NEW h \in DOMAIN rest, rest[h] = h PROVE Circle(r.next, h, Class(rest, h))
  <2>1. h \in DOMAIN own /\ own[h] = h /\ h \notin G
    BY <1>5, <1>8
  <2>2. Class(rest, h) = Class(own, h)
    BY <1>5, <2>1 DEF Class
  <2>3. \A x \in Class(own, h) : r.next[x] = m.next[x]
    BY <1>3, <2>1 DEF Class
  <2>4. Circle(m.next, h, Class(own, h))
    BY <2>1 DEF Owned
  <2> QED BY <2>2, <2>3, <2>4, CircleFrame
<1>9. Owned(r, rest)
  BY <1>4, <1>6, <1>7, <1>8 DEF Owned
<1> QED BY <1>9 DEF rest

\* The totals of cache c with a slab less.
Fewer(cache, c) ==
  [cache EXCEPT ![c] = [total_num_objs |-> cache[c].total_num_objs - PerSlab[c],
                        total_num_slabs |-> cache[c].total_num_slabs - 1]]

LEMMA UnmappedFacts ==
  ASSUME NEW m, NEW own, Owned(m, own), Typed(m), NEW s \in DOMAIN m.slab,
         NEW G, G = Gone(m, s), \A x \in DOMAIN own : own[x] \in G <=> x \in G
  PROVE  /\ Owned(Unmapped(m, s), Without(own, G))
         /\ Unmapped(m, s).slab = Without(m.slab, {s})
         /\ Unmapped(m, s).cache = Fewer(m.cache, m.slab[s].cache)
<1> DEFINE d == m.slab[s].cache
           objs == m.cache[d].total_num_objs
           slabs == m.cache[d].total_num_slabs
           u1 == [m EXCEPT !.next = Without(m.next, Gone(m, s))]
           u2 == [u1 EXCEPT !.prev = Without(m.prev, Gone(m, s))]
           u3 == [u2 EXCEPT !.slab = Without(m.slab, {s})]
           u4 == [u3 EXCEPT !.cache[d].total_num_slabs = slabs - 1]
           u5 == [u4 EXCEPT !.cache[d].total_num_objs = objs - PerSlab[d]]
           two == [m.cache EXCEPT ![d].total_num_slabs = slabs - 1]
           both == [m.cache EXCEPT ![d] = [total_num_objs |-> objs - PerSlab[d], total_num_slabs |-> slabs - 1]]
           next == Without(m.next, G)
           prev == Without(m.prev, G)
           slab == Without(m.slab, {s})
<1>1. Unmapped(m, s) = u5
  BY DEF Unmapped
<1>0. d = m.slab[s].cache /\ d \in 1 .. Len(m.cache)
  BY DEF Typed
<1> HIDE DEF d, objs, slabs
<1>2. m = [next |-> m.next, prev |-> m.prev, slab |-> m.slab, cache |-> m.cache]
  BY DEF Owned, Lists
<1>3. u1 = [next |-> next, prev |-> m.prev, slab |-> m.slab, cache |-> m.cache]
  BY <1>2
<1> HIDE DEF u1
<1>4. u2 = [next |-> next, prev |-> prev, slab |-> m.slab, cache |-> m.cache]
  BY <1>3
<1> HIDE DEF u2
<1>5. u3 = [next |-> next, prev |-> prev, slab |-> slab, cache |-> m.cache]
  BY <1>4
<1> HIDE DEF u3, next, prev, slab
<1>6. u4 = [next |-> next, prev |-> prev, slab |-> slab, cache |-> two]
  <2>1. u4 = [u3 EXCEPT !.cache = [u3.cache EXCEPT ![d].total_num_slabs = slabs - 1]]
    OBVIOUS
  <2>2. u3.cache = m.cache
    BY <1>5
  <2>3. u4 = [u3 EXCEPT !.cache = two]
    BY <2>1, <2>2
  <2> HIDE DEF u4, two
  <2> QED BY <1>5, <2>3
<1> HIDE DEF u4
<1>7. m.cache \in [1 .. Len(m.cache) -> [total_num_objs : Nat, total_num_slabs : Nat]]
  <2> DEFINE R == [total_num_objs : Nat, total_num_slabs : Nat]
  <2>1. m.cache \in Seq(R)
    BY DEF Typed
  <2> HIDE DEF R
  <2>2. m.cache \in [1 .. Len(m.cache) -> R]
    BY <2>1
  <2> QED BY <2>2 DEF R
<1>8. two = [m.cache EXCEPT ![d] = [total_num_objs |-> objs, total_num_slabs |-> slabs - 1]]
  <2>1. m.cache[d] \in [total_num_objs : Nat, total_num_slabs : Nat]
    BY ONLY <1>0, <1>7
  <2>2. m.cache[d] = [total_num_objs |-> objs, total_num_slabs |-> slabs]
    BY ONLY <2>1 DEF objs, slabs
  <2> QED BY ONLY <2>2
<1>9. [two EXCEPT ![d].total_num_objs = objs - PerSlab[d]] = both
  <2> DEFINE rec == [total_num_objs |-> objs, total_num_slabs |-> slabs - 1]
             less == [total_num_objs |-> objs - PerSlab[d], total_num_slabs |-> slabs - 1]
  <2>1. two = [x \in 1 .. Len(m.cache) |-> IF x = d THEN rec ELSE m.cache[x]]
    <3> HIDE DEF two, rec
    <3> QED BY ONLY <1>0, <1>7, <1>8 DEF rec
  <2>2. [rec EXCEPT !.total_num_objs = objs - PerSlab[d]] = less
    OBVIOUS
  <2>3. both = [x \in 1 .. Len(m.cache) |-> IF x = d THEN less ELSE m.cache[x]]
    BY ONLY <1>0, <1>7
  <2> HIDE DEF rec, less, two, both
  <2>4. [two EXCEPT ![d].total_num_objs = objs - PerSlab[d]] =
          [x \in 1 .. Len(m.cache) |-> IF x = d THEN less ELSE m.cache[x]]
    BY ONLY <1>0, <2>1, <2>2
  <2> QED BY ONLY <2>3, <2>4
<1>10. u5 = [next |-> next, prev |-> prev, slab |-> slab, cache |-> both]
  <2> HIDE DEF two, both
  <2>1. u5 = [u4 EXCEPT !.cache = [u4.cache EXCEPT ![d].total_num_objs = objs - PerSlab[d]]]
    OBVIOUS
  <2>2. u4.cache = two
    BY <1>6
  <2>3. u5 = [u4 EXCEPT !.cache = both]
    BY <1>9, <2>1, <2>2
  <2> HIDE DEF u5
  <2> QED BY <1>6, <2>3
<1> HIDE DEF two, both
<1> HIDE DEF u5
<1>11. Owned(u5, Without(own, G))
  <2>1. u5 = [next |-> u5.next, prev |-> u5.prev, slab |-> u5.slab, cache |-> u5.cache]
    BY ONLY <1>10
  <2>2. u5.next = Without(m.next, G) /\ u5.prev = Without(m.prev, G)
    BY ONLY <1>10 DEF next, prev
  <2> QED BY <2>1, <2>2, OwnedUnmap
<1>12. both = Fewer(m.cache, m.slab[s].cache)
  BY <1>0 DEF both, objs, slabs, Fewer
<1> QED BY <1>1, <1>10, <1>11, <1>12 DEF slab

\* How memory is after cache_shrink of slabs_cache took the slab s.
Shrunk(m, own, s, u) ==
  /\ Owned(u, Without(own, {OwnHeader(s), Freelist(s)} \cup Objs(m, s)))
  /\ u.slab = Without(m.slab, {s})
  /\ u.cache = Fewer(m.cache, SLABS)

LEMMA ShrinkLists ==
  ASSUME NEW m, NEW own, NEW taken, NEW chain, WF(m, own, taken, chain),
         NEW s \in Of(m, SLABS), ListIn(m, s) = "slabs_free"
  PROVE  Shrunk(m, own, s, Unmapped(ListRemove(m, m.slab[s].node), s))
<1> DEFINE H == OwnHeader(s)
           F == Freelist(s)
           top == ListHead(SLABS, "slabs_free")
           r == ListRemove(m, H)
           put == [own EXCEPT ![H] = H]
<1>0. /\ Owned(m, own) /\ Typed(m) /\ Headed(m, taken) /\ Placed(m, own, taken, chain)
      /\ DOMAIN own = Tops(m) \cup Heads(m) \cup AllObjs(m)
      /\ \A n \in Tops(m) : own[n] = n
      /\ taken \subseteq AllObjs(m) /\ chain \subseteq taken
      /\ s \in DOMAIN m.slab /\ m.slab[s].cache = SLABS
  BY DEF WF, Placed, Of
<1>1. m.slab[s].node = H
  BY <1>0 DEF Headed
<1>2. H \in DOMAIN own /\ H \in Heads(m) /\ own[H] = top
  BY <1>0, <1>1, HeaderFacts
<1>3. H # top
  BY Tags, Kinds DEF SlabLists
<1>4. Used(m, taken, s) = {}
  <2>1. PerSlab[SLABS] \in Nat \ {0}
    BY <1>0, ObjsFacts
  <2>2. m.slab[s].num_objs_inuse = 0
    BY <1>0 DEF ListIn
  <2> QED BY <1>0, <2>2, UsedFacts
<1>5. Owned(r, put) /\ r.slab = m.slab /\ r.cache = m.cache
  <2>1. own[H] # H
    BY <1>2, <1>3
  <2> QED BY ONLY <1>0, <1>2, <2>1, OwnedRemove
<1> HIDE DEF r
<1>6. /\ DOMAIN put = DOMAIN own /\ put[H] = H /\ \A x \in DOMAIN own \ {H} : put[x] = own[x]
      /\ DOMAIN r.next = DOMAIN put
  BY <1>2, <1>5 DEF Owned
<1> HIDE DEF put
<1>7. /\ \A n \in AllObjs(m) : n[1] = "obj" /\ n[2] \in DOMAIN m.slab /\ n \in Objs(m, n[2])
      /\ \A t \in DOMAIN m.slab : \A n \in Objs(m, t) : n[1] = "obj" /\ n[2] = t /\ n \in AllObjs(m)
      /\ \A n \in Tops(m) : n \notin Heads(m) \cup AllObjs(m) /\ n[1] # "obj" /\ n[1] # "slab"
      /\ \A n \in Heads(m) : n \in AllObjs(m) \/ n[1] = "slab"
      /\ H[1] = "slab" /\ F[1] = "freelist" /\ F \in Tops(m)
  <2>1. F \in Tops(m)
    BY <1>0 DEF Tops, Freelists
  <2> QED BY <2>1, Kinds, Tags DEF AllObjs
<1>8. Gone(r, s) = {H, F} \cup Objs(m, s)
  <2>1. ASSUME NEW n \in Gone(r, s) PROVE n \in {H, F} \cup Objs(m, s)
    <3>1. n \in DOMAIN own /\ (n \in {H, F} \/ (n[1] = "obj" /\ n[2] = s))
      BY <1>6 DEF Gone
    <3>2. CASE n[1] = "obj" /\ n[2] = s
      <4>1. n \in AllObjs(m)
        BY <1>0, <1>7, <3>1, <3>2
      <4> QED BY <1>7, <3>2, <4>1
    <3> QED BY <3>1, <3>2
  <2>2. ASSUME NEW n \in {H, F} \cup Objs(m, s) PROVE n \in Gone(r, s)
    <3>1. n \in DOMAIN own
      BY <1>0, <1>2, <1>7
    <3>2. n \in {H, F} \/ (n[1] = "obj" /\ n[2] = s)
      BY <1>0, <1>7
    <3> QED BY <1>6, <3>1, <3>2 DEF Gone
  <2> QED BY <2>1, <2>2
<1>9. \A x \in DOMAIN put : put[x] \in Gone(r, s) <=> x \in Gone(r, s)
  <2> SUFFICES ASSUME NEW x \in DOMAIN own PROVE put[x] \in {H, F} \cup Objs(m, s) <=> x \in {H, F} \cup Objs(m, s)
    BY <1>6, <1>8
  <2>1. CASE x = H
    BY <1>6, <2>1
  <2>2. CASE x \in Tops(m)
    <3>1. x # H
      BY <1>2, <1>7, <2>2
    <3> QED BY <1>0, <1>6, <2>2, <3>1
  <2>3. CASE x \in Heads(m) \ {H}
    <3>1. PICK t \in DOMAIN m.slab : x = m.slab[t].node
      BY <2>3 DEF Heads
    <3>2. put[x] = ListHead(m.slab[t].cache, ListIn(m, t)) /\ ListIn(m, t) \in SlabLists
      BY <1>6, <2>3, <3>1, HeaderFacts
    <3>3. put[x] \notin {H, F} \cup Objs(m, s)
      <4>1. put[x][1] \notin {"obj", "slab", "freelist"}
        BY <3>2, Tags, Kinds
      <4> QED BY <1>0, <1>7, <4>1
    <3>4. x \notin {H, F} \cup Objs(m, s)
      BY <1>4, <1>7, <2>3 DEF Used
    <3> QED BY <3>3, <3>4
  <2>4. CASE x \in AllObjs(m) \ Heads(m)
    <3>1. PICK t \in DOMAIN m.slab : x \in Objs(m, t) \ Heads(m)
      BY <2>4 DEF AllObjs
    <3>2. own[x] = IF x \in chain THEN Chain ELSE IF x \in taken THEN x ELSE Freelist(t)
      BY <1>0, <3>1 DEF Placed
    <3>3. x[1] = "obj" /\ x[2] = t /\ x # H /\ x # F
      BY <1>7, <3>1
    <3>4. CASE t = s
      <4>1. x \notin taken
        BY <1>4, <3>1, <3>4 DEF Used
      <4>2. put[x] = F
        BY <1>0, <1>6, <3>2, <3>3, <3>4, <4>1
      <4> QED BY <3>1, <3>4, <4>2
    <3>5. CASE t # s
      <4>1. x \notin Objs(m, s)
        BY <1>0, <1>7, <3>3, <3>5
      <4>2. put[x] = Chain \/ put[x] = x \/ put[x] = Freelist(t)
        BY <1>6, <3>2, <3>3
      <4>3. Chain \notin {H, F} \cup Objs(m, s)
        <5>1. Chain[1] = "chain"
          BY Tags
        <5> QED BY <1>0, <1>7, <5>1
      <4>4. Freelist(t) \notin {H, F} \cup Objs(m, s)
        <5>1. Freelist(t)[1] = "freelist" /\ Freelist(t) # F
          BY <3>5, Tags, Distinct
        <5> QED BY <1>0, <1>7, <5>1
      <4> QED BY <3>3, <4>1, <4>2, <4>3, <4>4
    <3> QED BY <3>4, <3>5
  <2> QED BY <1>0, <2>1, <2>2, <2>3, <2>4
<1>a. PICK G : G = Gone(r, s)
  OBVIOUS
<1>b. PICK u : u = Unmapped(r, s)
  OBVIOUS
<1>10. /\ Owned(u, Without(put, G)) /\ u.slab = Without(r.slab, {s})
       /\ u.cache = Fewer(r.cache, SLABS)
  <2>1. Typed(r)
    BY <1>0, <1>5 DEF Typed
  <2>2. r.slab[s].cache = SLABS /\ s \in DOMAIN r.slab
    BY <1>0, <1>5
  <2>3. \A x \in DOMAIN put : put[x] \in G <=> x \in G
    BY <1>9, <1>a
  <2>4. Owned(r, put)
    BY <1>5
  <2>5. /\ Owned(Unmapped(r, s), Without(put, G))
        /\ Unmapped(r, s).slab = Without(r.slab, {s})
        /\ Unmapped(r, s).cache = Fewer(r.cache, r.slab[s].cache)
    BY ONLY <1>a, <2>1, <2>2, <2>3, <2>4, UnmappedFacts
  <2> QED BY <1>b, <2>2, <2>5
<1>11. Without(put, G) = Without(own, G)
  <2>1. H \in G /\ \A x \in DOMAIN put \ G : put[x] = own[x]
    BY <1>6, <1>8, <1>a
  <2> QED BY <1>6, <2>1 DEF Without
<1> QED BY <1>1, <1>5, <1>8, <1>10, <1>11, <1>a, <1>b DEF Shrunk, r

\* cache_shrink of slabs_cache keeps the allocator sane.
LEMMA ShrinkFacts ==
  ASSUME NEW m, NEW own, NEW taken, NEW chain, WF(m, own, taken, chain),
         NEW node, node = ListNext(m, ListHead(SLABS, "slabs_free")), node # NULL
  PROVE  /\ Sane(Unmapped(ListRemove(m, node), SlabOf(m, node)), taken, chain)
         /\ Len(Unmapped(ListRemove(m, node), SlabOf(m, node)).cache) = Len(m.cache)
<1>0. /\ Owned(m, own) /\ Typed(m) /\ Headed(m, taken) /\ Counted(m, taken) /\ Placed(m, own, taken, chain)
      /\ DOMAIN own = Tops(m) \cup Heads(m) \cup AllObjs(m)
      /\ \A n \in Tops(m) : own[n] = n
      /\ taken \subseteq AllObjs(m) /\ chain \subseteq taken
  BY DEF WF, Placed
<1>1. SLABS \in 1 .. Len(m.cache) /\ "slabs_free" \in SlabLists
  BY <1>0, Kinds DEF Typed, CACHES, SLABS
<1>2. \E s \in Of(m, SLABS) : ListIn(m, s) = "slabs_free" /\ node = m.slab[s].node
  <2>1. ListHead(SLABS, "slabs_free") \in Tops(m)
    BY <1>1 DEF Tops, ListHeads
  <2>2. node \in Class(own, ListHead(SLABS, "slabs_free")) \ {ListHead(SLABS, "slabs_free")}
    BY <1>0, <2>1, OwnedNext
  <2>3. Class(own, ListHead(SLABS, "slabs_free")) =
          {ListHead(SLABS, "slabs_free")} \cup
          {m.slab[s].node : s \in {t \in Of(m, SLABS) : ListIn(m, t) = "slabs_free"}}
    BY <1>1, Classes
  <2> QED BY <2>2, <2>3
<1>3. PICK s \in Of(m, SLABS) : ListIn(m, s) = "slabs_free" /\ node = m.slab[s].node
  BY <1>2
<1>4. s \in DOMAIN m.slab /\ m.slab[s].cache = SLABS /\ SlabOf(m, node) = s /\ node = OwnHeader(s)
  BY <1>0, <1>3, HeaderFacts DEF Of, Headed
<1>a. PICK u : u = Unmapped(ListRemove(m, node), s)
  OBVIOUS
<1>b. PICK gone : gone = {OwnHeader(s), Freelist(s)} \cup Objs(m, s)
  OBVIOUS
<1>c. PICK rest : rest = Without(own, gone)
  OBVIOUS
<1>5. Owned(u, rest) /\ u.slab = Without(m.slab, {s}) /\ u.cache = Fewer(m.cache, SLABS)
  BY <1>3, <1>a, <1>b, <1>c, ShrinkLists DEF Shrunk
<1>6. DOMAIN rest = DOMAIN own \ gone /\ \A x \in DOMAIN own \ gone : rest[x] = own[x]
  BY <1>c DEF Without
<1>7. /\ DOMAIN u.slab = DOMAIN m.slab \ {s}
      /\ \A t \in DOMAIN m.slab \ {s} : u.slab[t] = m.slab[t]
      /\ u.slab = [t \in DOMAIN u.slab |-> u.slab[t]]
  <2>1. \A f : f = Without(m.slab, {s}) =>
           /\ DOMAIN f = DOMAIN m.slab \ {s} /\ \A t \in DOMAIN m.slab \ {s} : f[t] = m.slab[t]
           /\ f = [t \in DOMAIN f |-> f[t]]
    BY DEF Without
  <2> QED BY <1>5, <2>1
<1>8. /\ \A n \in AllObjs(m) : n[1] = "obj" /\ n[2] \in DOMAIN m.slab /\ n \in Objs(m, n[2])
      /\ \A t \in DOMAIN m.slab : \A n \in Objs(m, t) : n[1] = "obj" /\ n[2] = t /\ n \in AllObjs(m)
      /\ \A n \in Tops(m) : n \notin Heads(m) \cup AllObjs(m) /\ n[1] # "obj" /\ n[1] # "slab"
      /\ OwnHeader(s)[1] = "slab" /\ Freelist(s)[1] = "freelist" /\ Freelist(s) \in Tops(m)
  <2>1. Freelist(s) \in Tops(m)
    BY <1>4 DEF Tops, Freelists
  <2> QED BY <2>1, Kinds, Tags DEF AllObjs
<1>9. Used(m, taken, s) = {}
  <2>1. PerSlab[SLABS] \in Nat \ {0}
    BY <1>0, <1>4, ObjsFacts
  <2>2. m.slab[s].num_objs_inuse = 0
    BY <1>3, <1>4, <2>1 DEF ListIn
  <2> QED BY <1>4, <2>2, UsedFacts
<1>10. Objs(m, s) \cap (Heads(m) \cup taken) = {}
  BY <1>9 DEF Used
<1>11. /\ \A t \in DOMAIN m.slab \ {s} : Objs(u, t) = Objs(m, t) /\ ListIn(u, t) = ListIn(m, t)
       /\ Heads(u) = Heads(m) \ {node} /\ AllObjs(u) = AllObjs(m) \ Objs(m, s)
       /\ Of(u, SLABS) = Of(m, SLABS) \ {s} /\ \A d : d # SLABS => Of(u, d) = Of(m, d)
  <2>1. \A t \in DOMAIN m.slab \ {s} : Objs(u, t) = Objs(m, t) /\ ListIn(u, t) = ListIn(m, t)
    BY <1>7 DEF Objs, ListIn
  <2>2. Heads(u) = Heads(m) \ {node}
    <3>1. \A t \in DOMAIN m.slab \ {s} : m.slab[t].node # node
      BY <1>0, <1>3, <1>4 DEF Headed
    <3>2. \A x \in Heads(u) : x \in Heads(m) /\ x # node
      BY <1>7, <3>1 DEF Heads
    <3>3. \A x \in Heads(m) \ {node} : x \in Heads(u)
      <4> TAKE x \in Heads(m) \ {node}
      <4>1. PICK t \in DOMAIN m.slab : x = m.slab[t].node
        BY DEF Heads
      <4>2. t # s
        BY <1>3, <4>1
      <4> QED BY <1>7, <4>1, <4>2 DEF Heads
    <3> QED BY <3>2, <3>3
  <2>3. AllObjs(u) = AllObjs(m) \ Objs(m, s)
    <3>1. ASSUME NEW x \in AllObjs(u) PROVE x \in AllObjs(m) \ Objs(m, s)
      <4>1. PICK t \in DOMAIN u.slab : x \in Objs(u, t)
        BY DEF AllObjs
      <4>2. t \in DOMAIN m.slab \ {s} /\ x \in Objs(m, t)
        BY <1>7, <2>1, <4>1
      <4> QED BY <1>4, <1>8, <4>2
    <3>2. ASSUME NEW x \in AllObjs(m) \ Objs(m, s) PROVE x \in AllObjs(u)
      <4>1. PICK t \in DOMAIN m.slab : x \in Objs(m, t)
        BY DEF AllObjs
      <4>2. t \in DOMAIN u.slab /\ x \in Objs(u, t)
        BY <1>7, <2>1, <4>1
      <4> QED BY <4>2 DEF AllObjs
    <3> QED BY <3>1, <3>2
  <2>4. Of(u, SLABS) = Of(m, SLABS) \ {s} /\ \A d : d # SLABS => Of(u, d) = Of(m, d)
    BY <1>4, <1>7 DEF Of
  <2> QED BY <2>1, <2>2, <2>3, <2>4
<1>12. /\ IsFiniteSet(Of(m, SLABS)) /\ s \in Of(m, SLABS)
       /\ Cardinality(Of(m, SLABS)) \in Nat \ {0}
       /\ Cardinality(Of(u, SLABS)) = Cardinality(Of(m, SLABS)) - 1
  <2>1. IsFiniteSet(1 .. MaxSlabs)
    BY SlabAssumption, FS_Interval
  <2>2. Of(m, SLABS) \subseteq 1 .. MaxSlabs
    BY <1>0 DEF Of, Typed
  <2>3. IsFiniteSet(Of(m, SLABS)) /\ s \in Of(m, SLABS)
    BY <1>3, <2>1, <2>2, FS_Subset
  <2>4. Cardinality(Of(m, SLABS)) \in Nat /\ Cardinality(Of(m, SLABS)) # 0
    BY <2>3, FS_CardinalityType, FS_EmptySet
  <2> QED BY <1>11, <2>3, <2>4, FS_RemoveElement
<1>13. /\ PerSlab[SLABS] \in Nat \ {0}
       /\ m.cache[SLABS].total_num_slabs = Cardinality(Of(m, SLABS))
       /\ m.cache[SLABS].total_num_objs = PerSlab[SLABS] * Cardinality(Of(m, SLABS))
  BY <1>0, <1>1, <1>4, ObjsFacts DEF Counted
<1>14. PerSlab[SLABS] * Cardinality(Of(m, SLABS)) - PerSlab[SLABS] = PerSlab[SLABS] * Cardinality(Of(u, SLABS))
       /\ PerSlab[SLABS] * Cardinality(Of(u, SLABS)) \in Nat
  <2>1. \A a, b \in Nat \ {0} : a * b - a = a * (b - 1) /\ a * (b - 1) \in Nat
    OBVIOUS
  <2> QED BY <1>12, <1>13, <2>1
<1>d. PICK count : count = [total_num_objs |-> PerSlab[SLABS] * Cardinality(Of(u, SLABS)),
                            total_num_slabs |-> Cardinality(Of(u, SLABS))]
  OBVIOUS
<1>15. /\ u.cache \in Seq([total_num_objs : Nat, total_num_slabs : Nat]) /\ Len(u.cache) = Len(m.cache)
       /\ u.cache[SLABS] = count /\ \A d \in 1 .. Len(m.cache) \ {SLABS} : u.cache[d] = m.cache[d]
  <2> DEFINE R == [total_num_objs : Nat, total_num_slabs : Nat]
  <2>1. count \in R
    BY <1>12, <1>14, <1>d
  <2>2. Fewer(m.cache, SLABS) = [m.cache EXCEPT ![SLABS] = count]
    BY <1>12, <1>13, <1>14, <1>d DEF Fewer
  <2>3. m.cache \in Seq(R)
    BY <1>0 DEF Typed
  <2> HIDE DEF R
  <2>4. m.cache \in [1 .. Len(m.cache) -> R] /\ Len(m.cache) \in Nat
    BY <2>3
  <2>5. [m.cache EXCEPT ![SLABS] = count] \in Seq(R)
    BY <1>1, <2>1, <2>3, <2>4
  <2> QED BY <1>1, <1>5, <2>2, <2>4, <2>5 DEF R
<1>16. Tops(u) = Tops(m) \ {Freelist(s)}
  <2>1. Freelists(u) = Freelists(m) \ {Freelist(s)}
    BY <1>7, Distinct DEF Freelists
  <2>2. Freelist(s) # Chain
    BY <1>8, Tags
  <2>3. \A n \in ListHeads(Len(m.cache)) : Freelist(s) # n
    <3> TAKE n \in ListHeads(Len(m.cache))
    <3>1. PICK d \in 1 .. Len(m.cache), k \in SlabLists : n = ListHead(d, k)
      BY DEF ListHeads
    <3> QED BY <1>8, <3>1, Tags, Kinds
  <2> QED BY <1>15, <2>1, <2>2, <2>3 DEF Tops
<1>17. Typed(u)
  <2>1. \A t \in DOMAIN u.slab :
          /\ u.slab[t] = [cache |-> u.slab[t].cache, num_objs_inuse |-> u.slab[t].num_objs_inuse,
                          node |-> u.slab[t].node]
          /\ u.slab[t].cache \in 1 .. Len(u.cache) /\ u.slab[t].num_objs_inuse \in Nat
    <3> TAKE t \in DOMAIN u.slab
    <3>1. t \in DOMAIN m.slab /\ u.slab[t] = m.slab[t]
      BY <1>7
    <3> QED BY <1>0, <1>15, <3>1 DEF Typed
  <2>2. DOMAIN u.slab \subseteq 1 .. MaxSlabs /\ Len(u.cache) \in CACHES .. MaxCaches
    BY <1>0, <1>7, <1>15 DEF Typed
  <2> QED BY <1>7, <1>15, <2>1, <2>2 DEF Typed
<1>18. Headed(u, taken)
  <2>1. ASSUME NEW t \in DOMAIN u.slab, u.slab[t].cache # SLABS
        PROVE  \E v \in Of(u, SLABS) : u.slab[t].node \in Objs(u, v) \ taken
    <3>1. t \in DOMAIN m.slab /\ u.slab[t] = m.slab[t]
      BY <1>7
    <3>2. PICK v \in Of(m, SLABS) : m.slab[t].node \in Objs(m, v) \ taken
      BY <1>0, <2>1, <3>1 DEF Headed
    <3>3. m.slab[t].node \in Heads(m)
      BY <3>1 DEF Heads
    <3>4. v # s
      BY <1>10, <3>2, <3>3
    <3>5. v \in DOMAIN m.slab \ {s} /\ v \in Of(u, SLABS)
      BY <1>11, <3>2, <3>4 DEF Of
    <3> QED BY <1>11, <3>1, <3>2, <3>5
  <2>2. ASSUME NEW t \in DOMAIN u.slab, u.slab[t].cache = SLABS PROVE u.slab[t].node = OwnHeader(t)
    BY <1>0, <1>7, <2>2 DEF Headed
  <2>3. ASSUME NEW t \in DOMAIN u.slab, NEW v \in DOMAIN u.slab, u.slab[t].node = u.slab[v].node
        PROVE  t = v
    BY <1>0, <1>7, <2>3 DEF Headed
  <2> QED BY <2>1, <2>2, <2>3 DEF Headed
<1>19. Counted(u, taken)
  <2>1. ASSUME NEW t \in DOMAIN u.slab PROVE u.slab[t].num_objs_inuse = Cardinality(Used(u, taken, t))
    <3>1. t \in DOMAIN m.slab \ {s} /\ u.slab[t] = m.slab[t]
      BY <1>7
    <3>2. node \notin Objs(m, t)
      BY <1>4, <1>8, <3>1
    <3>3. Used(u, taken, t) = Used(m, taken, t)
      BY <1>11, <3>1, <3>2 DEF Used
    <3> QED BY <1>0, <3>1, <3>3 DEF Counted
  <2>2. ASSUME NEW d \in 1 .. Len(u.cache)
        PROVE  /\ u.cache[d].total_num_slabs = Cardinality(Of(u, d))
               /\ u.cache[d].total_num_objs = PerSlab[d] * Cardinality(Of(u, d))
    <3>1. CASE d = SLABS
      BY <1>15, <1>d, <3>1
    <3>2. CASE d # SLABS
      BY <1>0, <1>11, <1>15, <3>2 DEF Counted
    <3> QED BY <3>1, <3>2
  <2> QED BY <2>1, <2>2 DEF Counted
<1>20. taken \subseteq AllObjs(u)
  BY <1>0, <1>10, <1>11
<1>21. Placed(u, rest, taken, chain)
  <2>1. DOMAIN rest = Tops(u) \cup Heads(u) \cup AllObjs(u)
    <3>1. node \notin Tops(m) \cup AllObjs(m)
      BY <1>4, <1>8
    <3>2. Freelist(s) \notin Heads(m) \cup AllObjs(m)
      BY <1>8
    <3>3. Objs(m, s) \cap Tops(m) = {} /\ Objs(m, s) \cap Heads(m) = {}
      BY <1>4, <1>8, <1>10
    <3> QED BY <1>0, <1>4, <1>6, <1>11, <1>16, <1>b, <3>1, <3>2, <3>3
  <2>2. \A n \in Tops(u) : rest[n] = n
    <3> TAKE n \in Tops(u)
    <3>1. n \in Tops(m) /\ n \in DOMAIN rest
      BY <1>16, <2>1
    <3> QED BY <1>0, <1>6, <3>1
  <2>3. ASSUME NEW t \in DOMAIN u.slab
        PROVE  rest[u.slab[t].node] = ListHead(u.slab[t].cache, ListIn(u, t))
    <3>1. t \in DOMAIN m.slab \ {s} /\ u.slab[t] = m.slab[t]
      BY <1>7
    <3>2. u.slab[t].node \in DOMAIN rest
      BY <2>1 DEF Heads
    <3>3. own[m.slab[t].node] = ListHead(m.slab[t].cache, ListIn(m, t))
      BY <3>1, HeaderFacts
    <3> QED BY <1>6, <1>11, <3>1, <3>2, <3>3
  <2>4. ASSUME NEW t \in DOMAIN u.slab, NEW x \in Objs(u, t) \ Heads(u)
        PROVE  rest[x] = IF x \in chain THEN Chain ELSE IF x \in taken THEN x ELSE Freelist(t)
    <3>1. t \in DOMAIN m.slab \ {s} /\ x \in Objs(m, t)
      BY <1>7, <1>11
    <3>2. x # node
      BY <1>4, <1>8, <3>1
    <3>3. x \in Objs(m, t) \ Heads(m)
      BY <1>11, <3>1, <3>2
    <3>4. x \in DOMAIN rest
      BY <2>1 DEF AllObjs
    <3>5. own[x] = IF x \in chain THEN Chain ELSE IF x \in taken THEN x ELSE Freelist(t)
      BY <1>0, <3>1, <3>3 DEF Placed
    <3> QED BY <1>6, <3>4, <3>5
  <2> QED BY <2>1, <2>2, <2>3, <2>4 DEF Placed
<1>22. WF(u, rest, taken, chain)
  BY <1>0, <1>5, <1>17, <1>18, <1>19, <1>20, <1>21 DEF WF
<1> QED BY <1>4, <1>15, <1>22, <1>a DEF Sane

-----------------------------------------------------------------------------
(* The outcomes of cache_grow and cache_alloc.                             *)

\* An object of cache c was handed out.
Handed(o, taken, chain, c, n) ==
  /\ \E s \in Of(o.mem, c) : o.obj \in Objs(o.mem, s)
  /\ o.obj \notin taken /\ ~Fails(o)
  /\ Sane(o.mem, taken \cup {o.obj}, chain) /\ Len(o.mem.cache) = n

Larger(o, taken, chain, n) ==
  ~Fails(o) /\ Sane(o.mem, taken, chain) /\ Len(o.mem.cache) = n

Refused(m, o) == o.obj = NULL /\ o.mem = m

LEMMA GrowWithAre ==
  ASSUME NEW m, NEW c, NEW headers, NEW o \in GrowWith(m, c, headers)
  PROVE  \E h \in headers :
           \/ Fails(h) /\ o = h
           \/ o.obj = FAULT
           \/ ~Fails(h) /\ Unused(h.mem) # {} /\ o.obj = h.obj /\ o.mem = NewSlab(h.mem, c, h.obj)
<1>1. PICK h \in headers :
        o \in IF Fails(h) THEN {h}
              ELSE {[obj |-> FAULT, mem |-> h.mem]} \cup
                   IF Unused(h.mem) = {} THEN {}
                   ELSE {[obj |-> h.obj, mem |-> NewSlab(h.mem, c, h.obj)]}
  BY DEF GrowWith
<1>2. CASE Fails(h)
  BY <1>1, <1>2
<1>3. CASE ~Fails(h) /\ o = [obj |-> FAULT, mem |-> h.mem]
  BY <1>3
<1>4. CASE ~Fails(h) /\ Unused(h.mem) # {} /\ o = [obj |-> h.obj, mem |-> NewSlab(h.mem, c, h.obj)]
  BY <1>4
<1> QED BY <1>1, <1>2, <1>3, <1>4

LEMMA AllocWithAre ==
  ASSUME NEW m, NEW c, NEW growths, NEW o \in AllocWith(m, c, growths)
  PROVE  \/ o = Take(m, c, Selected(m, c))
         \/ \E g \in growths : Fails(g) /\ o = g
         \/ \E g \in growths : ~Fails(g) /\ o = Take(g.mem, c, Selected(g.mem, c))
BY DEF AllocWith

\* cache_alloc from the slab that slab_select found.
LEMMA TakeSelected ==
  ASSUME NEW m, NEW taken, NEW chain, Sane(m, taken, chain), NEW c \in 1 .. Len(m.cache),
         NEW o, o = Take(m, c, Selected(m, c))
  PROVE  o.obj = FAULT \/ Handed(o, taken, chain, c, Len(m.cache))
<1>1. PICK own : WF(m, own, taken, chain)
  BY DEF Sane
<1>2. CASE Selected(m, c) = NULL
  <2>1. NULL[1] = "null" /\ \A n \in AllObjs(m) : n[1] = "obj"
    BY <1>1, Tags, Kinds
  <2>2. \A n \in Heads(m) : n \in AllObjs(m) \/ n[1] = "slab"
    BY <1>1, Kinds
  <2>3. NULL \notin Heads(m)
    BY <2>1, <2>2
  <2>4. o = [obj |-> FAULT, mem |-> m]
    BY <1>2, <2>3 DEF Take, Heads
  <2> QED BY <2>4
<1>3. CASE Selected(m, c) # NULL
  <2>1. PICK s \in Of(m, c) : Selected(m, c) = m.slab[s].node
    BY <1>1, <1>3, SelectedFacts
  <2>2. s \in DOMAIN m.slab /\ m.slab[s].cache = c
    BY <2>1 DEF Of
  <2>3. o.obj = FAULT \/ Taken(m, s, taken, chain, o)
    <3>1. o = Take(m, m.slab[s].cache, m.slab[s].node)
      BY <2>1, <2>2
    <3>2. Take(m, m.slab[s].cache, m.slab[s].node).obj = FAULT
          \/ Taken(m, s, taken, chain, Take(m, m.slab[s].cache, m.slab[s].node))
      BY <1>1, <2>2, TakeFacts
    <3> QED BY <3>1, <3>2
  <2>4. CASE o.obj # FAULT
    <3>1. s \in Of(o.mem, c) /\ Objs(o.mem, s) = Objs(m, s)
      BY <2>2, <2>3, <2>4 DEF Of, Objs, Taken
    <3>2. o.obj[1] = "obj"
      BY <1>1, <2>2, <2>3, <2>4, Kinds DEF Taken
    <3>3. ~Fails(o)
      BY <3>2, Tags DEF Fails
    <3> QED BY <2>3, <2>4, <3>1, <3>3 DEF Handed, Taken
  <2> QED BY <2>4
<1> QED BY <1>2, <1>3

\* The growth of slabs_cache.
LEMMA GrowSlabsFine ==
  ASSUME NEW m, NEW taken, NEW chain, Sane(m, taken, chain), NEW o \in GrowSlabs(m)
  PROVE  o.obj = FAULT \/ Refused(m, o) \/ Larger(o, taken, chain, Len(m.cache))
<1> DEFINE none == [obj |-> NULL, mem |-> m]
           ownHeader == [obj |-> OwnHeader(NextUnused(m)), mem |-> m]
           headers == IF Unused(m) = {} THEN {none} ELSE {none, ownHeader}
<1>1. PICK own : WF(m, own, taken, chain)
  BY DEF Sane
<1>2. SLABS \in 1 .. Len(m.cache) /\ taken \subseteq AllObjs(m)
  BY <1>1 DEF WF, Typed, CACHES, SLABS
<1>3. PICK h \in headers :
           \/ Fails(h) /\ o = h
           \/ o.obj = FAULT
           \/ ~Fails(h) /\ Unused(h.mem) # {} /\ o.obj = h.obj /\ o.mem = NewSlab(h.mem, SLABS, h.obj)
  <2>1. o \in GrowWith(m, SLABS, headers)
    BY DEF GrowSlabs
  <2> HIDE DEF headers
  <2> QED BY <2>1, GrowWithAre
<1>4. CASE h = none
  <2>1. Fails(h) /\ h.obj = NULL /\ h.mem = m
    BY <1>4 DEF Fails
  <2> QED BY <1>3, <2>1 DEF Refused
<1>5. CASE h = ownHeader /\ Unused(m) # {}
  <2>1. h.obj = OwnHeader(NextUnused(m)) /\ h.mem = m
    BY <1>5
  <2>2. ~Fails(h) /\ h.obj \notin taken
    <3>1. h.obj[1] = "slab"
      BY <2>1, Tags
    <3>2. h.obj \notin {NULL, FAULT}
      BY <3>1, Tags
    <3>3. \A n \in AllObjs(m) : n[1] = "obj"
      BY <1>1, Kinds
    <3> QED BY <1>2, <3>1, <3>2, <3>3 DEF Fails
  <2>3. CASE o.obj = h.obj /\ o.mem = NewSlab(m, SLABS, h.obj)
    <3>1. HeaderFor(m, SLABS, taken, chain, h.obj)
      BY <2>1 DEF HeaderFor
    <3>2. Sane(o.mem, taken \ {h.obj}, chain) /\ Len(o.mem.cache) = Len(m.cache)
      <4>0. PICK x : x = h.obj
        OBVIOUS
      <4>1. HeaderFor(m, SLABS, taken, chain, x)
        BY <3>1, <4>0
      <4>2. /\ Sane(NewSlab(m, SLABS, x), taken \ {x}, chain)
            /\ Len(NewSlab(m, SLABS, x).cache) = Len(m.cache)
        BY ONLY <1>1, <1>2, <1>5, <4>1, NewSlabFacts
      <4> QED BY <2>3, <4>0, <4>2
    <3>3. taken \ {h.obj} = taken
      BY <2>2
    <3> QED BY <2>2, <2>3, <3>2, <3>3 DEF Larger, Fails
  <2> QED BY <1>3, <2>1, <2>2, <2>3
<1> QED BY <1>3, <1>4, <1>5

\* cache_alloc, given a sound growth.
LEMMA AllocWithFine ==
  ASSUME NEW m, NEW taken, NEW chain, Sane(m, taken, chain), NEW c \in 1 .. Len(m.cache), NEW growths,
         \A g \in growths : g.obj = FAULT \/ Refused(m, g) \/ Larger(g, taken, chain, Len(m.cache)),
         NEW o \in AllocWith(m, c, growths)
  PROVE  o.obj = FAULT \/ Refused(m, o) \/ Handed(o, taken, chain, c, Len(m.cache))
<1>1. CASE o = Take(m, c, Selected(m, c))
  BY <1>1, TakeSelected
<1>2. ASSUME NEW g \in growths, Fails(g), o = g
      PROVE  o.obj = FAULT \/ Refused(m, o) \/ Handed(o, taken, chain, c, Len(m.cache))
  BY <1>2 DEF Larger
<1>3. ASSUME NEW g \in growths, ~Fails(g), o = Take(g.mem, c, Selected(g.mem, c))
      PROVE  o.obj = FAULT \/ Refused(m, o) \/ Handed(o, taken, chain, c, Len(m.cache))
  <2>1. Sane(g.mem, taken, chain) /\ Len(g.mem.cache) = Len(m.cache)
    BY <1>3 DEF Larger, Refused, Fails
  <2>2. c \in 1 .. Len(g.mem.cache)
    BY <2>1
  <2>3. o.obj = FAULT \/ Handed(o, taken, chain, c, Len(g.mem.cache))
    BY <1>3, <2>1, <2>2, TakeSelected
  <2> QED BY <2>1, <2>3
<1> QED BY <1>1, <1>2, <1>3, AllocWithAre

\* cache_grow of any cache.
LEMMA GrowthsFine ==
  ASSUME NEW m, NEW taken, NEW chain, Sane(m, taken, chain), NEW c \in 1 .. Len(m.cache),
         NEW o \in Growths(m, c)
  PROVE  o.obj = FAULT \/ Refused(m, o) \/ Larger(o, taken, chain, Len(m.cache))
<1>1. CASE c = SLABS
  <2>1. o \in GrowSlabs(m)
    BY <1>1 DEF Growths
  <2> QED BY <2>1, GrowSlabsFine
<1>2. CASE c # SLABS
  <2>0. PICK headers : headers = AllocWith(m, SLABS, GrowSlabs(m))
    OBVIOUS
  <2>1. o \in GrowWith(m, c, headers)
    BY <1>2, <2>0 DEF Growths
  <2>2. PICK h \in headers :
           \/ Fails(h) /\ o = h
           \/ o.obj = FAULT
           \/ ~Fails(h) /\ Unused(h.mem) # {} /\ o.obj = h.obj /\ o.mem = NewSlab(h.mem, c, h.obj)
    BY <2>1, GrowWithAre, SMTT(30)
  <2>3. SLABS \in 1 .. Len(m.cache) /\ chain \subseteq taken
    BY DEF Sane, WF, Typed, CACHES, SLABS
  <2>4. h.obj = FAULT \/ Refused(m, h) \/ Handed(h, taken, chain, SLABS, Len(m.cache))
    <3>1. \A g \in GrowSlabs(m) : g.obj = FAULT \/ Refused(m, g) \/ Larger(g, taken, chain, Len(m.cache))
      BY GrowSlabsFine
    <3> QED BY <2>0, <2>2, <2>3, <3>1, AllocWithFine
  <2>5. CASE Fails(h) /\ o = h
    <3>1. ~Handed(h, taken, chain, SLABS, Len(m.cache))
      BY <2>5 DEF Handed
    <3> QED BY <2>4, <2>5, <3>1
  <2>6. CASE ~Fails(h) /\ Unused(h.mem) # {} /\ o.obj = h.obj /\ o.mem = NewSlab(h.mem, c, h.obj)
    <3>1. Handed(h, taken, chain, SLABS, Len(m.cache))
      BY <2>4, <2>6 DEF Refused, Fails
    <3>2. /\ \E t \in Of(h.mem, SLABS) : h.obj \in Objs(h.mem, t)
          /\ h.obj \notin taken
          /\ Sane(h.mem, taken \cup {h.obj}, chain) /\ Len(h.mem.cache) = Len(m.cache)
      BY <3>1 DEF Handed
    <3>3. PICK own : WF(h.mem, own, taken \cup {h.obj}, chain)
      BY <3>2 DEF Sane
    <3>4. HeaderFor(h.mem, c, taken \cup {h.obj}, chain, h.obj)
      BY <1>2, <2>3, <3>2 DEF HeaderFor
    <3>5. c \in 1 .. Len(h.mem.cache)
      BY <3>2
    <3>6. /\ Sane(NewSlab(h.mem, c, h.obj), (taken \cup {h.obj}) \ {h.obj}, chain)
          /\ Len(NewSlab(h.mem, c, h.obj).cache) = Len(h.mem.cache)
      <4>a. PICK x, u, w : x = h.obj /\ u = h.mem /\ w = taken \cup {h.obj}
        OBVIOUS
      <4>1. /\ WF(u, own, w, chain) /\ HeaderFor(u, c, w, chain, x)
            /\ c \in 1 .. Len(u.cache) /\ Unused(u) # {}
        BY <2>6, <3>3, <3>4, <3>5, <4>a
      <4>2. /\ Sane(NewSlab(u, c, x), w \ {x}, chain)
            /\ Len(NewSlab(u, c, x).cache) = Len(u.cache)
        BY ONLY <4>1, NewSlabFacts, ZenonT(60)
      <4> QED BY <4>a, <4>2
    <3>7. (taken \cup {h.obj}) \ {h.obj} = taken
      BY <3>2
    <3> QED BY <2>6, <3>2, <3>6, <3>7 DEF Larger, Fails
  <2> QED BY <2>2, <2>5, <2>6
<1> QED BY <1>1, <1>2

\* cache_alloc of any cache.
LEMMA AllocsFine ==
  ASSUME NEW m, NEW taken, NEW chain, Sane(m, taken, chain), NEW c \in 1 .. Len(m.cache),
         NEW o \in Allocs(m, c)
  PROVE  o.obj = FAULT \/ Refused(m, o) \/ Handed(o, taken, chain, c, Len(m.cache))
<1>1. \A g \in Growths(m, c) : g.obj = FAULT \/ Refused(m, g) \/ Larger(g, taken, chain, Len(m.cache))
  BY GrowthsFine
<1>2. o \in AllocWith(m, c, Growths(m, c))
  BY DEF Allocs
<1> QED BY <1>1, <1>2, AllocWithFine

-----------------------------------------------------------------------------
(* The inductive invariant.                                                *)

HeldObjects == {h.obj : h \in held}
HeldCaches == {h.obj : h \in {g \in held : g.cache = CACHES}}

\* Until the machine stops, memory is sane for what callers hold.
SaneInv == Running => Sane(mem, HeldObjects, HeldCaches)

\* A memory with the lists of the first n caches and nothing else.
Fresh(m, own, n) ==
  /\ Owned(m, own) /\ DOMAIN own = ListHeads(n) /\ \A x \in DOMAIN own : own[x] = x
  /\ m.slab = << >> /\ m.cache \in Seq({NoObjects}) /\ Len(m.cache) = n

LEMMA FreshFirst ==
  ASSUME NEW m, m = [next |-> << >>, prev |-> << >>, slab |-> << >>, cache |-> << >>]
  PROVE  Fresh(m, << >>, 0)
<1>1. DOMAIN << >> = {} /\ ListHeads(0) = {}
  BY DEF ListHeads
<1>a. PICK e : e = << >>
  OBVIOUS
<1>2. e \in [{} -> {}] /\ DOMAIN e = {}
  <2>1. e \in Seq({})
    BY <1>a
  <2> QED BY <1>1, <1>a, <2>1
<1>3. m.next = e /\ m.prev = e /\ m.slab = e /\ m.cache = e
      /\ m = [next |-> m.next, prev |-> m.prev, slab |-> m.slab, cache |-> m.cache]
  BY <1>a
<1>4. Owned(m, e)
  <2>1. IsFiniteSet({})
    BY FS_EmptySet
  <2>2. Paired(e, e)
    BY <1>2, <2>1 DEF Paired
  <2> QED BY <1>2, <1>3, <2>2 DEF Owned, Lists
<1>5. e \in Seq({NoObjects}) /\ Len(e) = 0
  BY <1>a
<1> QED BY <1>1, <1>2, <1>3, <1>4, <1>5, <1>a DEF Fresh

LEMMA FreshNext ==
  ASSUME NEW m, NEW own, NEW n \in Nat, Fresh(m, own, n), NEW c, c = n + 1
  PROVE  \E own2 : Fresh(CacheInit(m, c), own2, c)
<1>1. \A l \in SlabLists : ListHead(c, l) \notin DOMAIN own
  <2> TAKE l \in SlabLists
  <2>1. \A d \in 1 .. n : d # c
    OBVIOUS
  <2>2. ASSUME NEW x \in ListHeads(n) PROVE ListHead(c, l) # x
    <3>1. PICK d \in 1 .. n, k \in SlabLists : x = ListHead(d, k)
      BY DEF ListHeads
    <3> QED BY <2>1, <3>1, Distinct
  <2> QED BY <2>2 DEF Fresh
<1>2. PICK own2 : CacheAdded(m, own, c, CacheInit(m, c), own2)
  BY <1>1, CacheInitLists DEF Fresh
<1>3. ListHeads(c) = ListHeads(n) \cup {ListHead(c, l) : l \in SlabLists}
  <2>1. \A d \in 1 .. c : d = c \/ d \in 1 .. n
    OBVIOUS
  <2>2. c \in 1 .. c /\ \A d \in 1 .. n : d \in 1 .. c
    OBVIOUS
  <2> QED BY <2>1, <2>2 DEF ListHeads
<1>4. /\ CacheInit(m, c).cache \in Seq({NoObjects}) /\ Len(CacheInit(m, c).cache) = c
  <2>1. PICK x, S : x = NoObjects /\ S = {NoObjects}
    OBVIOUS
  <2>2. PICK q : q = m.cache
    OBVIOUS
  <2>3. q \in Seq(S) /\ Len(q) = n /\ x \in S
    BY <2>1, <2>2 DEF Fresh
  <2>4. CacheInit(m, c).cache = Append(q, x)
    BY <1>2, <2>1, <2>2 DEF CacheAdded
  <2>5. Append(q, x) \in Seq(S) /\ Len(Append(q, x)) = n + 1
    BY ONLY <2>3
  <2> QED BY <2>1, <2>4, <2>5
<1>5. /\ Owned(CacheInit(m, c), own2) /\ CacheInit(m, c).slab = << >>
      /\ DOMAIN own2 = ListHeads(c) /\ \A x \in DOMAIN own2 : own2[x] = x
  <2>1. /\ DOMAIN own2 = DOMAIN own \cup {ListHead(c, l) : l \in SlabLists}
        /\ \A l \in SlabLists : own2[ListHead(c, l)] = ListHead(c, l)
        /\ \A x \in DOMAIN own : own2[x] = own[x]
        /\ DOMAIN own = ListHeads(n) /\ \A x \in DOMAIN own : own[x] = x
        /\ Owned(CacheInit(m, c), own2) /\ CacheInit(m, c).slab = m.slab /\ m.slab = << >>
    BY <1>2 DEF Fresh, CacheAdded
  <2> QED BY <1>3, <2>1
<1> QED BY <1>4, <1>5 DEF Fresh

LEMMA InitSane == SlabInit => SaneInv
<1> SUFFICES ASSUME SlabInit PROVE SaneInv
  OBVIOUS
<1> DEFINE none == [next |-> << >>, prev |-> << >>, slab |-> << >>, cache |-> << >>]
           one == CacheInit(none, SLABS)
           two == CacheInit(one, CACHES)
<1>1. mem = ListInit(two, Chain)
  BY DEF SlabInit
<1>2. Fresh(none, << >>, 0)
  BY FreshFirst
<1>3. \E own : Fresh(one, own, SLABS)
  <2>1. SLABS = 0 + 1
    BY DEF SLABS
  <2> HIDE DEF none
  <2> QED BY <1>2, <2>1, FreshNext
<1>4. PICK own : Fresh(two, own, CACHES)
  <2>1. CACHES = SLABS + 1 /\ SLABS \in Nat
    BY DEF SLABS, CACHES
  <2> HIDE DEF one
  <2> QED BY <1>3, <2>1, FreshNext
<1> HIDE DEF two
<1>5. /\ Owned(two, own) /\ DOMAIN own = ListHeads(CACHES) /\ \A x \in DOMAIN own : own[x] = x
      /\ two.slab = << >> /\ two.cache \in Seq({NoObjects}) /\ Len(two.cache) = CACHES
  BY <1>4 DEF Fresh
<1>a. PICK put : put = Store(own, Chain, Chain)
  OBVIOUS
<1>6. Chain \notin DOMAIN own
  <2>1. ASSUME NEW x \in ListHeads(CACHES) PROVE x # Chain
    <3>1. PICK d \in 1 .. CACHES, k \in SlabLists : x = ListHead(d, k)
      BY DEF ListHeads
    <3>2. k # "chain"
      BY DEF SlabLists
    <3> QED BY <3>1, <3>2, Tags
  <2> QED BY <1>5, <2>1
<1>7. Owned(mem, put) /\ mem.slab = << >> /\ mem.cache = two.cache
  <2>1. Alone(own, Chain)
    BY <1>6 DEF Alone
  <2>2. /\ Owned(ListInit(two, Chain), Store(own, Chain, Chain))
        /\ ListInit(two, Chain).slab = two.slab /\ ListInit(two, Chain).cache = two.cache
    BY <1>5, <2>1, OwnedInit
  <2> QED BY <1>1, <1>5, <1>a, <2>2
<1>8. DOMAIN put = ListHeads(CACHES) \cup {Chain} /\ \A x \in DOMAIN put : put[x] = x
  BY <1>5, <1>a DEF Store
<1>9. DOMAIN mem.slab = {} /\ mem.slab = [s \in DOMAIN mem.slab |-> mem.slab[s]]
  <2>1. mem.slab \in Seq({}) /\ DOMAIN mem.slab = {}
    BY <1>7
  <2> QED BY <2>1
<1>10. \A d : Of(mem, d) = {}
  BY <1>9 DEF Of
<1>11. Heads(mem) = {} /\ AllObjs(mem) = {} /\ Tops(mem) = ListHeads(CACHES) \cup {Chain}
  BY <1>5, <1>7, <1>9 DEF Heads, AllObjs, Tops, Freelists
<1>12. Typed(mem)
  <2>1. NoObjects \in [total_num_objs : Nat, total_num_slabs : Nat]
    BY DEF NoObjects
  <2>2. mem.cache \in Seq([total_num_objs : Nat, total_num_slabs : Nat])
    <3> DEFINE R == [total_num_objs : Nat, total_num_slabs : Nat]
    <3>1. NoObjects \in R
      BY <2>1
    <3>2. PICK x, S : x = NoObjects /\ S = {NoObjects}
      OBVIOUS
    <3> HIDE DEF R
    <3>3. mem.cache \in Seq(S) /\ \A y \in S : y \in R
      BY <1>5, <1>7, <3>1, <3>2
    <3>4. mem.cache \in Seq(R)
      BY ONLY <3>3
    <3> QED BY <3>4 DEF R
  <2>3. CACHES \in CACHES .. MaxCaches
    BY SlabAssumption DEF CACHES
  <2> QED BY <1>5, <1>7, <1>9, <2>2, <2>3 DEF Typed
<1>13. Headed(mem, {})
  BY <1>9 DEF Headed
<1>14. Counted(mem, {})
  <2>1. ASSUME NEW d \in 1 .. Len(mem.cache)
        PROVE  /\ mem.cache[d].total_num_slabs = Cardinality(Of(mem, d))
               /\ mem.cache[d].total_num_objs = PerSlab[d] * Cardinality(Of(mem, d))
    <3>1. mem.cache[d] = NoObjects
      BY <1>5, <1>7
    <3>2. Cardinality(Of(mem, d)) = 0
      BY <1>10, FS_EmptySet
    <3>3. PerSlab[d] \in Nat
      BY <1>5, <1>7, SlabAssumption DEF CACHES
    <3>4. PerSlab[d] * 0 = 0
      BY <3>3
    <3> QED BY <3>1, <3>2, <3>4 DEF NoObjects
  <2> QED BY <1>9, <2>1 DEF Counted
<1>15. Placed(mem, put, {}, {})
  BY <1>8, <1>9, <1>11 DEF Placed
<1>16. WF(mem, put, {}, {})
  BY <1>7, <1>12, <1>13, <1>14, <1>15 DEF WF
<1>17. HeldObjects = {} /\ HeldCaches = {}
  BY DEF SlabInit, HeldObjects, HeldCaches
<1> QED BY <1>16, <1>17 DEF Sane, SaneInv

LEMMA NextSane == SaneInv /\ [SlabNext]_slabVars => SaneInv'
<1> SUFFICES ASSUME SaneInv, [SlabNext]_slabVars, Running' PROVE Sane(mem', HeldObjects', HeldCaches')
  BY DEF SaneInv
<1>0. ASSUME Running PROVE /\ Sane(mem, HeldObjects, HeldCaches) /\ HeldCaches \subseteq HeldObjects
                           /\ Len(mem.cache) \in CACHES .. MaxCaches /\ DOMAIN mem.cache = 1 .. Len(mem.cache)
  <2>1. PICK own : WF(mem, own, HeldObjects, HeldCaches)
    BY <1>0 DEF SaneInv, Sane
  <2>2. Typed(mem)
    BY <2>1 DEF WF
  <2>3. DOMAIN mem.cache = 1 .. Len(mem.cache)
    <3> DEFINE R == [total_num_objs : Nat, total_num_slabs : Nat]
    <3>1. mem.cache \in Seq(R)
      BY <2>2 DEF Typed
    <3> HIDE DEF R
    <3> QED BY <3>1
  <2> QED BY <2>1, <2>2, <2>3 DEF Sane, WF, Typed
<1>1. ASSUME NEW c \in 1 .. MaxCaches, Alloc(c) PROVE Sane(mem', HeldObjects', HeldCaches')
  <2>1. Running /\ c \in 1 .. Len(mem.cache) /\ c # CACHES
    BY <1>0, <1>1 DEF Alloc
  <2>2. PICK o \in Allocs(mem, c) : /\ mem' = o.mem /\ ret' = [cache |-> c, obj |-> o.obj]
                                    /\ held' = held \cup Holds(ret')
    BY <1>1 DEF Alloc
  <2>3. o.obj = FAULT \/ Refused(mem, o) \/ Handed(o, HeldObjects, HeldCaches, c, Len(mem.cache))
    BY <1>0, <2>1, AllocsFine
  <2>4. ret'.obj = o.obj /\ ret'.cache = c /\ o.obj # FAULT
    BY <2>2 DEF Running
  <2>5. CASE Refused(mem, o)
    <3>1. held' = held
      BY <2>2, <2>4, <2>5 DEF Refused, Holds, Fails
    <3>2. HeldObjects' = HeldObjects /\ HeldCaches' = HeldCaches
      BY <3>1 DEF HeldObjects, HeldCaches
    <3> QED BY <1>0, <2>1, <2>2, <2>5, <3>2 DEF Refused
  <2>6. CASE Handed(o, HeldObjects, HeldCaches, c, Len(mem.cache))
    <3>1. held' = held \cup {ret'}
      BY <2>2, <2>4, <2>6 DEF Handed, Holds, Fails
    <3>2. HeldObjects' = HeldObjects \cup {o.obj} /\ HeldCaches' = HeldCaches
      BY <2>1, <2>4, <3>1 DEF HeldObjects, HeldCaches
    <3> QED BY <2>2, <2>6, <3>2 DEF Handed
  <2> QED BY <2>3, <2>4, <2>5, <2>6
<1>2. CASE CacheCreate
  <2>1. Running /\ CACHES \in 1 .. Len(mem.cache) /\ Len(mem.cache) < MaxCaches
    BY <1>0, <1>2 DEF CacheCreate, CACHES
  <2>2. PICK o \in Allocs(mem, CACHES) :
          IF Fails(o) THEN ret' = [cache |-> CACHES, obj |-> FAULT]
          ELSE /\ mem' = ListAppend(CacheInit(o.mem, Len(mem.cache) + 1), Chain, o.obj)
               /\ ret' = [cache |-> CACHES, obj |-> o.obj]
               /\ held' = held \cup {ret'}
    BY <1>2 DEF CacheCreate
  <2>3. ~Fails(o) /\ ret'.obj = o.obj /\ ret'.cache = CACHES
    BY <2>2 DEF Running
  <2>4. Handed(o, HeldObjects, HeldCaches, CACHES, Len(mem.cache))
    <3>1. o.obj = FAULT \/ Refused(mem, o) \/ Handed(o, HeldObjects, HeldCaches, CACHES, Len(mem.cache))
      BY <1>0, <2>1, AllocsFine
    <3> QED BY <2>3, <3>1 DEF Refused, Fails
  <2>a. PICK taken : taken = HeldObjects \cup {o.obj}
    OBVIOUS
  <2>5. /\ Sane(o.mem, taken, HeldCaches) /\ Len(o.mem.cache) = Len(mem.cache)
        /\ o.obj \in taken \ HeldCaches
    BY <1>0, <2>1, <2>4, <2>a DEF Handed
  <2>b. PICK r : r = CacheInit(o.mem, Len(mem.cache) + 1)
    OBVIOUS
  <2>6. Sane(r, taken, HeldCaches)
    <3>1. PICK own : WF(o.mem, own, taken, HeldCaches)
      BY <2>5 DEF Sane
    <3>2. Sane(CacheInit(o.mem, Len(o.mem.cache) + 1), taken, HeldCaches)
      BY <2>1, <2>5, <3>1, CacheInitFacts
    <3> QED BY <2>5, <2>b, <3>2
  <2>7. Sane(ListAppend(r, Chain, o.obj), taken, HeldCaches \cup {o.obj})
    <3>1. PICK own : WF(r, own, taken, HeldCaches)
      BY <2>6 DEF Sane
    <3> QED BY <2>5, <3>1, ChainFacts
  <2>8. HeldObjects' = taken /\ HeldCaches' = HeldCaches \cup {o.obj}
    BY <2>2, <2>3, <2>a DEF HeldObjects, HeldCaches
  <2> QED BY <2>2, <2>3, <2>7, <2>8, <2>b
<1>3. ASSUME NEW c \in 1 .. MaxCaches, Grow(c) PROVE Sane(mem', HeldObjects', HeldCaches')
  <2>1. Running /\ c \in 1 .. Len(mem.cache) /\ held' = held
    BY <1>0, <1>3 DEF Grow
  <2>2. PICK o \in Growths(mem, c) : /\ mem' = o.mem
                                     /\ ret' = IF o.obj = FAULT THEN [cache |-> c, obj |-> FAULT] ELSE ret
    BY <1>3 DEF Grow
  <2>3. o.obj = FAULT \/ Refused(mem, o) \/ Larger(o, HeldObjects, HeldCaches, Len(mem.cache))
    BY <1>0, <2>1, GrowthsFine
  <2>4. o.obj # FAULT
    BY <2>2 DEF Running
  <2>5. HeldObjects' = HeldObjects /\ HeldCaches' = HeldCaches
    BY <2>1 DEF HeldObjects, HeldCaches
  <2> QED BY <1>0, <2>1, <2>2, <2>3, <2>4, <2>5 DEF Refused, Larger
<1>4. CASE ShrinkSlabs
  <2>a. PICK node : node = ListNext(mem, ListHead(SLABS, "slabs_free"))
    OBVIOUS
  <2>1. Running /\ node # NULL /\ mem' = Unmapped(ListRemove(mem, node), SlabOf(mem, node)) /\ held' = held
    BY <1>4, <2>a DEF ShrinkSlabs
  <2>2. PICK own : WF(mem, own, HeldObjects, HeldCaches)
    BY <1>0, <2>1 DEF Sane
  <2>3. Sane(Unmapped(ListRemove(mem, node), SlabOf(mem, node)), HeldObjects, HeldCaches)
    BY <2>1, <2>2, <2>a, ShrinkFacts
  <2>4. HeldObjects' = HeldObjects /\ HeldCaches' = HeldCaches
    BY <2>1 DEF HeldObjects, HeldCaches
  <2> QED BY <2>1, <2>3, <2>4
<1>5. CASE UNCHANGED slabVars
  <2>1. Running /\ mem' = mem /\ HeldObjects' = HeldObjects /\ HeldCaches' = HeldCaches
    BY <1>5 DEF slabVars, Running, HeldObjects, HeldCaches
  <2> QED BY <1>0, <2>1
<1> QED BY <1>1, <1>2, <1>3, <1>4, <1>5 DEF SlabNext

LEMMA SpecSane == SlabSpec => []SaneInv
<1> QED BY InitSane, NextSane, PTL DEF SlabSpec

LEMMA SaneSound == SaneInv => Sound
<1> SUFFICES ASSUME SaneInv, Running PROVE
      /\ Linked
      /\ \A c \in DOMAIN mem.cache, list \in SlabLists :
           Ring(mem, ListHead(c, list)) = {mem.slab[s].node : s \in {t \in SlabsOf(c) : ListFor(t) = list}}
      /\ \A s \in DOMAIN mem.slab :
           /\ Ring(mem, Freelist(s)) = Objects(s) \ (Headers \cup {h.obj : h \in held})
           /\ Cardinality(Ring(mem, Freelist(s))) = PerSlab[mem.slab[s].cache] - mem.slab[s].num_objs_inuse
      /\ Cardinality(Headers) = Cardinality(DOMAIN mem.slab)
      /\ Ring(mem, Chain) = {h.obj : h \in {g \in held : g.cache = CACHES}}
  BY DEF Sound
<1>a. PICK taken : taken = HeldObjects
  OBVIOUS
<1>b. PICK chain : chain = HeldCaches
  OBVIOUS
<1>1. PICK own : WF(mem, own, taken, chain)
  BY <1>a, <1>b DEF SaneInv, Sane
<1>2. /\ Owned(mem, own) /\ Typed(mem) /\ Headed(mem, taken) /\ Counted(mem, taken)
      /\ DOMAIN own = Tops(mem) \cup Heads(mem) \cup AllObjs(mem) /\ \A n \in Tops(mem) : own[n] = n
      /\ DOMAIN own = DOMAIN mem.next /\ IsFiniteSet(DOMAIN mem.next)
  BY <1>1 DEF WF, Placed, Owned, Lists, Paired
<1>3. DOMAIN mem.cache = 1 .. Len(mem.cache)
  <2> DEFINE R == [total_num_objs : Nat, total_num_slabs : Nat]
  <2>1. mem.cache \in Seq(R)
    BY <1>2 DEF Typed
  <2> HIDE DEF R
  <2> QED BY <2>1
<1>4. /\ \A s : Objects(s) = Objs(mem, s) /\ ListFor(s) = ListIn(mem, s)
      /\ Headers = Heads(mem) /\ \A c : SlabsOf(c) = Of(mem, c)
  BY DEF Objects, Objs, ListFor, ListIn, Headers, Heads, SlabsOf, Of
<1>5. ASSUME NEW h \in Tops(mem) PROVE Ring(mem, h) = Class(own, h) \ {h}
  <2>1. h \in DOMAIN own /\ own[h] = h
    BY <1>2
  <2>2. Circle(mem.next, h, Class(own, h))
    BY <1>2, <2>1 DEF Owned
  <2>3. Class(own, h) \subseteq DOMAIN mem.next
    BY <1>2 DEF Class
  <2> QED BY <1>2, <2>2, <2>3, RingIs
<1>6. Linked
  <2>1. /\ DOMAIN mem.next = DOMAIN mem.prev
        /\ \A n \in DOMAIN mem.next : /\ mem.next[n] \in DOMAIN mem.next /\ mem.prev[mem.next[n]] = n
                                      /\ mem.prev[n] \in DOMAIN mem.next /\ mem.next[mem.prev[n]] = n
    BY <1>2 DEF Owned, Lists, Paired
  <2>2. \A c \in DOMAIN mem.cache :
          /\ mem.cache[c].total_num_slabs = Cardinality(SlabsOf(c))
          /\ mem.cache[c].total_num_objs = PerSlab[c] * Cardinality(SlabsOf(c))
    BY <1>2, <1>3, <1>4 DEF Counted
  <2>3. \A s \in DOMAIN mem.slab : mem.slab[s].num_objs_inuse \in 0 .. PerSlab[mem.slab[s].cache]
    BY <1>1, UsedFacts
  <2> QED BY <2>1, <2>2, <2>3 DEF Linked
<1>7. ASSUME NEW c \in DOMAIN mem.cache, NEW list \in SlabLists
      PROVE  Ring(mem, ListHead(c, list)) =
               {mem.slab[s].node : s \in {t \in SlabsOf(c) : ListFor(t) = list}}
  <2>a. PICK H : H = {mem.slab[s].node : s \in {t \in Of(mem, c) : ListIn(mem, t) = list}}
    OBVIOUS
  <2>1. ListHead(c, list) \in Tops(mem)
    BY <1>3 DEF Tops, ListHeads
  <2>2. Class(own, ListHead(c, list)) = {ListHead(c, list)} \cup H
    BY <1>1, <1>3, <2>a, Classes
  <2>3. ListHead(c, list) \notin H
    <3>1. H \subseteq Heads(mem)
      BY <2>a DEF Of, Heads
    <3> QED BY <1>1, <2>1, <3>1, Kinds
  <2>4. Ring(mem, ListHead(c, list)) = H
    BY <1>5, <2>1, <2>2, <2>3
  <2>5. H = {mem.slab[s].node : s \in {t \in SlabsOf(c) : ListFor(t) = list}}
    BY <1>4, <2>a
  <2> QED BY <2>4, <2>5
<1>8. ASSUME NEW s \in DOMAIN mem.slab
      PROVE  /\ Ring(mem, Freelist(s)) = Objs(mem, s) \ (Heads(mem) \cup taken)
             /\ Cardinality(Ring(mem, Freelist(s))) = PerSlab[mem.slab[s].cache] - mem.slab[s].num_objs_inuse
  <2>1. Freelist(s) \in Tops(mem)
    BY DEF Tops, Freelists
  <2>2. Class(own, Freelist(s)) = {Freelist(s)} \cup (Objs(mem, s) \ (Heads(mem) \cup taken))
    BY <1>1, Classes
  <2>3. Freelist(s) \notin Objs(mem, s)
    <3>1. Freelist(s)[1] = "freelist" /\ \A n \in Objs(mem, s) : n[1] = "obj"
      BY <1>1, Tags, Kinds
    <3> QED BY <3>1
  <2>4. Ring(mem, Freelist(s)) = Objs(mem, s) \ (Heads(mem) \cup taken)
    BY <1>5, <2>1, <2>2, <2>3
  <2> QED BY <1>1, <2>4, UsedFacts
<1>9. Cardinality(Headers) = Cardinality(DOMAIN mem.slab)
  <2> DEFINE b == [s \in DOMAIN mem.slab |-> mem.slab[s].node]
  <2>1. IsFiniteSet(DOMAIN mem.slab)
    <3>1. IsFiniteSet(1 .. MaxSlabs)
      BY SlabAssumption, FS_Interval
    <3> QED BY <1>2, <3>1, FS_Subset DEF Typed
  <2>2. b \in Bijection(DOMAIN mem.slab, Heads(mem))
    <3>1. b \in [DOMAIN mem.slab -> Heads(mem)]
      BY DEF Heads
    <3>2. \A s, t \in DOMAIN mem.slab : b[s] = b[t] => s = t
      BY <1>2 DEF Headed
    <3>3. \A x \in Heads(mem) : \E s \in DOMAIN mem.slab : b[s] = x
      BY DEF Heads
    <3> QED BY <3>1, <3>2, <3>3 DEF Bijection, Injection, Surjection, IsInjective
  <2>3. ExistsBijection(DOMAIN mem.slab, Heads(mem))
    BY <2>2 DEF ExistsBijection
  <2> QED BY <1>4, <2>1, <2>3, FS_Bijection
<1>10. Ring(mem, Chain) = chain
  <2>1. Chain \in Tops(mem)
    BY DEF Tops
  <2>2. Class(own, Chain) = {Chain} \cup chain
    BY <1>1, Classes
  <2>3. Chain \notin chain
    <3>1. chain \subseteq AllObjs(mem)
      BY <1>1 DEF WF
    <3> QED BY <1>1, <2>1, <3>1, Kinds
  <2> QED BY <1>5, <2>1, <2>2, <2>3
<1>11. taken = {h.obj : h \in held} /\ chain = {h.obj : h \in {g \in held : g.cache = CACHES}}
  BY <1>a, <1>b DEF HeldObjects, HeldCaches
<1>12. ASSUME NEW s \in DOMAIN mem.slab
       PROVE  /\ Ring(mem, Freelist(s)) = Objects(s) \ (Headers \cup {h.obj : h \in held})
              /\ Cardinality(Ring(mem, Freelist(s))) = PerSlab[mem.slab[s].cache] - mem.slab[s].num_objs_inuse
  BY <1>4, <1>8, <1>11
<1> QED BY <1>6, <1>7, <1>9, <1>10, <1>11, <1>12

\* Every slab is on the list that its count of objects says, an object is on its
\* slab's free list exactly if nobody has it, and no two slabs share a header: so
\* slab_select never finds a slab without an object to give (slab.c:104, 115).
THEOREM SlabSound == SlabSpec => []Sound
BY SpecSane, SaneSound, PTL

-----------------------------------------------------------------------------
(* The allocator is a pool of objects.                                     *)

Largest == Max({PerSlab[c] : c \in 1 .. MaxCaches})

LEMMA LargestSlab ==
  ASSUME NEW d \in 1 .. MaxCaches
  PROVE  PerSlab[d] \in Nat /\ Largest \in Nat /\ PerSlab[d] <= Largest
<1> DEFINE Best(k) == \E j \in 1 .. k : \A i \in 1 .. k : PerSlab[j] >= PerSlab[i]
           T == {k \in 1 .. MaxCaches : ~Best(k)}
           S == {PerSlab[c] : c \in 1 .. MaxCaches}
<1>1. MaxCaches \in Nat /\ \A c \in 1 .. MaxCaches : PerSlab[c] \in Nat \ {0}
  BY SlabAssumption
<1>2. T = {}
  <2> SUFFICES ASSUME T # {} PROVE FALSE
    OBVIOUS
  <2>1. PICK k \in T : \A l \in T : k <= l
    <3>1. T \subseteq Nat
      BY <1>1
    <3> HIDE DEF T
    <3> QED BY <3>1, LeastNat
  <2>2. k \in 1 .. MaxCaches /\ ~Best(k)
    OBVIOUS
  <2>3. CASE k = 1
    <3>1. \A i \in 1 .. k : i = 1
      BY <2>3
    <3>2. 1 \in 1 .. k /\ PerSlab[1] >= PerSlab[1]
      BY <1>1, <2>2, <2>3
    <3> QED BY <2>2, <3>1, <3>2
  <2>4. CASE k # 1
    <3>0. k - 1 \in 1 .. MaxCaches /\ ~(k <= k - 1)
      BY <1>1, <2>2, <2>4
    <3>1. k - 1 \in 1 .. MaxCaches /\ k - 1 \notin T
      <4> HIDE DEF T
      <4> QED BY <2>1, <3>0
    <3>2. PICK j \in 1 .. k - 1 : \A i \in 1 .. k - 1 : PerSlab[j] >= PerSlab[i]
      BY <3>1
    <3>3. \A i \in 1 .. k : i \in 1 .. k - 1 \/ i = k
      BY <2>2
    <3>4. j \in 1 .. k /\ k \in 1 .. k /\ j \in 1 .. MaxCaches
      BY <1>1, <2>2, <3>2
    <3>5. PerSlab[j] \in Nat /\ PerSlab[k] \in Nat
      BY <1>1, <2>2, <3>4
    <3>6. CASE PerSlab[j] >= PerSlab[k]
      BY <2>2, <3>2, <3>3, <3>4, <3>6
    <3>7. CASE PerSlab[k] > PerSlab[j]
      <4>1. \A i \in 1 .. k : PerSlab[k] >= PerSlab[i]
        <5> TAKE i \in 1 .. k
        <5>1. PerSlab[i] \in Nat
          <6>1. i \in 1 .. MaxCaches
            BY <1>1, <2>2
          <6> QED BY <1>1, <6>1
        <5>2. CASE i = k
          BY <3>5, <5>2
        <5>3. CASE i # k
          <6>1. PerSlab[j] >= PerSlab[i]
            BY <3>2, <3>3, <5>3
          <6> QED BY ONLY <3>5, <3>7, <5>1, <6>1
        <5> QED BY <5>2, <5>3
      <4> QED BY <2>2, <3>4, <4>1
    <3> QED BY <3>5, <3>6, <3>7
  <2> QED BY <2>3, <2>4
<1>3. Best(MaxCaches)
  <2>1. MaxCaches \in 1 .. MaxCaches
    BY <1>1
  <2> QED BY <1>2, <2>1
<1>4. \E x \in S : \A y \in S : x >= y
  BY <1>3
<1> HIDE DEF S
<1>5. Max(S) \in S /\ \A y \in S : Max(S) >= y
  BY <1>4 DEF Max
<1>6. PerSlab[d] \in S /\ S \subseteq Nat
  BY <1>1 DEF S
<1>7. PerSlab[d] \in Nat \ {0} /\ Max(S) \in Nat /\ Max(S) >= PerSlab[d]
  BY <1>1, <1>5, <1>6
<1> QED BY <1>7 DEF S, Largest

\* Where the pool's objects are.
PoolObjects == {Obj(s, i) : s \in 1 .. MaxSlabs, i \in 1 .. Largest}

\* What is handed out is free, and a place that the pool knows.
LEMMA HandedGranted ==
  ASSUME NEW o, NEW taken, NEW chain, NEW c \in 1 .. MaxCaches, NEW n, Handed(o, taken, chain, c, n)
  PROVE  o.obj \in PoolObjects \ taken
<1>1. PICK s \in Of(o.mem, c) : o.obj \in Objs(o.mem, s)
  BY DEF Handed
<1>2. s \in DOMAIN o.mem.slab /\ o.mem.slab[s].cache = c
  BY <1>1 DEF Of
<1>3. s \in 1 .. MaxSlabs
  BY <1>2 DEF Handed, Sane, WF, Typed
<1>4. PICK i \in 1 .. PerSlab[c] : o.obj = Obj(s, i)
  BY <1>1, <1>2 DEF Objs
<1>5. i \in 1 .. Largest
  BY <1>4, LargestSlab
<1>6. \A x \in 1 .. MaxSlabs, y \in 1 .. Largest : Obj(x, y) \in PoolObjects
  BY DEF PoolObjects
<1>7. o.obj \in PoolObjects
  BY <1>3, <1>4, <1>5, <1>6
<1> QED BY <1>7 DEF Handed

LEMMA PoolStep ==
  ASSUME SaneInv, SlabNext
  PROVE  Pool!Next \/ UNCHANGED Pool!vars
<1>0. ASSUME Running PROVE /\ Sane(mem, HeldObjects, HeldCaches)
                           /\ Len(mem.cache) \in CACHES .. MaxCaches /\ DOMAIN mem.cache = 1 .. Len(mem.cache)
  <2>1. Sane(mem, HeldObjects, HeldCaches) /\ Typed(mem)
    BY <1>0 DEF SaneInv, Sane, WF
  <2>2. DOMAIN mem.cache = 1 .. Len(mem.cache)
    <3> DEFINE R == [total_num_objs : Nat, total_num_slabs : Nat]
    <3>1. mem.cache \in Seq(R)
      BY <2>1 DEF Typed
    <3> HIDE DEF R
    <3> QED BY <3>1
  <2> QED BY <2>1, <2>2 DEF Typed
<1>1. Pool!Taken = HeldObjects
  BY DEF Pool!Taken, HeldObjects
<1>2. ASSUME NEW c \in 1 .. MaxCaches, NEW x \in PoolObjects \ HeldObjects,
             ret' = [cache |-> c, obj |-> x], held' = held \cup {ret'}
      PROVE  Pool!Next
  BY <1>1, <1>2 DEF Pool!Next, Pool!Grant, PoolObjects, Largest
<1>3. ASSUME NEW c \in 1 .. MaxCaches, NEW x \in {NULL, FAULT},
             ret' = [cache |-> c, obj |-> x], held' = held
      PROVE  Pool!Next
  BY <1>3 DEF Pool!Next, Pool!Refuse
<1>4. ASSUME NEW c \in 1 .. MaxCaches, Alloc(c) PROVE Pool!Next
  <2>1. Running /\ c \in 1 .. Len(mem.cache)
    BY <1>0, <1>4 DEF Alloc
  <2>2. PICK o \in Allocs(mem, c) : /\ ret' = [cache |-> c, obj |-> o.obj]
                                    /\ held' = held \cup Holds(ret')
    BY <1>4 DEF Alloc
  <2>3. o.obj = FAULT \/ Refused(mem, o) \/ Handed(o, HeldObjects, HeldCaches, c, Len(mem.cache))
    BY <1>0, <2>1, AllocsFine
  <2>4. ret'.obj = o.obj
    BY <2>2
  <2>5. CASE o.obj \in {NULL, FAULT}
    <3>1. held' = held
      BY <2>2, <2>4, <2>5 DEF Holds, Fails
    <3> QED BY <1>3, <2>2, <2>5, <3>1
  <2>6. CASE Handed(o, HeldObjects, HeldCaches, c, Len(mem.cache))
    <3>1. held' = held \cup {ret'}
      BY <2>2, <2>4, <2>6 DEF Handed, Holds, Fails
    <3>2. o.obj \in PoolObjects \ HeldObjects
      BY <2>6, HandedGranted
    <3> QED BY <1>2, <2>2, <3>1, <3>2
  <2> QED BY <2>3, <2>5, <2>6 DEF Refused
<1>5. CASE CacheCreate
  <2>1. Running /\ CACHES \in 1 .. Len(mem.cache) /\ CACHES \in 1 .. MaxCaches
    BY <1>0, <1>5, SlabAssumption DEF CacheCreate, CACHES
  <2>2. PICK o \in Allocs(mem, CACHES) :
          IF Fails(o) THEN ret' = [cache |-> CACHES, obj |-> FAULT] /\ held' = held
          ELSE ret' = [cache |-> CACHES, obj |-> o.obj] /\ held' = held \cup {ret'}
    BY <1>5 DEF CacheCreate
  <2>3. CASE Fails(o)
    BY <1>3, <2>1, <2>2, <2>3
  <2>4. CASE ~Fails(o)
    <3>1. o.obj = FAULT \/ Refused(mem, o) \/ Handed(o, HeldObjects, HeldCaches, CACHES, Len(mem.cache))
      BY <1>0, <2>1, AllocsFine
    <3>2. Handed(o, HeldObjects, HeldCaches, CACHES, Len(mem.cache))
      BY <2>4, <3>1 DEF Refused, Fails
    <3>3. o.obj \in PoolObjects \ HeldObjects
      BY <2>1, <3>2, HandedGranted
    <3> QED BY <1>2, <2>1, <2>2, <2>4, <3>3
  <2> QED BY <2>3, <2>4
<1>6. ASSUME NEW c \in 1 .. MaxCaches, Grow(c) PROVE Pool!Next \/ UNCHANGED Pool!vars
  <2>1. PICK o \in Growths(mem, c) : ret' = IF o.obj = FAULT THEN [cache |-> c, obj |-> FAULT] ELSE ret
    BY <1>6 DEF Grow
  <2>2. held' = held
    BY <1>6 DEF Grow
  <2>3. CASE o.obj = FAULT
    BY <1>3, <2>1, <2>2, <2>3
  <2>4. CASE o.obj # FAULT
    BY <2>1, <2>2, <2>4 DEF Pool!vars
  <2> QED BY <2>3, <2>4
<1>7. CASE ShrinkSlabs
  BY <1>7 DEF ShrinkSlabs, Pool!vars
<1> QED BY <1>4, <1>5, <1>6, <1>7 DEF SlabNext

\* cache_alloc never hands out memory that someone holds: the allocator implements
\* ObjectPool for every size of slab and heap.
THEOREM PoolRefinement == SlabSpec => ImplementsPool
<1>1. SlabInit => Pool!Init
  BY DEF SlabInit, Pool!Init
<1>2. SaneInv /\ [SlabNext]_slabVars => [Pool!Next]_(Pool!vars)
  <2> SUFFICES ASSUME SaneInv, [SlabNext]_slabVars PROVE Pool!Next \/ UNCHANGED Pool!vars
    OBVIOUS
  <2>1. CASE SlabNext
    BY <2>1, PoolStep
  <2>2. CASE UNCHANGED slabVars
    BY <2>2 DEF slabVars, Pool!vars
  <2> QED BY <2>1, <2>2
<1> QED BY <1>1, <1>2, SpecSane, PTL DEF SlabSpec, ImplementsPool, Pool!Spec
-----------------------------------------------------------------------------
(* Directories and paths.                                                  *)

\* A set of sequences that is not empty has one whose beginning is not in it.
LEMMA ShortestSeq ==
  ASSUME NEW S, NEW T, T \subseteq Seq(S), T # {}
  PROVE  \E p \in T : \/ p = <<>>
                      \/ \E q \in Seq(S) \ T, n \in S : p = Append(q, n)
<1> DEFINE L == {Len(p) : p \in T}
<1>0. \A p \in T : Len(p) \in Nat
  <2>1. \A p \in Seq(S) : Len(p) \in Nat
    OBVIOUS
  <2> QED BY <2>1
<1>1. L \subseteq Nat /\ L # {}
  BY <1>0
<1>2. PICK l \in L : \A y \in L : l <= y
  <2> HIDE DEF L
  <2> QED BY <1>1, LeastNat
<1>3. PICK p \in T : Len(p) = l
  OBVIOUS
<1>4. p \in Seq(S)
  OBVIOUS
<1>5. CASE Len(p) = 0
  BY <1>4, <1>5
<1>6. CASE Len(p) # 0
  <2> DEFINE q == SubSeq(p, 1, Len(p) - 1)
  <2>0. PICK k \in Nat : Len(p) = k + 1
    BY <1>4, <1>6
  <2>a. q \in Seq(S) /\ Len(q) = k /\ p[k + 1] \in S /\ \A j \in 1 .. k : q[j] = p[j]
    BY <1>4, <2>0
  <2> HIDE DEF q
  <2>b. Append(q, p[k + 1]) = p
    BY <1>4, <2>0, <2>a
  <2>1. q \in Seq(S) /\ Len(q) = Len(p) - 1 /\ p[Len(p)] \in S /\ p = Append(q, p[Len(p)])
    BY <2>0, <2>a, <2>b
  <2>2. q \notin T
    <3>1. q \in T => Len(q) \in L
      OBVIOUS
    <3> HIDE DEF L
    <3>2. q \in T => l <= Len(q)
      BY <1>2, <3>1
    <3>3. Len(q) = k /\ l = k + 1
      BY <1>3, <2>0, <2>a
    <3> QED BY <3>2, <3>3
  <2> QED BY <2>1, <2>2
<1> QED BY <1>5, <1>6

LEMMA AppendOnce ==
  ASSUME NEW S, NEW g \in Seq(S), NEW h \in Seq(S), NEW m, NEW n, Append(g, m) = Append(h, n)
  PROVE  g = h /\ m = n
<1>1. PICK a, b : a = Append(g, m) /\ b = Append(h, n) /\ a = b
  OBVIOUS
<1>2. /\ Len(a) = Len(g) + 1 /\ a[Len(g) + 1] = m /\ \A k \in 1 .. Len(g) : a[k] = g[k]
      /\ Len(b) = Len(h) + 1 /\ b[Len(h) + 1] = n /\ \A k \in 1 .. Len(h) : b[k] = h[k]
      /\ Len(g) \in Nat /\ Len(h) \in Nat
  BY <1>1
<1>3. Len(g) = Len(h)
  BY <1>1, <1>2
<1>4. m = n /\ \A k \in 1 .. Len(g) : g[k] = h[k]
  BY <1>1, <1>2, <1>3
<1>5. g = h
  BY <1>3, <1>4
<1> QED BY <1>4, <1>5

\* The steps of Walk as a function.
Walking(i, r, p, n, w) ==
  w = [k \in 0 .. n |-> IF k = 0 THEN r ELSE Step(i, w[k - 1], p[k])]

LEMMA WalkingAt ==
  ASSUME NEW i, NEW r, NEW p, NEW n \in Nat, NEW w, Walking(i, r, p, n, w)
  PROVE  w[0] = r /\ \A k \in 1 .. n : w[k] = Step(i, w[k - 1], p[k])
<1>1. \A k \in 0 .. n : w[k] = IF k = 0 THEN r ELSE Step(i, w[k - 1], p[k])
  BY Zenon DEF Walking
<1>2. 0 \in 0 .. n /\ \A k \in 1 .. n : k \in 0 .. n /\ k # 0
  OBVIOUS
<1> QED BY <1>1, <1>2

LEMMA WalkingExists ==
  ASSUME NEW i, NEW r, NEW p, NEW size \in Nat
  PROVE  \E w : Walking(i, r, p, size, w)
<1> DEFINE T == {n \in Nat : ~ \E w : Walking(i, r, p, n, w)}
<1> SUFFICES ASSUME T # {} PROVE FALSE
  OBVIOUS
<1>1. PICK n \in T : \A k \in T : n <= k
  BY LeastNat
<1>2. CASE n = 0
  <2> DEFINE w == [k \in 0 .. 0 |-> r]
  <2>1. w = [k \in 0 .. 0 |-> IF k = 0 THEN r ELSE Step(i, w[k - 1], p[k])]
    OBVIOUS
  <2> QED BY <1>1, <1>2, <2>1 DEF Walking
<1>3. CASE n # 0
  <2>1. n - 1 \in Nat /\ n - 1 \notin T
    BY <1>1, <1>3
  <2>2. PICK v : Walking(i, r, p, n - 1, v)
    BY <2>1
  <2>3. v[0] = r /\ \A k \in 1 .. n - 1 : v[k] = Step(i, v[k - 1], p[k])
    BY <2>1, <2>2, WalkingAt
  <2> DEFINE w == [k \in 0 .. n |-> IF k = n THEN Step(i, v[n - 1], p[n]) ELSE v[k]]
  <2>4. ASSUME NEW k \in 0 .. n
        PROVE  w[k] = IF k = 0 THEN r ELSE Step(i, w[k - 1], p[k])
    <3>1. CASE k = 0
      BY <1>3, <2>3, <3>1
    <3>2. CASE k = n
      <4>1. k - 1 \in 0 .. n /\ k - 1 # n
        BY <1>3, <3>2
      <4> QED BY <1>3, <3>2, <4>1
    <3>3. CASE k \in 1 .. n - 1
      <4>1. k - 1 \in 0 .. n /\ k - 1 # n /\ k # n /\ k # 0
        BY <3>3
      <4> QED BY <2>3, <3>3, <4>1
    <3> QED BY <3>1, <3>2, <3>3
  <2>5. w = [k \in 0 .. n |-> w[k]]
    OBVIOUS
  <2> HIDE DEF w
  <2>6. w = [k \in 0 .. n |-> IF k = 0 THEN r ELSE Step(i, w[k - 1], p[k])]
    BY <2>4, <2>5, Zenon
  <2>7. Walking(i, r, p, n, w)
    BY <2>6 DEF Walking
  <2> QED BY <1>1, <2>7
<1> QED BY <1>2, <1>3

\* Walk is such a function's last value.
LEMMA WalkIs ==
  ASSUME NEW i, NEW r, NEW S, NEW p \in Seq(S)
  PROVE  \E w : Walking(i, r, p, Len(p), w) /\ Walk(i, r, p) = w[Len(p)]
<1> DEFINE c == CHOOSE w : Walking(i, r, p, Len(p), w)
<1>1. Walk(i, r, p) = c[Len(p)]
  BY DEF Walk, Walking
<1>2. Walking(i, r, p, Len(p), c)
  BY WalkingExists
<1> QED BY <1>1, <1>2

\* Two of them agree as far as the names do.
LEMMA WalkingAgree ==
  ASSUME NEW i, NEW r, NEW p, NEW q, NEW n \in Nat, NEW m \in Nat, n <= m, NEW w, NEW v,
         Walking(i, r, p, n, w), Walking(i, r, q, m, v), \A k \in 1 .. n : p[k] = q[k]
  PROVE  \A k \in 0 .. n : w[k] = v[k]
<1>1. /\ w[0] = r /\ \A k \in 1 .. n : w[k] = Step(i, w[k - 1], p[k])
      /\ v[0] = r /\ \A k \in 1 .. m : v[k] = Step(i, v[k - 1], q[k])
  BY WalkingAt
<1> DEFINE T == {k \in 0 .. n : w[k] # v[k]}
<1> SUFFICES ASSUME T # {} PROVE FALSE
  OBVIOUS
<1>2. PICK k \in T : \A j \in T : k <= j
  <2>1. T \subseteq Nat
    OBVIOUS
  <2> HIDE DEF T
  <2> QED BY <2>1, LeastNat
<1>3. k # 0
  BY <1>1
<1>4. k - 1 \in 0 .. n /\ ~(k <= k - 1) /\ k \in 1 .. n /\ k \in 1 .. m
  BY <1>3
<1>5. w[k - 1] = v[k - 1]
  BY <1>2, <1>4
<1> QED BY <1>1, <1>4, <1>5

\* The way of no names.
LEMMA WalkFirst == ASSUME NEW i, NEW r PROVE Walk(i, r, <<>>) = r
<1>1. PICK e : e = <<>>
  OBVIOUS
<1>2. e \in Seq({}) /\ Len(e) = 0
  BY <1>1
<1>3. PICK w : Walking(i, r, e, Len(e), w) /\ Walk(i, r, e) = w[Len(e)]
  BY <1>2, WalkIs
<1>4. Walking(i, r, e, 0, w)
  BY <1>2, <1>3
<1>5. w[0] = r
  BY <1>4, WalkingAt
<1> QED BY <1>1, <1>2, <1>3, <1>5

\* A name more on the way.
LEMMA WalkStep ==
  ASSUME NEW i, NEW r, NEW S, NEW p \in Seq(S), NEW n \in S
  PROVE  Walk(i, r, Append(p, n)) = Step(i, Walk(i, r, p), n)
<1>1. PICK q : q = Append(p, n)
  OBVIOUS
<1>2. /\ q \in Seq(S) /\ Len(q) = Len(p) + 1 /\ q[Len(p) + 1] = n /\ Len(p) \in Nat
      /\ \A k \in 1 .. Len(p) : p[k] = q[k]
  BY <1>1
<1>3. PICK w : Walking(i, r, p, Len(p), w) /\ Walk(i, r, p) = w[Len(p)]
  BY WalkIs
<1>4. PICK v : Walking(i, r, q, Len(q), v) /\ Walk(i, r, q) = v[Len(q)]
  BY <1>2, WalkIs
<1>a. Len(q) \in Nat /\ Len(q) \in 1 .. Len(q)
  BY <1>2
<1>b. \A k \in 1 .. Len(q) : v[k] = Step(i, v[k - 1], q[k])
  BY <1>4, <1>a, WalkingAt
<1>5. v[Len(q)] = Step(i, v[Len(q) - 1], q[Len(q)])
  BY <1>a, <1>b
<1>6. w[Len(p)] = v[Len(p)]
  <2>1. PICK a, b : a = Len(p) /\ b = Len(q)
    OBVIOUS
  <2>2. /\ a \in Nat /\ b \in Nat /\ a <= b
        /\ Walking(i, r, p, a, w) /\ Walking(i, r, q, b, v) /\ \A k \in 1 .. a : p[k] = q[k]
    BY <1>2, <1>3, <1>4, <2>1
  <2>3. \A k \in 0 .. a : w[k] = v[k]
    BY ONLY <2>2, WalkingAgree
  <2>4. a \in 0 .. a
    BY <2>2
  <2> QED BY <2>1, <2>3, <2>4
<1> QED BY <1>1, <1>2, <1>3, <1>4, <1>5, <1>6

-----------------------------------------------------------------------------
(* The table of inodes.                                                    *)

LEMMA MinFacts ==
  ASSUME NEW T, T \subseteq Nat, T # {}
  PROVE  Min(T) \in T /\ \A y \in T : Min(T) <= y
<1>1. \E x \in T : \A y \in T : x <= y
  BY LeastNat
<1> QED BY <1>1 DEF Min

LEMMA MaxFacts ==
  ASSUME NEW n \in Nat, NEW T, T \subseteq 0 .. n, T # {}
  PROVE  Max(T) \in T /\ \A y \in T : Max(T) >= y
<1> DEFINE L == {n - x : x \in T}
<1>0. \A x \in T : n - x \in Nat
  OBVIOUS
<1>1. L \subseteq Nat /\ L # {}
  BY <1>0
<1>2. PICK l \in L : \A y \in L : l <= y
  <2> HIDE DEF L
  <2> QED BY <1>1, LeastNat
<1>3. PICK x \in T : l = n - x
  OBVIOUS
<1>4. ASSUME NEW y \in T PROVE x >= y
  <2>1. n - y \in L
    OBVIOUS
  <2>2. n - x <= n - y
    BY <1>2, <1>3, <2>1
  <2>3. x \in 0 .. n /\ y \in 0 .. n
    OBVIOUS
  <2> QED BY <2>2, <2>3
<1> QED BY <1>3, <1>4 DEF Max

Node == [kind : {"INODE_DIR", "INODE_FILE"}, name : Name, entries : Seq(Nat), content : FileContent]

\* The entries of a directory are later inodes, each in one directory.
Table(i) ==
  /\ i \in Seq(Node)
  /\ \A d \in 1 .. Len(i) : i[d].kind = "INODE_FILE" => i[d].entries = <<>>
  /\ \A d \in 1 .. Len(i) : \A k \in 1 .. Len(i[d].entries) : i[d].entries[k] \in d + 1 .. Len(i)
  /\ \A d, e \in 1 .. Len(i) : \A k \in 1 .. Len(i[d].entries), l \in 1 .. Len(i[e].entries) :
       i[d].entries[k] = i[e].entries[l] => d = e

LEMMA TableTypes ==
  ASSUME NEW i, Table(i)
  PROVE  /\ Len(i) \in Nat /\ DOMAIN i = 1 .. Len(i)
         /\ Errors \cap DOMAIN i = {}
         /\ \A d \in DOMAIN i :
              /\ i[d] \in Node /\ i[d].name \in Name /\ Len(i[d].entries) \in Nat
              /\ i[d].kind \in {"INODE_DIR", "INODE_FILE"} /\ i[d].content \in FileContent
              /\ i[d].entries \in Seq(Nat)
              /\ DOMAIN i[d].entries = 1 .. Len(i[d].entries)
<1>1. i \in Seq(Node)
  BY DEF Table
<1>2. Len(i) \in Nat /\ DOMAIN i = 1 .. Len(i) /\ \A d \in DOMAIN i : i[d] \in Node
  BY <1>1
<1>3. Errors \cap DOMAIN i = {}
  BY <1>2 DEF Errors, UNIMPLEMENTED, NAME_LIMIT, FILE_NOT_FOUND, OUT_OF_MEMORY
<1>4. ASSUME NEW d \in DOMAIN i
      PROVE  /\ i[d].name \in Name /\ Len(i[d].entries) \in Nat
             /\ i[d].kind \in {"INODE_DIR", "INODE_FILE"} /\ i[d].content \in FileContent
             /\ i[d].entries \in Seq(Nat)
             /\ DOMAIN i[d].entries = 1 .. Len(i[d].entries)
  <2>1. i[d] \in Node
    BY <1>2
  <2>2. /\ i[d].name \in Name /\ i[d].entries \in Seq(Nat)
        /\ i[d].kind \in {"INODE_DIR", "INODE_FILE"} /\ i[d].content \in FileContent
    BY <2>1 DEF Node
  <2> QED BY <2>2
<1> QED BY <1>2, <1>3, <1>4

\* What a lookup in a directory finds.
LEMMA StepFacts ==
  ASSUME NEW i, Table(i), NEW d \in DOMAIN i, NEW n
  PROVE  \/ /\ Step(i, d, n) \in {UNIMPLEMENTED, FILE_NOT_FOUND}
            /\ Step(i, d, n) = IF i[d].kind = "INODE_DIR" THEN FILE_NOT_FOUND ELSE UNIMPLEMENTED
            /\ \A k \in DOMAIN i[d].entries : i[i[d].entries[k]].name # n
         \/ /\ Step(i, d, n) \in DOMAIN i /\ Step(i, d, n) > d
            /\ i[d].kind = "INODE_DIR"
            /\ i[Step(i, d, n)].name = n
            /\ \E k \in DOMAIN i[d].entries : Step(i, d, n) = i[d].entries[k]
<1>1. /\ DOMAIN i = 1 .. Len(i) /\ Len(i) \in Nat /\ i[d].kind \in {"INODE_DIR", "INODE_FILE"}
      /\ DOMAIN i[d].entries = 1 .. Len(i[d].entries) /\ Len(i[d].entries) \in Nat
  BY TableTypes
<1>2. /\ \A k \in DOMAIN i[d].entries : i[d].entries[k] \in DOMAIN i /\ i[d].entries[k] > d
      /\ i[d].kind = "INODE_FILE" => i[d].entries = <<>>
  BY <1>1 DEF Table
<1>3. CASE i[d].kind = "INODE_FILE"
  <2>1. DOMAIN i[d].entries = {}
    BY <1>2, <1>3
  <2> QED BY <1>3, <2>1 DEF Step
<1>4. CASE i[d].kind = "INODE_DIR" /\ Entries(i, d, n) = {}
  BY <1>4 DEF Step, Entries
<1>5. CASE i[d].kind = "INODE_DIR" /\ Entries(i, d, n) # {}
  <2>1. Entries(i, d, n) \subseteq Nat
    BY <1>1 DEF Entries
  <2>2. PICK k : k = Min(Entries(i, d, n)) /\ k \in Entries(i, d, n)
    BY <1>5, <2>1, MinFacts
  <2>3. Step(i, d, n) = i[d].entries[k]
    BY <1>5, <2>2 DEF Step
  <2> QED BY <1>2, <1>5, <2>2, <2>3 DEF Entries
<1> QED BY <1>1, <1>3, <1>4, <1>5

\* The places of names, from the root.
LEMMA WalkFacts ==
  ASSUME NEW i, Table(i), 1 \in DOMAIN i, NEW S, NEW p \in Seq(S)
  PROVE  \/ Walk(i, 1, p) \in {UNIMPLEMENTED, FILE_NOT_FOUND}
         \/ Walk(i, 1, p) \in DOMAIN i /\ Walk(i, 1, p) > Len(p)
<1> DEFINE T == {q \in Seq(S) : ~ \/ Walk(i, 1, q) \in {UNIMPLEMENTED, FILE_NOT_FOUND}
                                  \/ Walk(i, 1, q) \in DOMAIN i /\ Walk(i, 1, q) > Len(q)}
<1> SUFFICES ASSUME T # {} PROVE FALSE
  OBVIOUS
<1>1. PICK q \in T : q = <<>> \/ \E h \in Seq(S) \ T, n \in S : q = Append(h, n)
  <2>1. T \subseteq Seq(S)
    OBVIOUS
  <2> HIDE DEF T
  <2> QED BY <2>1, ShortestSeq
<1>2. CASE q = <<>>
  <2>1. Walk(i, 1, q) = 1 /\ Len(q) = 0
    BY <1>2, WalkFirst
  <2> QED BY <2>1
<1>3. CASE q # <<>>
  <2>1. PICK h \in Seq(S) \ T, n \in S : q = Append(h, n)
    BY <1>1, <1>3
  <2>2. PICK d : d = Walk(i, 1, h)
    OBVIOUS
  <2>a. Walk(i, 1, Append(h, n)) = Step(i, Walk(i, 1, h), n)
    BY <2>1, WalkStep
  <2>b. Len(q) = Len(h) + 1 /\ Len(h) \in Nat
    BY <2>1
  <2>3. Walk(i, 1, q) = Step(i, d, n) /\ Len(q) = Len(h) + 1 /\ Len(h) \in Nat
    BY <2>1, <2>2, <2>a, <2>b
  <2>4. d \in {UNIMPLEMENTED, FILE_NOT_FOUND} \/ (d \in DOMAIN i /\ d > Len(h))
    BY <2>1, <2>2
  <2>5. CASE d \in DOMAIN i /\ d > Len(h)
    <3>1. DOMAIN i = 1 .. Len(i) /\ Len(i) \in Nat
      BY TableTypes
    <3>2. \/ Step(i, d, n) \in {UNIMPLEMENTED, FILE_NOT_FOUND}
          \/ Step(i, d, n) \in DOMAIN i /\ Step(i, d, n) > d
      <4>1. d \in DOMAIN i
        BY <2>5
      <4> QED BY <4>1, StepFacts
    <3>3. Step(i, d, n) \in DOMAIN i /\ Step(i, d, n) > d => Step(i, d, n) > Len(h) + 1
      BY <2>3, <2>5, <3>1
    <3> QED BY <2>3, <3>2, <3>3
  <2>6. CASE d \in {UNIMPLEMENTED, FILE_NOT_FOUND}
    <3>1. d \notin DOMAIN i
      BY <2>6, TableTypes DEF Errors
    <3>2. Step(i, d, n) = d
      BY <3>1 DEF Step
    <3> QED BY <2>3, <2>6, <3>2
  <2> QED BY <2>4, <2>5, <2>6
<1> QED BY <1>2, <1>3

\* e is an entry of the directory d.
Under(i, e, d) ==
  /\ d \in DOMAIN i /\ i[d].kind = "INODE_DIR" /\ e > d
  /\ \E k \in DOMAIN i[d].entries : e = i[d].entries[k]

\* A place that is there was reached through a directory.
LEMMA WalkBack ==
  ASSUME NEW i, Table(i), 1 \in DOMAIN i, NEW S, NEW p \in Seq(S), NEW n \in S,
         Walk(i, 1, Append(p, n)) \in DOMAIN i
  PROVE  Under(i, Walk(i, 1, Append(p, n)), Walk(i, 1, p)) /\ i[Walk(i, 1, Append(p, n))].name = n
<1>1. PICK d, e : d = Walk(i, 1, p) /\ e = Walk(i, 1, Append(p, n))
  OBVIOUS
<1>2. e = Step(i, d, n)
  BY <1>1, WalkStep
<1>3. e \in DOMAIN i /\ Errors \cap DOMAIN i = {}
  BY <1>1, TableTypes
<1>4. d \in DOMAIN i
  BY <1>2, <1>3 DEF Step
<1>5. /\ e > d /\ i[d].kind = "INODE_DIR" /\ i[e].name = n
      /\ \E k \in DOMAIN i[d].entries : e = i[d].entries[k]
  BY <1>2, <1>3, <1>4, StepFacts DEF Errors
<1> QED BY <1>1, <1>4, <1>5 DEF Under

\* No place is reached by two ways.
LEMMA WalkOnce ==
  ASSUME NEW i, Table(i), 1 \in DOMAIN i, NEW S, NEW a \in Seq(S), NEW b \in Seq(S),
         Walk(i, 1, a) = Walk(i, 1, b), Walk(i, 1, a) \in DOMAIN i
  PROVE  a = b
<1> DEFINE T == {p \in Seq(S) : /\ Walk(i, 1, p) \in DOMAIN i
                                /\ \E q \in Seq(S) : q # p /\ Walk(i, 1, q) = Walk(i, 1, p)}
<1> SUFFICES ASSUME T # {} PROVE FALSE
  OBVIOUS
<1>1. PICK p \in T : p = <<>> \/ \E h \in Seq(S) \ T, n \in S : p = Append(h, n)
  <2>1. T \subseteq Seq(S)
    OBVIOUS
  <2> HIDE DEF T
  <2> QED BY <2>1, ShortestSeq
<1>2. PICK q \in Seq(S) : q # p /\ Walk(i, 1, q) = Walk(i, 1, p)
  OBVIOUS
<1>3. PICK at : at = Walk(i, 1, p) /\ at = Walk(i, 1, q) /\ at \in DOMAIN i
  BY <1>2
<1>4. DOMAIN i = 1 .. Len(i) /\ Len(i) \in Nat
  BY TableTypes
<1>5. ASSUME NEW s \in Seq(S), s # <<>>, Walk(i, 1, s) = at
      PROVE  \E h \in Seq(S), n \in S :
               s = Append(h, n) /\ Under(i, at, Walk(i, 1, h)) /\ i[at].name = n
  <2>1. PICK h \in Seq(S), n \in S : s = Append(h, n)
    <3>1. {s} \subseteq Seq(S) /\ {s} # {}
      OBVIOUS
    <3>2. \E x \in {s} : x = <<>> \/ \E h \in Seq(S) \ {s}, n \in S : x = Append(h, n)
      BY ONLY <3>1, ShortestSeq
    <3> QED BY <1>5, <3>2
  <2>2. Walk(i, 1, Append(h, n)) \in DOMAIN i
    BY <1>3, <1>5, <2>1
  <2>3. Under(i, Walk(i, 1, Append(h, n)), Walk(i, 1, h)) /\ i[Walk(i, 1, Append(h, n))].name = n
    BY <2>2, WalkBack
  <2> QED BY <1>5, <2>1, <2>3
<1>6. ASSUME NEW s \in Seq(S), s # <<>>, Walk(i, 1, s) = at PROVE at # 1
  <2>1. PICK h \in Seq(S) : Under(i, at, Walk(i, 1, h))
    BY <1>5, <1>6
  <2> QED BY <1>4, <2>1 DEF Under
<1>7. p # <<>> /\ q # <<>>
  <2>1. Walk(i, 1, <<>>) = 1
    BY WalkFirst
  <2>2. p \in Seq(S)
    OBVIOUS
  <2>3. CASE p = <<>>
    BY <1>2, <1>3, <1>6, <2>1, <2>3
  <2>4. CASE q = <<>>
    BY <1>2, <1>3, <1>6, <2>1, <2>2, <2>4
  <2> QED BY <2>3, <2>4
<1>8. PICK g \in Seq(S), m \in S :
        q = Append(g, m) /\ Under(i, at, Walk(i, 1, g)) /\ i[at].name = m
  BY <1>2, <1>3, <1>5, <1>7
<1>9. PICK h \in Seq(S) \ T, n \in S : p = Append(h, n)
  BY <1>1, <1>7
<1>10. Under(i, at, Walk(i, 1, h)) /\ i[at].name = n
  <2>1. Walk(i, 1, Append(h, n)) \in DOMAIN i /\ h \in Seq(S)
    BY <1>3, <1>9
  <2>2. Under(i, Walk(i, 1, Append(h, n)), Walk(i, 1, h)) /\ i[Walk(i, 1, Append(h, n))].name = n
    BY <2>1, WalkBack
  <2> QED BY <1>3, <1>9, <2>2
<1>11. Walk(i, 1, h) = Walk(i, 1, g)
  <2>1. PICK d, e : d = Walk(i, 1, h) /\ e = Walk(i, 1, g)
    OBVIOUS
  <2>2. /\ d \in 1 .. Len(i) /\ e \in 1 .. Len(i)
        /\ DOMAIN i[d].entries = 1 .. Len(i[d].entries)
        /\ DOMAIN i[e].entries = 1 .. Len(i[e].entries)
    BY <1>4, <1>8, <1>10, <2>1, TableTypes DEF Under
  <2> QED BY <1>8, <1>10, <2>1, <2>2 DEF Table, Under
<1>12. g = h
  BY <1>9, <1>10, <1>11 DEF Under
<1> QED BY <1>2, <1>8, <1>9, <1>10, <1>12

-----------------------------------------------------------------------------
(* What can be found.                                                      *)

There(i, p) == p \in Seq(Name) /\ Walk(i, 1, p) \in DOMAIN i

\* A turn of Found adds the places a name further.
LEMMA BelowIs ==
  ASSUME NEW i, Table(i), 1 \in DOMAIN i, NEW p, There(i, p), NEW q
  PROVE  q \in Below(i, 1, p) <=> There(i, q) /\ \E n \in Name : q = Append(p, n)
<1>1. PICK d : d = Walk(i, 1, p) /\ d \in DOMAIN i /\ p \in Seq(Name)
  BY DEF There
<1>2. q \in Below(i, 1, p) <=> \E k \in DOMAIN i[d].entries : q = Append(p, i[i[d].entries[k]].name)
  BY <1>1 DEF Below
<1>3. ASSUME NEW k \in DOMAIN i[d].entries, q = Append(p, i[i[d].entries[k]].name)
      PROVE  There(i, q) /\ \E n \in Name : q = Append(p, n)
  <2>1. PICK n : n = i[i[d].entries[k]].name
    OBVIOUS
  <2>2. i[d].entries[k] \in DOMAIN i
    <3>1. DOMAIN i = 1 .. Len(i) /\ Len(i) \in Nat /\ DOMAIN i[d].entries = 1 .. Len(i[d].entries)
      BY <1>1, TableTypes
    <3>2. i[d].entries[k] \in d + 1 .. Len(i)
      BY <1>1, <3>1 DEF Table
    <3> QED BY <1>1, <3>1, <3>2
  <2>3. n \in Name
    BY <2>1, <2>2, TableTypes
  <2>4. Step(i, d, n) \in DOMAIN i
    BY <1>1, <2>1, StepFacts
  <2>5. Walk(i, 1, Append(p, n)) = Step(i, d, n)
    BY <1>1, <2>3, WalkStep
  <2>6. Append(p, n) \in Seq(Name)
    BY <1>1, <2>3
  <2> QED BY <1>3, <2>1, <2>3, <2>4, <2>5, <2>6 DEF There
<1>4. ASSUME There(i, q), NEW n \in Name, q = Append(p, n)
      PROVE  \E k \in DOMAIN i[d].entries : q = Append(p, i[i[d].entries[k]].name)
  <2>1. Walk(i, 1, Append(p, n)) \in DOMAIN i
    BY <1>4 DEF There
  <2>2. Under(i, Walk(i, 1, Append(p, n)), d) /\ i[Walk(i, 1, Append(p, n))].name = n
    BY <1>1, <2>1, WalkBack
  <2> QED BY <1>4, <2>2 DEF Under
<1> QED BY <1>2, <1>3, <1>4

Turn(i, near) == near \cup UNION {Below(i, 1, p) : p \in near}

\* The turns of Found as a function.
Turning(i, n, w) ==
  w = [k \in 0 .. n |-> IF k = 0 THEN {<<>>}
                        ELSE w[k - 1] \cup UNION {Below(i, 1, p) : p \in w[k - 1]}]

LEMMA TurningAt ==
  ASSUME NEW i, NEW n \in Nat, NEW w, Turning(i, n, w)
  PROVE  w[0] = {<<>>} /\ \A k \in 1 .. n : w[k] = Turn(i, w[k - 1])
<1>1. \A k \in 0 .. n : w[k] = IF k = 0 THEN {<<>>} ELSE Turn(i, w[k - 1])
  BY Zenon DEF Turning, Turn
<1>2. 0 \in 0 .. n /\ \A k \in 1 .. n : k \in 0 .. n /\ k # 0
  OBVIOUS
<1> QED BY <1>1, <1>2, Zenon

\* The places within n names of the root.
Near(i, n) == {p \in Seq(Name) : Walk(i, 1, p) \in DOMAIN i /\ Len(p) <= n}

LEMMA NearNext ==
  ASSUME NEW i, Table(i), 1 \in DOMAIN i, NEW n \in Nat
  PROVE  Near(i, n + 1) = Near(i, n) \cup UNION {Below(i, 1, p) : p \in Near(i, n)}
<1>1. ASSUME NEW p \in Near(i, n), NEW q \in Below(i, 1, p) PROVE q \in Near(i, n + 1)
  <2>1. There(i, p) /\ p \in Seq(Name) /\ Len(p) <= n
    BY DEF Near, There
  <2>2. There(i, q) /\ \E m \in Name : q = Append(p, m)
    BY <2>1, BelowIs
  <2>3. Len(q) = Len(p) + 1 /\ Len(p) \in Nat
    BY <2>1, <2>2
  <2> QED BY <2>1, <2>2, <2>3 DEF Near, There
<1>2. ASSUME NEW q \in Near(i, n + 1), q \notin Near(i, n)
      PROVE  \E p \in Near(i, n) : q \in Below(i, 1, p)
  <2>1. q \in Seq(Name) /\ Walk(i, 1, q) \in DOMAIN i /\ Len(q) = n + 1 /\ There(i, q)
    BY <1>2 DEF Near, There
  <2>2. PICK p \in Seq(Name), m \in Name : q = Append(p, m)
    <3>1. {q} \subseteq Seq(Name) /\ {q} # {}
      BY <2>1
    <3>2. \E x \in {q} : x = <<>> \/ \E h \in Seq(Name) \ {q}, m \in Name : x = Append(h, m)
      BY ONLY <3>1, ShortestSeq
    <3>3. q # <<>>
      BY <2>1
    <3> QED BY <3>2, <3>3
  <2>3. Len(p) = n
    BY <2>1, <2>2
  <2>4. Walk(i, 1, Append(p, m)) \in DOMAIN i
    BY <2>1, <2>2
  <2>5. Under(i, Walk(i, 1, Append(p, m)), Walk(i, 1, p))
    BY <2>4, WalkBack
  <2>6. There(i, p) /\ p \in Near(i, n)
    BY <2>3, <2>5 DEF Under, Near, There
  <2>7. q \in Below(i, 1, p)
    BY <2>1, <2>2, <2>6, BelowIs
  <2> QED BY <2>6, <2>7
<1>3. Near(i, n) \subseteq Near(i, n + 1)
  <2> SUFFICES ASSUME NEW q \in Near(i, n) PROVE q \in Near(i, n + 1)
    OBVIOUS
  <2>1. q \in Seq(Name) /\ Len(q) \in Nat /\ Len(q) <= n
    BY DEF Near
  <2> QED BY <2>1 DEF Near
<1> QED BY <1>1, <1>2, <1>3

LEMMA NearFirst ==
  ASSUME NEW i, Table(i), 1 \in DOMAIN i
  PROVE  Near(i, 0) = {<<>>}
<1>1. \A p \in Seq(Name) : Len(p) <= 0 <=> p = <<>>
  OBVIOUS
<1>2. Walk(i, 1, <<>>) = 1 /\ <<>> \in Seq(Name)
  BY WalkFirst
<1> QED BY <1>1, <1>2 DEF Near

LEMMA TurningNear ==
  ASSUME NEW i, Table(i), 1 \in DOMAIN i, NEW n \in Nat, NEW w, Turning(i, n, w)
  PROVE  \A k \in 0 .. n : w[k] = Near(i, k)
<1>1. w[0] = {<<>>} /\ \A k \in 1 .. n : w[k] = Turn(i, w[k - 1])
  BY TurningAt
<1> DEFINE T == {k \in 0 .. n : w[k] # Near(i, k)}
<1> SUFFICES ASSUME T # {} PROVE FALSE
  OBVIOUS
<1>2. PICK k \in T : \A j \in T : k <= j
  <2>1. T \subseteq Nat
    OBVIOUS
  <2> HIDE DEF T
  <2> QED BY <2>1, LeastNat
<1>3. k # 0
  BY <1>1, NearFirst
<1>4. PICK j \in Nat : k = j + 1 /\ j \in 0 .. n /\ k \in 1 .. n /\ j \notin T
  <2>1. k - 1 \in Nat /\ k - 1 \in 0 .. n /\ ~(k <= k - 1) /\ k \in 1 .. n /\ k = (k - 1) + 1
    BY <1>3
  <2> QED BY <1>2, <2>1
<1>5. w[j] = Near(i, j)
  BY <1>4
<1>6. w[k] = Turn(i, w[j])
  <2>1. j = k - 1
    BY <1>4
  <2> QED BY <1>1, <1>4, <2>1
<1>7. w[k] = Near(i, k)
  BY <1>4, <1>5, <1>6, NearNext DEF Turn
<1> QED BY <1>7

LEMMA TurningExists ==
  ASSUME NEW i, Table(i), 1 \in DOMAIN i, NEW n \in Nat
  PROVE  \E w : Turning(i, n, w)
<1> DEFINE w == [k \in 0 .. n |-> Near(i, k)]
<1>1. ASSUME NEW k \in 0 .. n
      PROVE  w[k] = IF k = 0 THEN {<<>>} ELSE w[k - 1] \cup UNION {Below(i, 1, p) : p \in w[k - 1]}
  <2>1. CASE k = 0
    BY <2>1, NearFirst
  <2>2. CASE k # 0
    <3>1. PICK j \in Nat : k = j + 1 /\ j \in 0 .. n /\ j = k - 1
      <4>1. k - 1 \in Nat /\ k - 1 \in 0 .. n /\ k = (k - 1) + 1
        BY <2>2
      <4> QED BY <4>1
    <3>2. w[k] = Near(i, j + 1) /\ w[j] = Near(i, j)
      BY <3>1
    <3> HIDE DEF w
    <3>3. w[k] = w[j] \cup UNION {Below(i, 1, p) : p \in w[j]}
      BY <3>2, NearNext
    <3> QED BY <2>2, <3>1, <3>3
  <2> QED BY <2>1, <2>2
<1>2. w = [k \in 0 .. n |-> w[k]]
  OBVIOUS
<1> HIDE DEF w
<1>3. Turning(i, n, w)
  BY <1>1, <1>2, Zenon DEF Turning
<1> QED BY <1>3

\* Found is all there is.
LEMMA FoundIs ==
  ASSUME NEW i, Table(i), 1 \in DOMAIN i, NEW p
  PROVE  p \in Found(i, 1) <=> There(i, p)
<1> DEFINE c == CHOOSE w : Turning(i, Len(i), w)
<1>1. Found(i, 1) = c[Len(i)]
  BY DEF Found, Turning
<1>2. Len(i) \in Nat /\ DOMAIN i = 1 .. Len(i)
  BY TableTypes
<1>3. Turning(i, Len(i), c)
  BY <1>2, TurningExists
<1> HIDE DEF c
<1>4. Found(i, 1) = Near(i, Len(i))
  <2>1. Len(i) \in 0 .. Len(i)
    BY <1>2
  <2>2. \A k \in 0 .. Len(i) : c[k] = Near(i, k)
    BY <1>2, <1>3, TurningNear
  <2> QED BY <1>1, <2>1, <2>2
<1>5. There(i, p) => Len(p) <= Len(i)
  <2> SUFFICES ASSUME There(i, p) PROVE Len(p) <= Len(i)
    OBVIOUS
  <2>1. p \in Seq(Name) /\ Walk(i, 1, p) \in DOMAIN i /\ Walk(i, 1, p) \notin Errors
    BY TableTypes DEF There
  <2>2. Walk(i, 1, p) > Len(p) /\ Len(p) \in Nat
    BY <2>1, WalkFacts DEF Errors
  <2> QED BY <1>2, <2>1, <2>2
<1> QED BY <1>4, <1>5 DEF Near, There

-----------------------------------------------------------------------------
(* A new inode, lost or linked.                                            *)

\* A lookup sees only the directory and its entries.
LEMMA SameStep ==
  ASSUME NEW i, Table(i), NEW j, Table(j), NEW d \in DOMAIN i, NEW n,
         DOMAIN i \subseteq DOMAIN j, \A x \in DOMAIN i : j[x].name = i[x].name,
         j[d].kind = i[d].kind, j[d].entries = i[d].entries
  PROVE  Step(j, d, n) = Step(i, d, n)
<1>1. DOMAIN i = 1 .. Len(i) /\ Len(i) \in Nat /\ DOMAIN i[d].entries = 1 .. Len(i[d].entries)
  BY TableTypes
<1>2. \A k \in DOMAIN i[d].entries : i[d].entries[k] \in DOMAIN i
  BY <1>1 DEF Table
<1>3. Entries(j, d, n) = Entries(i, d, n)
  BY <1>2 DEF Entries
<1> QED BY <1>3 DEF Step

\* tmpfs_create returns -NAME_LIMIT without an entry for the inode it made.
LEMMA LostTable ==
  ASSUME NEW i, Table(i), NEW new \in Node, new.entries = <<>>, NEW j, j = Append(i, new)
  PROVE  /\ Table(j) /\ DOMAIN i \subseteq DOMAIN j /\ \A d \in DOMAIN i : j[d] = i[d]
<1>1. i \in Seq(Node) /\ DOMAIN i = 1 .. Len(i) /\ Len(i) \in Nat
  BY DEF Table
<1>2. /\ j \in Seq(Node) /\ Len(j) = Len(i) + 1 /\ j[Len(j)] = new
      /\ \A d \in 1 .. Len(i) : j[d] = i[d]
  BY <1>1
<1>3. \A d \in 1 .. Len(j) : d = Len(j) \/ d \in 1 .. Len(i)
  BY <1>1, <1>2
<1>4. 1 .. Len(new.entries) = {}
  BY <1>1
<1>5. \A d \in 1 .. Len(j) : j[d].kind = "INODE_FILE" => j[d].entries = <<>>
  BY <1>2, <1>3 DEF Table
<1>6. ASSUME NEW d \in 1 .. Len(j), NEW k \in 1 .. Len(j[d].entries)
      PROVE  d \in 1 .. Len(i) /\ j[d].entries[k] \in d + 1 .. Len(j)
  <2>1. d \in 1 .. Len(i) /\ j[d] = i[d]
    BY <1>2, <1>3, <1>4
  <2>2. j[d].entries[k] \in d + 1 .. Len(i)
    BY <2>1 DEF Table
  <2> QED BY <1>1, <1>2, <2>1, <2>2
<1>7. \A d, e \in 1 .. Len(j) : \A k \in 1 .. Len(j[d].entries), l \in 1 .. Len(j[e].entries) :
        j[d].entries[k] = j[e].entries[l] => d = e
  <2> TAKE d, e \in 1 .. Len(j)
  <2> TAKE k \in 1 .. Len(j[d].entries), l \in 1 .. Len(j[e].entries)
  <2>1. d \in 1 .. Len(i) /\ e \in 1 .. Len(i) /\ j[d] = i[d] /\ j[e] = i[e]
    BY <1>2, <1>6
  <2> QED BY <2>1 DEF Table
<1>8. DOMAIN j = 1 .. Len(j)
  BY <1>2
<1> QED BY <1>1, <1>2, <1>5, <1>6, <1>7, <1>8 DEF Table

LEMMA LostWalk ==
  ASSUME NEW i, Table(i), 1 \in DOMAIN i, NEW j, Table(j),
         DOMAIN i \subseteq DOMAIN j, \A d \in DOMAIN i : j[d] = i[d], NEW S, NEW p \in Seq(S)
  PROVE  Walk(j, 1, p) = Walk(i, 1, p)
<1> DEFINE T == {q \in Seq(S) : Walk(j, 1, q) # Walk(i, 1, q)}
<1> SUFFICES ASSUME T # {} PROVE FALSE
  OBVIOUS
<1>1. PICK q \in T : q = <<>> \/ \E h \in Seq(S) \ T, n \in S : q = Append(h, n)
  <2>1. T \subseteq Seq(S)
    OBVIOUS
  <2> HIDE DEF T
  <2> QED BY <2>1, ShortestSeq
<1>2. q # <<>>
  BY WalkFirst
<1>3. PICK h \in Seq(S) \ T, n \in S : q = Append(h, n)
  BY <1>1, <1>2
<1>4. PICK d : d = Walk(i, 1, h) /\ d = Walk(j, 1, h)
  BY <1>3
<1>5. Walk(i, 1, q) = Step(i, d, n) /\ Walk(j, 1, q) = Step(j, d, n)
  BY <1>3, <1>4, WalkStep
<1>6. CASE d \in DOMAIN i
  <2>1. /\ Table(i) /\ Table(j) /\ d \in DOMAIN i /\ DOMAIN i \subseteq DOMAIN j
        /\ \A x \in DOMAIN i : j[x].name = i[x].name
        /\ j[d].kind = i[d].kind /\ j[d].entries = i[d].entries
    BY <1>6
  <2>2. Step(j, d, n) = Step(i, d, n)
    BY ONLY <2>1, SameStep
  <2> QED BY <1>5, <2>2
<1>7. CASE d \notin DOMAIN i
  <2>1. d \in Errors
    BY <1>3, <1>4, <1>7, WalkFacts DEF Errors
  <2>2. d \notin DOMAIN j
    BY <2>1, TableTypes
  <2> QED BY <1>5, <1>7, <2>2 DEF Step
<1> QED BY <1>6, <1>7

\* j is i with an entry more in directory d, for the inode new.
Link(i, j, d, new) ==
  /\ Table(j) /\ Len(j) = Len(i) + 1 /\ j[Len(j)] = new
  /\ \A x \in DOMAIN i : /\ j[x].name = i[x].name /\ j[x].kind = i[x].kind
                         /\ j[x].content = i[x].content
                         /\ j[x].entries = IF x = d THEN Append(i[d].entries, Len(j)) ELSE i[x].entries

LEMMA LinkTable ==
  ASSUME NEW i, Table(i), NEW d \in DOMAIN i, i[d].kind = "INODE_DIR",
         NEW new \in Node, new.entries = <<>>,
         NEW j, j = Append([i EXCEPT ![d].entries = Append(@, Len(i) + 1)], new)
  PROVE  Link(i, j, d, new)
<1> DEFINE N == Len(i) + 1
<1>1. i \in Seq(Node) /\ DOMAIN i = 1 .. Len(i) /\ Len(i) \in Nat /\ N \in Nat
  BY DEF Table
<1>2. PICK rec : rec = [i[d] EXCEPT !.entries = Append(i[d].entries, N)]
  OBVIOUS
<1>3. /\ rec \in Node /\ rec.entries = Append(i[d].entries, N)
      /\ rec.name = i[d].name /\ rec.kind = i[d].kind /\ rec.content = i[d].content
  <2>1. /\ i[d] \in Node /\ i[d].entries \in Seq(Nat)
    BY TableTypes
  <2>2. Append(i[d].entries, N) \in Seq(Nat)
    BY <1>1, <2>1
  <2> QED BY <1>2, <2>1, <2>2 DEF Node
<1>4. PICK t : t = [i EXCEPT ![d] = rec]
  OBVIOUS
<1>5. /\ t \in Seq(Node) /\ Len(t) = Len(i) /\ t[d] = rec /\ \A x \in 1 .. Len(i) : x # d => t[x] = i[x]
  BY <1>1, <1>3, <1>4
<1>6. j = Append(t, new)
  BY <1>2, <1>4
<1>7. /\ j \in Seq(Node) /\ Len(j) = N /\ j[N] = new /\ DOMAIN j = 1 .. N
      /\ \A x \in 1 .. Len(i) : j[x] = t[x]
  <2> HIDE DEF N
  <2>1. Len(t) + 1 = N /\ Len(i) = Len(t)
    BY <1>5 DEF N
  <2>2. t \in Seq(Node) /\ new \in Node
    BY <1>5
  <2>3. j \in Seq(Node) /\ Len(j) = Len(t) + 1 /\ j[Len(t) + 1] = new /\ \A x \in 1 .. Len(t) : j[x] = t[x]
    BY ONLY <1>6, <2>2
  <2>4. DOMAIN j = 1 .. Len(j)
    BY <2>3
  <2> QED BY <2>1, <2>3, <2>4
<1>8. \A x \in 1 .. Len(i) : /\ j[x].name = i[x].name /\ j[x].kind = i[x].kind
                             /\ j[x].content = i[x].content
                             /\ j[x].entries = IF x = d THEN Append(i[d].entries, N) ELSE i[x].entries
  BY <1>3, <1>5, <1>7
<1> HIDE DEF N
<1>9. \A x \in 1 .. N : x = N \/ x \in 1 .. Len(i)
  BY <1>1 DEF N
<1>10. /\ i[d].entries \in Seq(Nat) /\ 1 .. Len(new.entries) = {}
       /\ Len(Append(i[d].entries, N)) = Len(i[d].entries) + 1 /\ Len(i[d].entries) \in Nat
       /\ Append(i[d].entries, N)[Len(i[d].entries) + 1] = N
       /\ \A k \in 1 .. Len(i[d].entries) : Append(i[d].entries, N)[k] = i[d].entries[k]
  BY TableTypes
<1>11. ASSUME NEW x \in 1 .. N, NEW k \in 1 .. Len(j[x].entries)
       PROVE  /\ x \in 1 .. Len(i)
              /\ \/ k \in 1 .. Len(i[x].entries) /\ j[x].entries[k] = i[x].entries[k]
                 \/ x = d /\ j[x].entries[k] = N
  <2>1. x \in 1 .. Len(i)
    BY <1>7, <1>9, <1>10
  <2>2. CASE x = d
    <3>1. k \in 1 .. Len(i[d].entries) \/ k = Len(i[d].entries) + 1
      BY <1>8, <1>10, <2>1, <2>2
    <3> QED BY <1>8, <1>10, <2>1, <2>2, <3>1
  <2>3. CASE x # d
    BY <1>8, <2>1, <2>3
  <2> QED BY <2>1, <2>2, <2>3
<1>12. \A x \in 1 .. Len(i) : \A k \in 1 .. Len(i[x].entries) : i[x].entries[k] \in x + 1 .. Len(i)
  BY DEF Table
<1>13. \A x \in 1 .. N : j[x].kind = "INODE_FILE" => j[x].entries = <<>>
  BY <1>1, <1>7, <1>8, <1>9 DEF Table
<1>14. \A x \in 1 .. N : \A k \in 1 .. Len(j[x].entries) : j[x].entries[k] \in x + 1 .. N
  <2> TAKE x \in 1 .. N
  <2> TAKE k \in 1 .. Len(j[x].entries)
  <2>1. CASE x = d /\ j[x].entries[k] = N
    BY <1>1, <2>1, SMTT(30) DEF N
  <2>2. CASE k \in 1 .. Len(i[x].entries) /\ j[x].entries[k] = i[x].entries[k]
    <3>1. x \in 1 .. Len(i) /\ i[x].entries[k] \in x + 1 .. Len(i)
      BY <1>11, <1>12, <2>2
    <3> QED BY <1>1, <2>2, <3>1 DEF N
  <2> QED BY <1>11, <2>1, <2>2
<1>a. ASSUME NEW x \in 1 .. N, NEW k \in 1 .. Len(j[x].entries)
      PROVE  /\ x \in 1 .. Len(i)
             /\ \/ /\ k \in 1 .. Len(i[x].entries) /\ j[x].entries[k] = i[x].entries[k]
                   /\ j[x].entries[k] # N
                \/ x = d /\ j[x].entries[k] = N
  <2>1. ASSUME x \in 1 .. Len(i), k \in 1 .. Len(i[x].entries) PROVE i[x].entries[k] # N
    <3>1. i[x].entries[k] \in x + 1 .. Len(i)
      BY ONLY <1>12, <2>1
    <3>2. N \notin x + 1 .. Len(i)
      BY <1>1, <2>1 DEF N
    <3> QED BY ONLY <3>1, <3>2
  <2> QED BY <1>11, <2>1
<1>15. \A x, y \in 1 .. N : \A k \in 1 .. Len(j[x].entries), l \in 1 .. Len(j[y].entries) :
         j[x].entries[k] = j[y].entries[l] => x = y
  <2> SUFFICES ASSUME NEW x \in 1 .. N, NEW y \in 1 .. N, NEW k \in 1 .. Len(j[x].entries),
                      NEW l \in 1 .. Len(j[y].entries), j[x].entries[k] = j[y].entries[l], x # y
               PROVE  FALSE
    OBVIOUS
  <2>1. PICK v, w : v = j[x].entries[k] /\ w = j[y].entries[l]
    OBVIOUS
  <2>2. /\ x \in 1 .. Len(i)
        /\ \/ k \in 1 .. Len(i[x].entries) /\ v = i[x].entries[k] /\ v # N
           \/ x = d /\ v = N
    BY <1>a, <2>1
  <2>3. /\ y \in 1 .. Len(i)
        /\ \/ l \in 1 .. Len(i[y].entries) /\ w = i[y].entries[l] /\ w # N
           \/ y = d /\ w = N
    BY <1>a, <2>1
  <2>4. v = w
    BY <2>1
  <2>5. CASE v = N
    BY <2>2, <2>3, <2>4, <2>5
  <2>6. CASE v # N
    <3>1. k \in 1 .. Len(i[x].entries) /\ l \in 1 .. Len(i[y].entries) /\ i[x].entries[k] = i[y].entries[l]
      BY <2>2, <2>3, <2>4, <2>6
    <3>2. \A e, g \in 1 .. Len(i) : \A a \in 1 .. Len(i[e].entries), b \in 1 .. Len(i[g].entries) :
            i[e].entries[a] = i[g].entries[b] => e = g
      BY DEF Table
    <3> QED BY ONLY <2>2, <2>3, <3>1, <3>2, x # y
  <2> QED BY <2>5, <2>6
<1>16. Table(j)
  BY ONLY <1>7, <1>13, <1>14, <1>15, SMTT(30) DEF Table
<1> QED BY <1>1, <1>7, <1>8, <1>16 DEF Link, N

\* The lookups in the table with the new entry.
LEMMA LinkStep ==
  ASSUME NEW i, Table(i), NEW d \in DOMAIN i, i[d].kind = "INODE_DIR",
         NEW new, new.entries = <<>>, NEW j, Link(i, j, d, new), NEW x \in DOMAIN i, NEW n
  PROVE  Step(j, x, n) = IF x = d /\ n = new.name /\ Step(i, d, n) \notin DOMAIN i THEN Len(j)
                         ELSE Step(i, x, n)
<1>1. /\ DOMAIN i = 1 .. Len(i) /\ Len(i) \in Nat /\ DOMAIN j = 1 .. Len(j) /\ Len(j) = Len(i) + 1
      /\ Table(j) /\ DOMAIN i \subseteq DOMAIN j
  BY TableTypes DEF Link
<1>2. CASE x # d
  <2>1. /\ Table(i) /\ Table(j) /\ x \in DOMAIN i /\ DOMAIN i \subseteq DOMAIN j
        /\ \A y \in DOMAIN i : j[y].name = i[y].name
        /\ j[x].kind = i[x].kind /\ j[x].entries = i[x].entries
    BY <1>1, <1>2 DEF Link
  <2>2. Step(j, x, n) = Step(i, x, n)
    BY ONLY <2>1, SameStep
  <2> QED BY <1>2, <2>2
<1>3. CASE x = d
  <2>1. /\ i[d].entries \in Seq(Nat) /\ Len(i[d].entries) \in Nat
        /\ DOMAIN i[d].entries = 1 .. Len(i[d].entries)
    BY TableTypes
  <2>2. PICK o, e, l : o = i[d].entries /\ e = j[d].entries /\ l = Len(i[d].entries)
    OBVIOUS
  <2>3. /\ e = Append(o, Len(j)) /\ DOMAIN e = 1 .. l + 1 /\ e[l + 1] = Len(j)
        /\ \A k \in 1 .. l : e[k] = o[k] /\ o[k] \in DOMAIN i
    <3>1. e = Append(o, Len(j))
      BY <2>2 DEF Link
    <3>2. \A k \in 1 .. l : o[k] \in DOMAIN i
      BY <1>1, <2>2 DEF Table
    <3>3. o \in Seq(Nat) /\ Len(j) \in Nat /\ l = Len(o)
      BY <1>1, <2>1, <2>2
    <3>4. DOMAIN e = 1 .. l + 1 /\ e[l + 1] = Len(j) /\ \A k \in 1 .. l : e[k] = o[k]
      BY ONLY <3>1, <3>3
    <3> QED BY <3>1, <3>2, <3>4
  <2>4. j[Len(j)] = new /\ \A y \in DOMAIN i : j[y].name = i[y].name /\ j[y].kind = i[y].kind
    BY DEF Link
  <2>5. Entries(i, d, n) = {k \in 1 .. l : i[o[k]].name = n}
    BY <2>1, <2>2 DEF Entries
  <2>6. Entries(j, d, n) = Entries(i, d, n) \cup {k \in {l + 1} : new.name = n}
    <3>1. Entries(j, d, n) = {k \in 1 .. l + 1 : j[e[k]].name = n}
      BY <2>2, <2>3 DEF Entries
    <3>2. \A k \in 1 .. l : j[e[k]].name = i[o[k]].name
      BY <2>3, <2>4
    <3>3. j[e[l + 1]].name = new.name
      BY <2>3, <2>4
    <3>4. l \in Nat
      BY <2>1, <2>2
    <3>5. \A k : k \in 1 .. l + 1 <=> k \in 1 .. l \/ k = l + 1
      BY <3>4
    <3> QED BY <2>5, <3>1, <3>2, <3>3, <3>5
  <2>7. CASE Entries(i, d, n) # {}
    <3>1. Entries(i, d, n) \subseteq 1 .. l /\ Entries(i, d, n) \subseteq Nat /\ Entries(j, d, n) \subseteq Nat
      BY <2>1, <2>2, <2>5, <2>6
    <3>2. Entries(j, d, n) # {}
      BY <2>6, <2>7
    <3>3. PICK a, b : a = Min(Entries(i, d, n)) /\ b = Min(Entries(j, d, n))
      OBVIOUS
    <3>4. a \in Entries(i, d, n) /\ \A y \in Entries(i, d, n) : a <= y
      BY <2>7, <3>1, <3>3, MinFacts
    <3>5. b \in Entries(j, d, n) /\ \A y \in Entries(j, d, n) : b <= y
      BY <3>1, <3>2, <3>3, MinFacts
    <3>6. b <= a /\ a \in 1 .. l /\ b \in Nat
      BY <2>6, <3>1, <3>4, <3>5
    <3>7. b # l + 1
      BY <2>1, <2>2, <3>6
    <3>8. b \in Entries(i, d, n)
      BY <2>6, <3>5, <3>7
    <3>9. a = b
      BY <3>1, <3>4, <3>6, <3>8
    <3>10. Step(i, d, n) = o[a]
      BY <2>2, <2>7, <3>3 DEF Step
    <3>11. Step(j, d, n) = e[a]
      BY <1>1, <2>2, <2>4, <3>2, <3>3, <3>9 DEF Step
    <3> QED BY <1>3, <2>3, <3>6, <3>10, <3>11
  <2>8. CASE Entries(i, d, n) = {}
    <3>1. Step(i, d, n) = FILE_NOT_FOUND /\ Step(i, d, n) \notin DOMAIN i
      <4>1. Step(i, d, n) = FILE_NOT_FOUND
        BY <2>8 DEF Step
      <4> QED BY <4>1, TableTypes DEF Errors
    <3>2. CASE n = new.name
      <4>1. Entries(j, d, n) = {l + 1} /\ l + 1 \in Nat
        BY <2>1, <2>2, <2>6, <2>8, <3>2
      <4>2. Min(Entries(j, d, n)) = l + 1
        BY <4>1, MinFacts
      <4>3. Step(j, d, n) = e[l + 1]
        BY <1>1, <2>2, <2>4, <4>1, <4>2 DEF Step
      <4> QED BY <1>3, <2>3, <3>1, <3>2, <4>3
    <3>3. CASE n # new.name
      <4>1. Entries(j, d, n) = {}
        BY <2>6, <2>8, <3>3
      <4>2. Step(j, d, n) = FILE_NOT_FOUND
        BY <1>1, <2>4, <4>1 DEF Step
      <4> QED BY <1>3, <3>1, <3>3, <4>2
    <3> QED BY <3>2, <3>3
  <2> QED BY <2>7, <2>8
<1> QED BY <1>2, <1>3

\* Where p leads after the link, and where it did before.
Arrives(i, j, d, name, p) ==
  IF Walk(i, 1, p) \in DOMAIN i THEN Walk(j, 1, p) = Walk(i, 1, p)
  ELSE IF \E q \in Seq(Name) : Walk(i, 1, q) = d /\ p = Append(q, name) THEN Walk(j, 1, p) = Len(j)
  ELSE Walk(j, 1, p) \in Errors

LEMMA LinkWalk ==
  ASSUME NEW i, Table(i), 1 \in DOMAIN i, NEW d \in DOMAIN i, i[d].kind = "INODE_DIR",
         NEW new \in Node, new.entries = <<>>, NEW j, Link(i, j, d, new), NEW p \in Seq(Name)
  PROVE  Arrives(i, j, d, new.name, p)
<1> DEFINE m == new.name
           T == {q \in Seq(Name) : ~Arrives(i, j, d, m, q)}
<1> SUFFICES ASSUME T # {} PROVE FALSE
  OBVIOUS
<1>0. /\ DOMAIN i = 1 .. Len(i) /\ Len(i) \in Nat /\ DOMAIN j = 1 .. Len(j) /\ Len(j) = Len(i) + 1
      /\ Table(j) /\ j[Len(j)] = new /\ Len(j) \in DOMAIN j /\ Len(j) \notin DOMAIN i
      /\ Errors \cap DOMAIN j = {} /\ Errors \cap DOMAIN i = {}
  BY TableTypes DEF Link
<1>1. PICK q \in T : q = <<>> \/ \E h \in Seq(Name) \ T, n \in Name : q = Append(h, n)
  <2>1. T \subseteq Seq(Name)
    OBVIOUS
  <2> HIDE DEF T
  <2> QED BY <2>1, ShortestSeq
<1>2. CASE q = <<>>
  BY <1>2, WalkFirst DEF Arrives
<1>3. CASE q # <<>>
  <2>1. PICK h \in Seq(Name) \ T, n \in Name : q = Append(h, n)
    BY <1>1, <1>3
  <2>2. PICK x, y : x = Walk(i, 1, h) /\ y = Walk(j, 1, h)
    OBVIOUS
  <2>3. Walk(i, 1, q) = Step(i, x, n) /\ Walk(j, 1, q) = Step(j, y, n)
    BY <2>1, <2>2, WalkStep
  <2>4. Arrives(i, j, d, m, h)
    BY <2>1
  <2>5. (\E g \in Seq(Name) : Walk(i, 1, g) = d /\ q = Append(g, m)) <=> x = d /\ n = m
    <3>1. ASSUME NEW g \in Seq(Name), Walk(i, 1, g) = d, q = Append(g, m) PROVE x = d /\ n = m
      <4>0. PICK c : c = m
        OBVIOUS
      <4>a. PICK f : f = h
        OBVIOUS
      <4>c. g \in Seq(Name) /\ f \in Seq(Name) /\ Append(g, c) = Append(f, n)
        BY <2>1, <3>1, <4>0, <4>a
      <4>b. g = h /\ c = n
        <5> HIDE DEF m, T
        <5>1. \A u, v \in Seq(Name) : \A a, b : Append(u, a) = Append(v, b) => u = v /\ a = b
          BY ONLY AppendOnce
        <5> QED BY ONLY <4>a, <4>c, <5>1
      <4>1. g = h /\ n = m
        BY <4>0, <4>b
      <4> QED BY <2>2, <3>1, <4>1
    <3>2. ASSUME x = d, n = m PROVE Walk(i, 1, h) = d /\ q = Append(h, m) /\ h \in Seq(Name)
      BY <2>1, <2>2, <3>2
    <3> QED BY <3>1, <3>2
  <2>6. CASE x \in DOMAIN i
    <3>1. y = x
      BY <2>2, <2>4, <2>6 DEF Arrives
    <3>2. Step(j, x, n) = IF x = d /\ n = m /\ Step(i, d, n) \notin DOMAIN i THEN Len(j) ELSE Step(i, x, n)
      BY <2>6, LinkStep
    <3>3. Step(i, x, n) \in DOMAIN i \/ Step(i, x, n) \in Errors
      BY <2>6, StepFacts DEF Errors
    <3>4. Arrives(i, j, d, m, q)
      BY <2>3, <2>5, <3>1, <3>2, <3>3 DEF Arrives
    <3> QED BY <3>4
  <2>7. CASE x \notin DOMAIN i
    <3>1. x \in Errors /\ Step(i, x, n) = x /\ x # d
      <4>1. x \in Errors
        BY <2>1, <2>2, <2>7, WalkFacts DEF Errors
      <4> QED BY <2>7, <4>1 DEF Step
    <3>2. y \in Errors \/ y = Len(j)
      BY <2>2, <2>4, <2>7 DEF Arrives
    <3>3. Step(j, y, n) \in Errors
      <4>1. CASE y \in Errors
        <5>1. y \notin DOMAIN j
          BY <1>0, <4>1
        <5> QED BY <4>1, <5>1 DEF Step
      <4>2. CASE y = Len(j)
        <5>1. y \in DOMAIN j /\ j[y].entries = <<>> /\ DOMAIN j[y].entries = {}
          BY <1>0, <4>2
        <5>2. ~ \E k \in DOMAIN j[y].entries : Step(j, y, n) = j[y].entries[k]
          BY <5>1
        <5> QED BY <1>0, <5>1, <5>2, StepFacts DEF Errors
      <4> QED BY <3>2, <4>1, <4>2
    <3>4. Arrives(i, j, d, m, q)
      BY <2>3, <2>5, <2>7, <3>1, <3>3 DEF Arrives
    <3> QED BY <3>4
  <2> QED BY <2>6, <2>7
<1> QED BY <1>2, <1>3

-----------------------------------------------------------------------------
(* Paths.                                                                  *)

Named(names, t) == IF t = Slash THEN names ELSE Append(names, t)

\* The steps of Components as a function.
Naming(p, n, w) ==
  w = [k \in 0 .. n |-> IF k = 0 THEN <<>> ELSE Named(w[k - 1], p[k])]

LEMMA NamingAt ==
  ASSUME NEW p, NEW n \in Nat, NEW w, Naming(p, n, w)
  PROVE  w[0] = <<>> /\ \A k \in 1 .. n : w[k] = Named(w[k - 1], p[k])
<1>1. \A k \in 0 .. n : w[k] = IF k = 0 THEN <<>> ELSE Named(w[k - 1], p[k])
  BY Zenon DEF Naming
<1>2. 0 \in 0 .. n /\ \A k \in 1 .. n : k \in 0 .. n /\ k # 0
  OBVIOUS
<1> QED BY <1>1, <1>2

LEMMA NamingExists ==
  ASSUME NEW p, NEW size \in Nat
  PROVE  \E w : Naming(p, size, w)
<1> DEFINE T == {n \in Nat : ~ \E w : Naming(p, n, w)}
<1> SUFFICES ASSUME T # {} PROVE FALSE
  OBVIOUS
<1>1. PICK n \in T : \A k \in T : n <= k
  BY LeastNat
<1>2. CASE n = 0
  <2> DEFINE w == [k \in 0 .. 0 |-> <<>>]
  <2>1. w = [k \in 0 .. 0 |-> IF k = 0 THEN <<>> ELSE Named(w[k - 1], p[k])]
    OBVIOUS
  <2> QED BY <1>1, <1>2, <2>1 DEF Naming
<1>3. CASE n # 0
  <2>1. n - 1 \in Nat /\ n - 1 \notin T
    BY <1>1, <1>3
  <2>2. PICK v : Naming(p, n - 1, v)
    BY <2>1
  <2>3. v[0] = <<>> /\ \A k \in 1 .. n - 1 : v[k] = Named(v[k - 1], p[k])
    BY <2>1, <2>2, NamingAt
  <2> DEFINE w == [k \in 0 .. n |-> IF k = n THEN Named(v[n - 1], p[n]) ELSE v[k]]
  <2>4. ASSUME NEW k \in 0 .. n
        PROVE  w[k] = IF k = 0 THEN <<>> ELSE Named(w[k - 1], p[k])
    <3>1. CASE k = 0
      BY <1>3, <2>3, <3>1
    <3>2. CASE k = n
      <4>1. k - 1 \in 0 .. n /\ k - 1 # n
        BY <1>3, <3>2
      <4> QED BY <1>3, <3>2, <4>1
    <3>3. CASE k \in 1 .. n - 1
      <4>1. k - 1 \in 0 .. n /\ k - 1 # n /\ k # n /\ k # 0
        BY <3>3
      <4> QED BY <2>3, <3>3, <4>1
    <3> QED BY <3>1, <3>2, <3>3
  <2>5. w = [k \in 0 .. n |-> w[k]]
    OBVIOUS
  <2> HIDE DEF w
  <2>6. w = [k \in 0 .. n |-> IF k = 0 THEN <<>> ELSE Named(w[k - 1], p[k])]
    BY <2>4, <2>5, Zenon
  <2>7. Naming(p, n, w)
    BY <2>6 DEF Naming
  <2> QED BY <1>1, <2>7
<1> QED BY <1>2, <1>3

\* Components is such a function's last value.
LEMMA ComponentsAre ==
  ASSUME NEW S, NEW p \in Seq(S)
  PROVE  \E w : Naming(p, Len(p), w) /\ Components(p) = w[Len(p)]
<1> DEFINE c == CHOOSE w : Naming(p, Len(p), w)
<1>1. Components(p) = c[Len(p)]
  BY DEF Components, Naming, Named
<1>2. Naming(p, Len(p), c)
  <2>1. Len(p) \in Nat
    OBVIOUS
  <2> QED BY <2>1, NamingExists
<1> QED BY <1>1, <1>2

\* Two of them agree as far as the paths do.
LEMMA NamingAgree ==
  ASSUME NEW p, NEW q, NEW n \in Nat, NEW m \in Nat, n <= m, NEW w, NEW v,
         Naming(p, n, w), Naming(q, m, v), \A k \in 1 .. n : p[k] = q[k]
  PROVE  \A k \in 0 .. n : w[k] = v[k]
<1>1. /\ w[0] = <<>> /\ \A k \in 1 .. n : w[k] = Named(w[k - 1], p[k])
      /\ v[0] = <<>> /\ \A k \in 1 .. m : v[k] = Named(v[k - 1], q[k])
  BY NamingAt
<1> DEFINE T == {k \in 0 .. n : w[k] # v[k]}
<1> SUFFICES ASSUME T # {} PROVE FALSE
  OBVIOUS
<1>2. PICK k \in T : \A j \in T : k <= j
  <2>1. T \subseteq Nat
    OBVIOUS
  <2> HIDE DEF T
  <2> QED BY <2>1, LeastNat
<1>3. k # 0
  BY <1>1
<1>4. k - 1 \in 0 .. n /\ ~(k <= k - 1) /\ k \in 1 .. n /\ k \in 1 .. m
  BY <1>3
<1>5. w[k - 1] = v[k - 1]
  BY <1>2, <1>4
<1> QED BY <1>1, <1>4, <1>5

\* The names of no path.
LEMMA ComponentsFirst == Components(<<>>) = <<>>
<1>1. PICK e : e = <<>>
  OBVIOUS
<1>2. e \in Seq({}) /\ Len(e) = 0
  BY <1>1
<1>3. PICK w : Naming(e, Len(e), w) /\ Components(e) = w[Len(e)]
  BY <1>2, ComponentsAre
<1>4. Naming(e, 0, w)
  BY <1>2, <1>3
<1>5. w[0] = <<>>
  BY <1>4, NamingAt
<1> QED BY <1>1, <1>2, <1>3, <1>5

\* A name or slash more.
LEMMA ComponentsStep ==
  ASSUME NEW S, NEW p \in Seq(S), NEW n \in S
  PROVE  Components(Append(p, n)) = Named(Components(p), n)
<1>1. PICK q : q = Append(p, n)
  OBVIOUS
<1>2. /\ q \in Seq(S) /\ Len(q) = Len(p) + 1 /\ q[Len(p) + 1] = n /\ Len(p) \in Nat
      /\ \A k \in 1 .. Len(p) : p[k] = q[k]
  BY <1>1
<1>3. PICK w : Naming(p, Len(p), w) /\ Components(p) = w[Len(p)]
  BY ComponentsAre
<1>4. PICK v : Naming(q, Len(q), v) /\ Components(q) = v[Len(q)]
  BY <1>2, ComponentsAre
<1>a. Len(q) \in Nat /\ Len(q) \in 1 .. Len(q)
  BY <1>2
<1>b. \A k \in 1 .. Len(q) : v[k] = Named(v[k - 1], q[k])
  BY <1>4, <1>a, NamingAt
<1>5. v[Len(q)] = Named(v[Len(q) - 1], q[Len(q)])
  BY <1>a, <1>b
<1>6. w[Len(p)] = v[Len(p)]
  <2>1. PICK a, b : a = Len(p) /\ b = Len(q)
    OBVIOUS
  <2>2. /\ a \in Nat /\ b \in Nat /\ a <= b
        /\ Naming(p, a, w) /\ Naming(q, b, v) /\ \A k \in 1 .. a : p[k] = q[k]
    BY <1>2, <1>3, <1>4, <2>1
  <2>3. \A k \in 0 .. a : w[k] = v[k]
    BY ONLY <2>2, NamingAgree
  <2>4. a \in 0 .. a
    BY <2>2
  <2> QED BY <2>1, <2>3, <2>4
<1> QED BY <1>1, <1>2, <1>3, <1>4, <1>5, <1>6

LEMMA ComponentsIn ==
  ASSUME NEW p \in Seq(Name \cup {Slash})
  PROVE  Components(p) \in Seq(Name)
<1> DEFINE S == Name \cup {Slash}
           T == {q \in Seq(S) : Components(q) \notin Seq(Name)}
<1> SUFFICES ASSUME T # {} PROVE FALSE
  OBVIOUS
<1>1. PICK q \in T : q = <<>> \/ \E h \in Seq(S) \ T, n \in S : q = Append(h, n)
  <2>1. T \subseteq Seq(S)
    OBVIOUS
  <2> HIDE DEF T, S
  <2> QED BY <2>1, ShortestSeq
<1>2. q # <<>>
  BY ComponentsFirst
<1>3. PICK h \in Seq(S) \ T, n \in S : q = Append(h, n)
  BY <1>1, <1>2
<1>4. PICK c : c = Components(h) /\ c \in Seq(Name)
  BY <1>3
<1>5. Components(q) = Named(c, n)
  <2> HIDE DEF S, T
  <2> QED BY <1>3, <1>4, ComponentsStep
<1>6. Named(c, n) \in Seq(Name)
  BY <1>4 DEF Named
<1> QED BY <1>5, <1>6

\* The beginnings of a sequence.
LEMMA SubFacts ==
  ASSUME NEW S, NEW p \in Seq(S), NEW k \in 0 .. Len(p)
  PROVE  /\ SubSeq(p, 1, k) \in Seq(S) /\ Len(SubSeq(p, 1, k)) = k
         /\ k = 0 => SubSeq(p, 1, k) = <<>>
         /\ k = Len(p) => SubSeq(p, 1, k) = p
         /\ k < Len(p) => SubSeq(p, 1, k + 1) = Append(SubSeq(p, 1, k), p[k + 1]) /\ p[k + 1] \in S
<1>1. Len(p) \in Nat /\ k \in Nat /\ k <= Len(p)
  OBVIOUS
<1>2. PICK a : a = SubSeq(p, 1, k)
  OBVIOUS
<1>3. a \in Seq(S) /\ Len(a) = k /\ \A j \in 1 .. k : a[j] = p[j]
  BY <1>1, <1>2
<1>4. k = 0 => a = <<>>
  BY <1>3
<1>5. k = Len(p) => a = p
  BY <1>1, <1>3
<1>6. ASSUME k < Len(p) PROVE SubSeq(p, 1, k + 1) = Append(a, p[k + 1]) /\ p[k + 1] \in S
  <2>1. PICK b : b = SubSeq(p, 1, k + 1)
    OBVIOUS
  <2>2. b \in Seq(S) /\ Len(b) = k + 1 /\ \A j \in 1 .. k + 1 : b[j] = p[j]
    BY <1>1, <1>6, <2>1
  <2>3. p[k + 1] \in S
    BY <1>1, <1>6
  <2>4. PICK c : c = Append(a, p[k + 1])
    OBVIOUS
  <2>5. c \in Seq(S) /\ Len(c) = k + 1 /\ c[k + 1] = p[k + 1] /\ \A j \in 1 .. k : c[j] = a[j]
    BY <1>3, <2>3, <2>4
  <2>6. \A j \in 1 .. k + 1 : b[j] = c[j]
    BY <1>1, <1>3, <2>2, <2>5
  <2>7. b = c
    BY <2>2, <2>5, <2>6
  <2> QED BY <2>1, <2>3, <2>4, <2>7
<1> QED BY <1>2, <1>3, <1>4, <1>5, <1>6

IsPath(path) ==
  /\ path \in Seq((Name \ {NoName}) \cup {Slash}) /\ path # <<>> /\ path[1] = Slash
  /\ \A k \in DOMAIN path : k > 1 => path[k] = Slash \/ path[k - 1] = Slash

\* The parent's names and the last name are all the names of a path.
LEMMA PathFacts ==
  ASSUME NEW path, IsPath(path), NEW names, names = Components(path),
         NEW front, front = Components(ParentPath(path)), NEW base, base = Basename(path)
  PROVE  /\ names \in Seq(Name) /\ front \in Seq(Name) /\ base \in Name
         /\ \/ names = <<>> /\ front = <<>> /\ base = NoName
            \/ names = Append(front, base)
<1> DEFINE S == Name \cup {Slash}
           C(k) == Components(SubSeq(path, 1, k))
<1>1. PICK n \in Nat : n = Len(path) /\ n >= 1 /\ DOMAIN path = 1 .. n
  <2>1. path \in Seq((Name \ {NoName}) \cup {Slash}) /\ path # <<>>
    BY DEF IsPath
  <2> QED BY <2>1
<1>2. /\ path \in Seq(S) /\ path[1] = Slash
      /\ \A k \in 1 .. n : path[k] \in Name \cup {Slash}
      /\ \A k \in 2 .. n : path[k] = Slash \/ path[k - 1] = Slash
  <2>1. path \in Seq((Name \ {NoName}) \cup {Slash})
    BY DEF IsPath
  <2>2. path \in Seq(S) /\ \A k \in 1 .. n : path[k] \in Name \cup {Slash}
    BY <1>1, <2>1
  <2> QED BY <1>1, <2>2 DEF IsPath
<1>3. PICK e : e = End(path)
  OBVIOUS
<1>4. /\ e \in 1 .. n /\ (e = 1 \/ path[e] # Slash)
      /\ \A k \in 1 .. n : path[k] # Slash => k <= e
  <2> DEFINE E == {1} \cup {k \in DOMAIN path : path[k] # Slash}
  <2>1. E \subseteq 0 .. n /\ E # {}
    BY <1>1
  <2>2. e = Max(E)
    BY <1>3 DEF End
  <2>3. e \in E /\ \A y \in E : e >= y
    <3> HIDE DEF E
    <3> QED BY <2>1, <2>2, MaxFacts
  <2>4. e \in 1 .. n /\ (e = 1 \/ path[e] # Slash)
    BY <1>1, <2>3
  <2>5. ASSUME NEW k \in 1 .. n, path[k] # Slash PROVE k <= e
    <3>1. k \in E
      BY <1>1, <2>5
    <3>2. e >= k
      BY <2>3, <3>1
    <3> QED BY <2>4, <3>2
  <2> QED BY <2>4, <2>5
<1>5. PICK b : b = SlashBefore(path)
  OBVIOUS
<1>6. b \in 1 .. e /\ path[b] = Slash /\ \A k \in 1 .. e : path[k] = Slash => k <= b
  <2> DEFINE B == {k \in 1 .. e : path[k] = Slash}
  <2>1. B \subseteq 0 .. n /\ 1 \in B
    BY <1>2, <1>4
  <2>2. b = Max(B)
    BY <1>3, <1>5 DEF SlashBefore
  <2>3. b \in B /\ \A y \in B : b >= y
    <3> HIDE DEF B
    <3> QED BY <2>1, <2>2, MaxFacts
  <2>4. ASSUME NEW k \in 1 .. e, path[k] = Slash PROVE k <= b
    <3>1. b >= k /\ b \in 1 .. e
      BY <2>3, <2>4
    <3> QED BY <3>1
  <2> QED BY <2>3, <2>4
<1>7. ASSUME NEW k \in 0 .. n
      PROVE  /\ SubSeq(path, 1, k) \in Seq(S)
             /\ k = 0 => C(k) = <<>>
             /\ k = n => C(k) = names
             /\ k < n => C(k + 1) = Named(C(k), path[k + 1])
  <2> HIDE DEF S
  <2>1. k \in 0 .. Len(path)
    BY <1>1
  <2>2. /\ SubSeq(path, 1, k) \in Seq(S)
        /\ k = 0 => SubSeq(path, 1, k) = <<>>
        /\ k = n => SubSeq(path, 1, k) = path
        /\ k < n => SubSeq(path, 1, k + 1) = Append(SubSeq(path, 1, k), path[k + 1]) /\ path[k + 1] \in S
    BY <1>1, <1>2, <2>1, SubFacts
  <2>3. k < n => C(k + 1) = Named(C(k), path[k + 1])
    BY <2>2, ComponentsStep
  <2> QED BY <2>2, <2>3, ComponentsFirst
<1> HIDE DEF C
<1>8. \A k \in e .. n : C(k) = C(e)
  <2> DEFINE T == {k \in e .. n : C(k) # C(e)}
  <2> SUFFICES ASSUME T # {} PROVE FALSE
    OBVIOUS
  <2>1. PICK k \in T : \A j \in T : k <= j
    <3>1. T \subseteq Nat
      BY <1>4
    <3> HIDE DEF T
    <3> QED BY <3>1, LeastNat
  <2>2. PICK j : j = k - 1
    OBVIOUS
  <2>3. k # e /\ j \in e .. n /\ j \in 0 .. n /\ j < n /\ ~(k <= j) /\ k = j + 1 /\ k \in 1 .. n /\ ~(k <= e)
    BY <1>4, <2>2
  <2>4. C(j) = C(e)
    BY <2>1, <2>3
  <2>5. path[k] = Slash
    BY <1>4, <2>3
  <2>6. C(k) = Named(C(j), path[k])
    BY <1>7, <2>3
  <2> QED BY <2>4, <2>5, <2>6 DEF Named
<1>9. names = C(e)
  BY <1>1, <1>4, <1>7, <1>8
<1>10. front = C(b)
  BY <1>5 DEF C, ParentPath
<1>11. C(b) \in Seq(Name) /\ C(e) \in Seq(Name)
  <2>1. b \in 0 .. n /\ e \in 0 .. n
    BY <1>4, <1>6
  <2>2. SubSeq(path, 1, b) \in Seq(S) /\ SubSeq(path, 1, e) \in Seq(S)
    BY <1>7, <2>1
  <2> QED BY <2>2, ComponentsIn DEF C
<1>12. CASE e = 1
  <2>1. b = 1
    BY <1>6, <1>12
  <2>2. 0 \in 0 .. n /\ 0 < n
    BY <1>1
  <2>3. C(1) = Named(C(0), path[1]) /\ C(0) = <<>>
    BY <1>7, <2>2
  <2>4. C(1) = <<>>
    BY <1>2, <2>3 DEF Named
  <2>5. base = NoName
    BY <1>3, <1>5, <1>12, <2>1 DEF Basename
  <2>6. NoName \in Name /\ names = <<>> /\ front = <<>>
    BY <1>9, <1>10, <1>12, <2>1, <2>4, VfsAssumption
  <2> QED BY <1>9, <1>10, <1>11, <2>5, <2>6
<1>13. CASE e # 1
  <2>1. path[e] # Slash /\ e \in 2 .. n /\ path[e] \in Name
    BY <1>2, <1>4, <1>13
  <2>2. path[e - 1] = Slash /\ e - 1 \in 1 .. e
    BY <1>2, <2>1
  <2>3. b = e - 1
    <3>1. e - 1 <= b /\ b # e /\ b \in 1 .. e /\ e \in Nat
      BY <1>6, <2>1, <2>2
    <3> QED BY <3>1
  <2>4. b \in 0 .. n /\ b < n /\ e = b + 1 /\ b # e
    BY <2>1, <2>3
  <2>5. C(e) = Named(C(b), path[e])
    BY <1>7, <2>4
  <2>6. base = path[e]
    BY <1>3, <1>5, <2>4 DEF Basename
  <2> QED BY <1>9, <1>10, <1>11, <2>1, <2>5, <2>6 DEF Named
<1> QED BY <1>12, <1>13

-----------------------------------------------------------------------------
(* The tree of names that a table of inodes is.                            *)

NodeAt(i, p) == [kind |-> i[Walk(i, 1, p)].kind, content |-> i[Walk(i, 1, p)].content]

LEMMA TreeIs ==
  ASSUME NEW i, Table(i), 1 \in DOMAIN i
  PROVE  /\ TreeOf(i, 1) = [p \in Found(i, 1) |-> NodeAt(i, p)]
         /\ DOMAIN TreeOf(i, 1) = Found(i, 1)
         /\ \A p \in Found(i, 1) : TreeOf(i, 1)[p] = NodeAt(i, p)
         /\ <<>> \in Found(i, 1)
         /\ TreeOf(i, 1) # << >>
<1>1. TreeOf(i, 1) = [p \in Found(i, 1) |-> NodeAt(i, p)]
  BY DEF TreeOf, NodeAt, NoRoot
<1>2. <<>> \in Found(i, 1)
  <2>1. Walk(i, 1, <<>>) = 1 /\ <<>> \in Seq(Name)
    BY WalkFirst
  <2>2. There(i, <<>>)
    BY <2>1 DEF There
  <2> QED BY <2>2, FoundIs
<1>3. DOMAIN TreeOf(i, 1) = Found(i, 1) /\ \A p \in Found(i, 1) : TreeOf(i, 1)[p] = NodeAt(i, p)
  BY <1>1
<1>4. TreeOf(i, 1) # << >>
  <2>1. DOMAIN << >> = {}
    OBVIOUS
  <2> QED BY <1>2, <1>3, <2>1
<1> QED BY <1>1, <1>2, <1>3, <1>4

\* An inode that is lost is not found.
LEMMA TreeStays ==
  ASSUME NEW i, Table(i), 1 \in DOMAIN i, NEW j, Table(j),
         DOMAIN i \subseteq DOMAIN j, \A d \in DOMAIN i : j[d] = i[d]
  PROVE  TreeOf(j, 1) = TreeOf(i, 1)
<1>1. \A p \in Seq(Name) : Walk(j, 1, p) = Walk(i, 1, p)
  BY LostWalk
<1>2. ASSUME NEW p PROVE There(i, p) <=> There(j, p)
  <2>1. ASSUME p \in Seq(Name), Walk(j, 1, p) \in DOMAIN j PROVE Walk(i, 1, p) \in DOMAIN i
    <3>1. Walk(i, 1, p) \notin Errors
      BY <1>1, <2>1, TableTypes
    <3> QED BY <2>1, <3>1, WalkFacts DEF Errors
  <2> QED BY <1>1, <2>1 DEF There
<1>3. Found(i, 1) = Found(j, 1)
  <2>1. 1 \in DOMAIN j
    OBVIOUS
  <2>2. \A p : p \in Found(i, 1) <=> There(i, p)
    BY FoundIs
  <2>3. \A p : p \in Found(j, 1) <=> There(j, p)
    BY <2>1, FoundIs
  <2> QED BY <1>2, <2>2, <2>3
<1>4. \A p \in Found(i, 1) : NodeAt(i, p) = NodeAt(j, p)
  <2> TAKE p \in Found(i, 1)
  <2>1. p \in Seq(Name) /\ Walk(i, 1, p) \in DOMAIN i
    BY FoundIs DEF There
  <2> QED BY <1>1, <2>1 DEF NodeAt
<1>5. TreeOf(i, 1) = [p \in Found(i, 1) |-> NodeAt(i, p)] /\ TreeOf(j, 1) = [p \in Found(j, 1) |-> NodeAt(j, p)]
  <2>1. 1 \in DOMAIN j
    OBVIOUS
  <2> QED BY <2>1, TreeIs
<1> QED BY <1>3, <1>4, <1>5

\* A tree with a node more, unless it has one of that name.
Planted(t, x, kind, content) ==
  [y \in DOMAIN t \cup {x} |-> IF y \in DOMAIN t THEN t[y] ELSE [kind |-> kind, content |-> content]]

LEMMA TreeGrows ==
  ASSUME NEW i, Table(i), 1 \in DOMAIN i, NEW d \in DOMAIN i, i[d].kind = "INODE_DIR",
         NEW new \in Node, new.entries = <<>>, NEW j, Link(i, j, d, new),
         NEW q \in Seq(Name), Walk(i, 1, q) = d
  PROVE  TreeOf(j, 1) = Planted(TreeOf(i, 1), Append(q, new.name), new.kind, new.content)
<1>1. PICK x : x = Append(q, new.name)
  OBVIOUS
<1>2. x \in Seq(Name) /\ new.name \in Name
  <2>1. new.name \in Name
    BY DEF Node
  <2> QED BY <1>1, <2>1
<1>3. /\ DOMAIN i = 1 .. Len(i) /\ Len(i) \in Nat /\ DOMAIN j = 1 .. Len(j) /\ Len(j) = Len(i) + 1
      /\ Table(j) /\ j[Len(j)] = new /\ Len(j) \in DOMAIN j /\ 1 \in DOMAIN j
      /\ Errors \cap DOMAIN j = {} /\ DOMAIN i \subseteq DOMAIN j
  BY TableTypes DEF Link
<1>4. ASSUME NEW p \in Seq(Name), Walk(i, 1, p) \in DOMAIN i
      PROVE  Walk(j, 1, p) = Walk(i, 1, p)
  <2>1. Arrives(i, j, d, new.name, p)
    BY LinkWalk
  <2> QED BY <1>4, <2>1 DEF Arrives
<1>5. ASSUME NEW p \in Seq(Name), Walk(i, 1, p) \notin DOMAIN i
      PROVE  IF p = x THEN Walk(j, 1, p) = Len(j) ELSE Walk(j, 1, p) \notin DOMAIN j
  <2>1. Arrives(i, j, d, new.name, p)
    BY LinkWalk
  <2>2. CASE p = x
    BY <1>1, <1>5, <2>1, <2>2 DEF Arrives
  <2>3. CASE p # x
    <3>1. ASSUME NEW g \in Seq(Name), Walk(i, 1, g) = d PROVE p # Append(g, new.name)
      <4>1. g = q
        BY <3>1, WalkOnce
      <4> QED BY <1>1, <2>3, <4>1
    <3>2. Walk(j, 1, p) \in Errors
      BY <1>5, <2>1, <3>1 DEF Arrives
    <3> QED BY <1>3, <2>3, <3>2
  <2> QED BY <2>2, <2>3
<1>6. \A p : p \in Found(i, 1) <=> There(i, p)
  BY FoundIs
<1>7. \A p : p \in Found(j, 1) <=> There(j, p)
  BY <1>3, FoundIs
<1>8. Found(j, 1) = Found(i, 1) \cup {x}
  <2>1. ASSUME NEW p PROVE There(j, p) <=> There(i, p) \/ p = x
    <3>1. CASE p \notin Seq(Name)
      BY <1>2, <3>1 DEF There
    <3>2. CASE p \in Seq(Name) /\ Walk(i, 1, p) \in DOMAIN i
      BY <1>3, <1>4, <3>2 DEF There
    <3>3. CASE p \in Seq(Name) /\ Walk(i, 1, p) \notin DOMAIN i
      BY <1>3, <1>5, <3>3 DEF There
    <3> QED BY <3>1, <3>2, <3>3
  <2> QED BY <1>6, <1>7, <2>1
<1>9. ASSUME NEW p \in Found(j, 1)
      PROVE  NodeAt(j, p) = IF p \in Found(i, 1) THEN NodeAt(i, p) ELSE [kind |-> new.kind, content |-> new.content]
  <2>1. CASE p \in Found(i, 1)
    <3>1. p \in Seq(Name) /\ Walk(i, 1, p) \in DOMAIN i
      BY <1>6, <2>1 DEF There
    <3>2. PICK e : e = Walk(i, 1, p) /\ e = Walk(j, 1, p) /\ e \in DOMAIN i
      BY <1>4, <3>1
    <3>3. j[e].kind = i[e].kind /\ j[e].content = i[e].content
      BY <3>2 DEF Link
    <3> QED BY <2>1, <3>2, <3>3 DEF NodeAt
  <2>2. CASE p \notin Found(i, 1)
    <3>1. p = x /\ Walk(i, 1, p) \notin DOMAIN i
      BY <1>2, <1>6, <1>8, <2>2 DEF There
    <3>2. Walk(j, 1, p) = Len(j)
      BY <1>2, <1>5, <3>1
    <3> QED BY <1>3, <2>2, <3>2 DEF NodeAt
  <2> QED BY <2>1, <2>2
<1>10. /\ DOMAIN TreeOf(i, 1) = Found(i, 1) /\ \A p \in Found(i, 1) : TreeOf(i, 1)[p] = NodeAt(i, p)
       /\ TreeOf(j, 1) = [p \in Found(j, 1) |-> NodeAt(j, p)]
  BY <1>3, TreeIs
<1>11. PICK t : t = TreeOf(i, 1)
  OBVIOUS
<1>12. Planted(t, x, new.kind, new.content)
         = [p \in Found(j, 1) |-> IF p \in Found(i, 1) THEN t[p] ELSE [kind |-> new.kind, content |-> new.content]]
  BY <1>8, <1>10, <1>11 DEF Planted
<1>13. \A p \in Found(j, 1) :
         NodeAt(j, p) = IF p \in Found(i, 1) THEN t[p] ELSE [kind |-> new.kind, content |-> new.content]
  BY <1>9, <1>10, <1>11
<1> QED BY <1>1, <1>10, <1>11, <1>12, <1>13

-----------------------------------------------------------------------------
(* The calls.                                                              *)

Rooted == vfs_root = 1 /\ Table(inode) /\ 1 \in DOMAIN inode

\* What the abstract search finds is what vfs_lookup answers.
LEMMA FindIs ==
  ASSUME Rooted, NEW p \in Seq(Name)
  PROVE  /\ Walk(inode, vfs_root, p) \in DOMAIN inode \cup Errors
         /\ NameTreeSpec!Find(p) = IF Walk(inode, vfs_root, p) \in DOMAIN inode THEN SUCCESS
                                   ELSE Walk(inode, vfs_root, p)
<1> DEFINE W(k) == Walk(inode, 1, SubSeq(p, 1, k))
<1>1. /\ Table(inode) /\ 1 \in DOMAIN inode /\ vfs_root = 1
      /\ DOMAIN inode = 1 .. Len(inode) /\ Len(inode) \in Nat /\ Errors \cap DOMAIN inode = {}
  BY TableTypes DEF Rooted
<1>2. PICK n \in Nat : n = Len(p)
  OBVIOUS
<1>3. ASSUME NEW k \in 0 .. n
      PROVE  /\ SubSeq(p, 1, k) \in Seq(Name)
             /\ W(k) \in DOMAIN inode \cup {UNIMPLEMENTED, FILE_NOT_FOUND}
             /\ k = 0 => W(k) = 1
             /\ k = n => W(k) = Walk(inode, 1, p)
             /\ k < n => W(k + 1) = Step(inode, W(k), p[k + 1])
  <2>1. /\ SubSeq(p, 1, k) \in Seq(Name)
        /\ k = 0 => SubSeq(p, 1, k) = <<>>
        /\ k = n => SubSeq(p, 1, k) = p
        /\ k < n => SubSeq(p, 1, k + 1) = Append(SubSeq(p, 1, k), p[k + 1]) /\ p[k + 1] \in Name
    BY <1>2, SubFacts
  <2>2. W(k) \in DOMAIN inode \cup {UNIMPLEMENTED, FILE_NOT_FOUND}
    BY <1>1, <2>1, WalkFacts
  <2>3. ASSUME k < n PROVE W(k + 1) = Step(inode, W(k), p[k + 1])
    <3>1. PICK s, x : s = SubSeq(p, 1, k) /\ x = p[k + 1]
      OBVIOUS
    <3>2. s \in Seq(Name) /\ x \in Name
      BY <2>1, <2>3, <3>1
    <3>3. Walk(inode, 1, Append(s, x)) = Step(inode, Walk(inode, 1, s), x)
      BY <3>2, WalkStep
    <3> QED BY <2>1, <2>3, <3>1, <3>3
  <2>4. k = 0 => W(k) = 1
    BY <2>1, WalkFirst
  <2> QED BY <2>1, <2>2, <2>3, <2>4
<1>4. \A k \in 0 .. n : SubSeq(p, 1, k) \in DOMAIN TreeOf(inode, vfs_root) <=> W(k) \in DOMAIN inode
  <2> TAKE k \in 0 .. n
  <2>1. SubSeq(p, 1, k) \in DOMAIN TreeOf(inode, 1) <=> There(inode, SubSeq(p, 1, k))
    BY <1>1, TreeIs, FoundIs
  <2> QED BY <1>1, <1>3, <2>1 DEF There
<1> DEFINE reach == {k \in 0 .. n : SubSeq(p, 1, k) \in DOMAIN TreeOf(inode, vfs_root)}
           far == CHOOSE k \in reach : \A j \in reach : j <= k
<1>5. far \in reach /\ \A j \in reach : j <= far
  <2>1. reach \subseteq 0 .. n
    OBVIOUS
  <2>2. 0 \in reach
    <3>1. 0 \in 0 .. n
      OBVIOUS
    <3>2. W(0) \in DOMAIN inode
      BY <1>1, <1>3, <3>1
    <3> QED BY <1>4, <3>1, <3>2
  <2> HIDE DEF reach
  <2>3. Max(reach) \in reach /\ \A y \in reach : Max(reach) >= y
    BY <2>1, <2>2, MaxFacts
  <2>4. \A y \in reach : y <= Max(reach)
    BY <2>1, <2>3
  <2>5. \E k \in reach : \A j \in reach : j <= k
    BY <2>3, <2>4
  <2> QED BY <2>5
<1>6. NameTreeSpec!Find(p) = IF far = Len(p) THEN SUCCESS
                             ELSE IF NameTreeSpec!IsDir(SubSeq(p, 1, far)) THEN FILE_NOT_FOUND
                             ELSE UNIMPLEMENTED
  BY <1>2 DEF NameTreeSpec!Find
<1>7. PICK f : f = far
  OBVIOUS
<1>8. /\ f \in 0 .. n /\ W(f) \in DOMAIN inode /\ \A j \in 0 .. n : W(j) \in DOMAIN inode => j <= f
      /\ SubSeq(p, 1, f) \in DOMAIN TreeOf(inode, vfs_root)
  <2>1. f \in 0 .. n /\ SubSeq(p, 1, f) \in DOMAIN TreeOf(inode, vfs_root)
    BY <1>5, <1>7
  <2>2. \A j \in 0 .. n : W(j) \in DOMAIN inode => j \in reach
    BY <1>4
  <2> QED BY <1>4, <1>5, <1>7, <2>1, <2>2
<1> HIDE DEF far, reach, W
<1>9. Walk(inode, 1, p) = W(n) /\ W(n) \in DOMAIN inode \cup Errors
  <2>1. n \in 0 .. n
    OBVIOUS
  <2> QED BY <1>3, <2>1 DEF Errors
<1>10. CASE f = n
  BY <1>1, <1>2, <1>6, <1>7, <1>8, <1>9, <1>10
<1>11. CASE f # n
  <2>1. f < n /\ f + 1 \in 0 .. n /\ ~(f + 1 <= f)
    BY <1>8, <1>11
  <2>2. PICK d, name : d = W(f) /\ name = p[f + 1]
    OBVIOUS
  <2>3. W(f + 1) = Step(inode, d, name) /\ W(f + 1) \notin DOMAIN inode
    BY <1>3, <1>8, <2>1, <2>2
  <2>4. Step(inode, d, name) = IF inode[d].kind = "INODE_DIR" THEN FILE_NOT_FOUND ELSE UNIMPLEMENTED
    BY <1>1, <1>8, <2>2, <2>3, StepFacts
  <2>5. NameTreeSpec!IsDir(SubSeq(p, 1, f)) <=> inode[d].kind = "INODE_DIR"
    <3>1. PICK s : s = SubSeq(p, 1, f)
      OBVIOUS
    <3>2. d = Walk(inode, 1, s) /\ s \in DOMAIN TreeOf(inode, 1)
      BY <1>1, <1>8, <2>2, <3>1 DEF W
    <3>3. TreeOf(inode, 1)[s] = NodeAt(inode, s)
      BY <1>1, <3>2, TreeIs
    <3>4. TreeOf(inode, 1)[s].kind = inode[d].kind
      BY <3>2, <3>3 DEF NodeAt
    <3> QED BY <1>1, <3>1, <3>2, <3>4 DEF NameTreeSpec!IsDir
  <2>6. \A k \in f + 1 .. n : W(k) = W(f + 1)
    <3> DEFINE T == {k \in f + 1 .. n : W(k) # W(f + 1)}
    <3> SUFFICES ASSUME T # {} PROVE FALSE
      OBVIOUS
    <3>1. PICK k \in T : \A j \in T : k <= j
      <4>1. T \subseteq Nat
        BY <1>8
      <4> HIDE DEF T
      <4> QED BY <4>1, LeastNat
    <3>2. PICK j : j = k - 1
      OBVIOUS
    <3>3. k # f + 1 /\ j \in f + 1 .. n /\ j \in 0 .. n /\ j < n /\ ~(k <= j) /\ k = j + 1
      BY <1>8, <3>2
    <3>4. W(j) = W(f + 1)
      BY <3>1, <3>3
    <3>5. W(k) = Step(inode, W(j), p[k])
      BY <1>3, <3>3
    <3> QED BY <2>3, <3>4, <3>5 DEF Step
  <2>7. W(n) = W(f + 1)
    BY <2>1, <2>6
  <2>8. Walk(inode, 1, p) = Step(inode, d, name) /\ Walk(inode, 1, p) \notin DOMAIN inode
    BY <1>9, <2>3, <2>7
  <2> QED BY <1>1, <1>2, <1>6, <1>7, <1>9, <1>11, <2>4, <2>5, <2>8
<1> QED BY <1>10, <1>11

FsInv ==
  \/ vfs_root = NoRoot /\ inode = <<>> /\ pc \in {"mount", "initrd", "unknown", "fault"}
  \/ Rooted /\ pc # "mount"

\* Without a root no name leads anywhere.
LEMMA WalkNowhere ==
  ASSUME NEW S, NEW p \in Seq(S), NEW i, i = <<>>
  PROVE  Walk(i, NoRoot, p) = NoRoot
<1> DEFINE T == {q \in Seq(S) : Walk(i, NoRoot, q) # NoRoot}
<1> SUFFICES ASSUME T # {} PROVE FALSE
  OBVIOUS
<1>1. PICK q \in T : q = <<>> \/ \E h \in Seq(S) \ T, n \in S : q = Append(h, n)
  <2>1. T \subseteq Seq(S)
    OBVIOUS
  <2> HIDE DEF T
  <2> QED BY <2>1, ShortestSeq
<1>2. q # <<>>
  BY WalkFirst
<1>3. PICK h \in Seq(S) \ T, n \in S : q = Append(h, n)
  BY <1>1, <1>2
<1>4. Walk(i, NoRoot, h) = NoRoot
  BY <1>3
<1>5. Walk(i, NoRoot, q) = Step(i, NoRoot, n)
  BY <1>3, <1>4, WalkStep
<1>6. NoRoot \notin DOMAIN i
  BY DEF NoRoot
<1> QED BY <1>5, <1>6 DEF Step

\* What the parts of a path are to the tree.
LEMMA CallFacts ==
  ASSUME Rooted, NEW path, IsPath(path), NEW names, names = Components(path),
         NEW front, front = Components(ParentPath(path)), NEW at, at = Lookup(ParentPath(path))
  PROVE  /\ front \in Seq(Name) /\ Basename(path) \in Name
         /\ NameTreeSpec!Parent(names) = front /\ NameTreeSpec!NameOf(names) = Basename(path)
         /\ at = Walk(inode, 1, front) /\ at \in DOMAIN inode \cup Errors
         /\ NameTreeSpec!IsDir(front) <=> at \in DOMAIN inode /\ inode[at].kind = "INODE_DIR"
         /\ NameTreeSpec!Find(front) = IF at \in DOMAIN inode THEN SUCCESS ELSE at
         /\ TreeOf(inode, vfs_root) # << >>
<1>1. PICK base : base = Basename(path)
  OBVIOUS
<1>2. /\ names \in Seq(Name) /\ front \in Seq(Name) /\ base \in Name
      /\ \/ names = <<>> /\ front = <<>> /\ base = NoName
         \/ names = Append(front, base)
  BY <1>1, PathFacts
<1>3. NameTreeSpec!Parent(names) = front /\ NameTreeSpec!NameOf(names) = base
  <2>1. CASE names = <<>> /\ front = <<>> /\ base = NoName
    BY <2>1 DEF NameTreeSpec!Parent, NameTreeSpec!NameOf
  <2>2. CASE names = Append(front, base)
    <3>1. /\ names # <<>> /\ Len(names) = Len(front) + 1 /\ Len(front) \in Nat
          /\ names[Len(front) + 1] = base /\ \A k \in 1 .. Len(front) : names[k] = front[k]
      BY <1>2, <2>2
    <3>2. SubSeq(names, 1, Len(names) - 1) = front
      <4>1. PICK s : s = SubSeq(names, 1, Len(front))
        OBVIOUS
      <4>2. s \in Seq(Name) /\ Len(s) = Len(front) /\ \A k \in 1 .. Len(front) : s[k] = names[k]
        BY <1>2, <3>1, <4>1
      <4>3. s = front
        BY <1>2, <3>1, <4>2
      <4> QED BY <3>1, <4>1, <4>3
    <3> QED BY <3>1, <3>2 DEF NameTreeSpec!Parent, NameTreeSpec!NameOf
  <2> QED BY <1>2, <2>1, <2>2
<1>4. at = Walk(inode, 1, front) /\ vfs_root = 1 /\ Table(inode) /\ 1 \in DOMAIN inode
  BY DEF Lookup, Rooted
<1>5. /\ at \in DOMAIN inode \cup Errors
      /\ NameTreeSpec!Find(front) = IF at \in DOMAIN inode THEN SUCCESS ELSE at
  BY <1>2, <1>4, FindIs
<1>6. NameTreeSpec!IsDir(front) <=> at \in DOMAIN inode /\ inode[at].kind = "INODE_DIR"
  <2>1. front \in DOMAIN TreeOf(inode, 1) <=> at \in DOMAIN inode
    BY <1>2, <1>4, TreeIs, FoundIs DEF There
  <2>2. front \in DOMAIN TreeOf(inode, 1) => TreeOf(inode, 1)[front].kind = inode[at].kind
    <3>1. front \in DOMAIN TreeOf(inode, 1) => TreeOf(inode, 1)[front] = NodeAt(inode, front)
      BY <1>4, TreeIs
    <3> QED BY <1>4, <3>1 DEF NodeAt
  <2> QED BY <1>4, <2>1, <2>2 DEF NameTreeSpec!IsDir
<1> QED BY <1>1, <1>2, <1>3, <1>4, <1>5, <1>6, TreeIs

FsStep == NameTreeSpec!Next \/ UNCHANGED NameTreeSpec!vars

\* A call that changes nothing but what kmain sees.
LEMMA StillTree ==
  ASSUME FsInv, UNCHANGED <<inode, vfs_root>>, pc' # "mount",
         vfs_root = NoRoot => pc' \in {"initrd", "unknown", "fault"}
  PROVE  FsInv' /\ TreeOf(inode, vfs_root)' = TreeOf(inode, vfs_root)
<1>1. FsInv'
  BY DEF FsInv, Rooted
<1> QED BY <1>1

LEMMA NewFacts ==
  ASSUME NEW kind \in {"INODE_DIR", "INODE_FILE"}, NEW name \in Name, NEW content \in FileContent
  PROVE  /\ NewInode(kind, name, content) \in Node /\ NewInode(kind, name, content).entries = <<>>
         /\ NewInode(kind, name, content).name = name /\ NewInode(kind, name, content).kind = kind
         /\ NewInode(kind, name, content).content = content
BY DEF NewInode, Node

\* vfs_create implements the creations of a name tree.
LEMMA CreateStep ==
  ASSUME FsInv, NEW path, IsPath(path), NEW kind \in {"INODE_DIR", "INODE_FILE"},
         NEW content \in FileContent, kind = "INODE_DIR" => content = Empty,
         NEW then, NEW otherwise, then # "mount", otherwise # "mount",
         VfsCreate(path, kind, content, then, otherwise)
  PROVE  FsInv' /\ FsStep
<1>0. PICK names, front, at : /\ names = Components(path) /\ front = Components(ParentPath(path))
                              /\ at = Lookup(ParentPath(path))
  OBVIOUS
<1>1. CASE Fault
  <2>1. FsInv' /\ TreeOf(inode, vfs_root)' = TreeOf(inode, vfs_root)
    BY <1>1, StillTree DEF Fault
  <2> QED BY <1>1, <2>1 DEF Fault, FsStep, NameTreeSpec!vars
<1>2. CASE vfs_root = NoRoot
  <2>1. inode = <<>> /\ at = NoRoot
    <3>1. inode = <<>>
      BY <1>2 DEF FsInv, Rooted, NoRoot
    <3>2. front \in Seq(Name)
      BY <1>0, PathFacts
    <3> QED BY <1>0, <1>2, <3>1, <3>2, WalkNowhere DEF Lookup
  <2>2. at \notin Errors /\ at \notin DOMAIN inode
    BY <2>1 DEF NoRoot, Errors, UNIMPLEMENTED, NAME_LIMIT, FILE_NOT_FOUND, OUT_OF_MEMORY
  <2>3. ~CreateAstray(path, otherwise)
    BY <1>0, <2>2 DEF CreateAstray
  <2>4. ParentDir(path) = {}
    BY <1>0, <2>2 DEF ParentDir
  <2>5. Fault
    BY <2>3, <2>4 DEF VfsCreate, CreateOutOfMemory, CreateNameLimit, CreatePastPage, CreateEntry
  <2> QED BY <1>1, <2>5
<1>3. CASE vfs_root # NoRoot
  <2>0. Rooted
    BY <1>3 DEF FsInv
  <2>1. /\ front \in Seq(Name) /\ Basename(path) \in Name
        /\ NameTreeSpec!Parent(names) = front /\ NameTreeSpec!NameOf(names) = Basename(path)
        /\ at = Walk(inode, 1, front) /\ at \in DOMAIN inode \cup Errors
        /\ NameTreeSpec!IsDir(front) <=> at \in DOMAIN inode /\ inode[at].kind = "INODE_DIR"
        /\ NameTreeSpec!Find(front) = IF at \in DOMAIN inode THEN SUCCESS ELSE at
        /\ TreeOf(inode, vfs_root) # << >>
    BY <1>0, <2>0, CallFacts
  <2>2. ASSUME ParentDir(path) # {} PROVE ParentDir(path) = {at} /\ NameTreeSpec!IsDir(front)
    BY <1>0, <2>1, <2>2 DEF ParentDir
  <2>3. Table(inode) /\ 1 \in DOMAIN inode /\ vfs_root = 1 /\ Errors \cap DOMAIN inode = {}
    BY <2>0, TableTypes DEF Rooted
  <2>4. CASE CreateAstray(path, otherwise)
    <3>1. FsInv' /\ TreeOf(inode, vfs_root)' = TreeOf(inode, vfs_root)
      BY <1>3, <2>4, StillTree DEF CreateAstray
    <3>2. /\ ~NameTreeSpec!IsDir(front)
          /\ answer' = [op |-> "create", path |-> names, name |-> NoName,
                        res |-> IF at \in Errors THEN at ELSE UNIMPLEMENTED]
      BY <1>0, <2>1, <2>3, <2>4 DEF CreateAstray, Answer
    <3>3. (IF at \in Errors THEN at ELSE UNIMPLEMENTED)
            = IF NameTreeSpec!Find(front) = SUCCESS THEN UNIMPLEMENTED ELSE NameTreeSpec!Find(front)
      BY <2>1, <2>3 DEF Errors, SUCCESS, UNIMPLEMENTED, NAME_LIMIT, FILE_NOT_FOUND, OUT_OF_MEMORY
    <3>4. NameTreeSpec!CreateAstray(names)
      BY <2>1, <3>1, <3>2, <3>3 DEF NameTreeSpec!CreateAstray, NameTreeSpec!Answer
    <3>5. answer'.path = names
      BY <3>2
    <3> QED BY <2>1, <3>1, <3>4, <3>5 DEF FsStep, NameTreeSpec!Next
  <2>5. CASE CreateOutOfMemory(path, otherwise)
    <3>1. FsInv' /\ TreeOf(inode, vfs_root)' = TreeOf(inode, vfs_root)
      BY <1>3, <2>5, StillTree DEF CreateOutOfMemory
    <3>2. /\ NameTreeSpec!IsDir(front)
          /\ answer' = [op |-> "create", path |-> names, name |-> NoName, res |-> OUT_OF_MEMORY]
      BY <1>0, <2>2, <2>5 DEF CreateOutOfMemory, Answer
    <3>3. NameTreeSpec!CreateRefused(names)
      BY <2>1, <3>1, <3>2 DEF NameTreeSpec!CreateRefused, NameTreeSpec!Answer
    <3>4. answer'.path = names
      BY <3>2
    <3> QED BY <2>1, <3>1, <3>3, <3>4 DEF FsStep, NameTreeSpec!Next
  <2>6. CASE CreateNameLimit(path, kind, otherwise)
    <3>1. PICK new : new = NewInode(kind, NoName, Empty)
      OBVIOUS
    <3>2. new \in Node /\ new.entries = <<>>
      BY <3>1, NewFacts, VfsAssumption
    <3>3. PICK j : j = inode' /\ j = Append(inode, new)
      BY <2>6, <3>1 DEF CreateNameLimit
    <3>4. Table(j) /\ DOMAIN inode \subseteq DOMAIN j /\ \A d \in DOMAIN inode : j[d] = inode[d]
      BY <2>3, <3>2, <3>3, LostTable
    <3>5. TreeOf(j, 1) = TreeOf(inode, 1)
      BY ONLY <2>3, <3>4, TreeStays
    <3>6. FsInv' /\ TreeOf(inode, vfs_root)' = TreeOf(inode, vfs_root)
      BY <2>3, <2>6, <3>3, <3>4, <3>5 DEF CreateNameLimit, FsInv, Rooted
    <3>7. /\ NameTreeSpec!IsDir(front) /\ Basename(path) \in LongName
          /\ answer' = [op |-> "create", path |-> names, name |-> NoName, res |-> NAME_LIMIT]
      BY <1>0, <2>2, <2>6 DEF CreateNameLimit, Answer
    <3>8. NameTreeSpec!CreateRefused(names)
      BY <2>1, <3>6, <3>7 DEF NameTreeSpec!CreateRefused, NameTreeSpec!Answer
    <3>9. answer'.path = names
      BY <3>7
    <3> QED BY <2>1, <3>6, <3>8, <3>9 DEF FsStep, NameTreeSpec!Next
  <2>7. CASE CreatePastPage(path)
    <3>1. FsInv' /\ TreeOf(inode, vfs_root)' = TreeOf(inode, vfs_root)
      BY <1>3, <2>7, StillTree DEF CreatePastPage
    <3> QED BY <2>7, <3>1 DEF CreatePastPage, FsStep, NameTreeSpec!vars
  <2>8. CASE CreateEntry(path, kind, content, then)
    <3>1. PICK d \in ParentDir(path), name \in Reads[Basename(path)] :
            /\ inode' = Append(WithEntry(d), NewInode(kind, name, content))
            /\ Answer("create", Components(path), name, SUCCESS)
      BY <2>8 DEF CreateEntry
    <3>2. d = at /\ at \in DOMAIN inode /\ inode[at].kind = "INODE_DIR" /\ NameTreeSpec!IsDir(front)
      BY <2>1, <2>2, <3>1
    <3>3. name \in Name
      BY <2>1, <3>1, VfsAssumption
    <3>4. PICK new : new = NewInode(kind, name, content)
      OBVIOUS
    <3>5. new \in Node /\ new.entries = <<>> /\ new.name = name /\ new.kind = kind /\ new.content = content
      BY <3>3, <3>4, NewFacts
    <3>6. PICK i, j : i = inode /\ j = inode'
      OBVIOUS
    <3>7. j = Append([i EXCEPT ![at].entries = Append(@, Len(i) + 1)], new)
      BY <3>1, <3>2, <3>4, <3>6 DEF WithEntry
    <3>8. Table(i) /\ 1 \in DOMAIN i /\ at \in DOMAIN i /\ i[at].kind = "INODE_DIR" /\ Walk(i, 1, front) = at
      BY <2>1, <2>3, <3>2, <3>6
    <3>9. Link(i, j, at, new)
      BY ONLY <3>5, <3>7, <3>8, LinkTable
    <3>10. TreeOf(j, 1) = Planted(TreeOf(i, 1), Append(front, new.name), new.kind, new.content)
      BY ONLY <2>1, <3>5, <3>8, <3>9, TreeGrows
    <3>11. FsInv'
      <4>1. Table(j) /\ 1 \in DOMAIN j
        <5>1. Table(j) /\ Len(j) = Len(i) + 1
          BY <3>9 DEF Link
        <5> QED BY <3>8, <5>1, TableTypes
      <4>2. vfs_root' = 1 /\ pc' # "mount"
        BY <2>3, <2>8 DEF CreateEntry
      <4> QED BY <3>6, <4>1, <4>2 DEF FsInv, Rooted
    <3>12. TreeOf(inode, vfs_root)' = Planted(TreeOf(inode, vfs_root), Append(front, name), kind, content)
      BY <2>3, <2>8, <3>5, <3>6, <3>10 DEF CreateEntry
    <3>13. answer' = [op |-> "create", path |-> names, name |-> name, res |-> SUCCESS]
      BY <1>0, <3>1 DEF Answer
    <3>14. Basename(path) \notin LongName
      BY <2>8 DEF CreateEntry
    <3>15. NameTreeSpec!Create(names, kind, content)
      BY <2>1, <3>1, <3>2, <3>12, <3>13, <3>14 DEF NameTreeSpec!Create, NameTreeSpec!Answer, Planted
    <3>16. answer'.path = names
      BY <3>13
    <3> QED BY <2>1, <3>11, <3>15, <3>16 DEF FsStep, NameTreeSpec!Next
  <2> QED BY <1>1, <2>4, <2>5, <2>6, <2>7, <2>8 DEF VfsCreate
<1> QED BY <1>2, <1>3


LEMMA MountStep == ASSUME FsInv, Mount PROVE FsInv' /\ FsStep
<1>1. vfs_root = NoRoot /\ inode = <<>> /\ pc = "mount"
  BY DEF FsInv, Mount
<1>2. TreeOf(inode, vfs_root) = << >>
  BY <1>1 DEF TreeOf
<1>3. PICK first : first = NewInode("INODE_DIR", NoName, Empty)
  OBVIOUS
<1>4. /\ first \in Node /\ first.entries = <<>> /\ first.kind = "INODE_DIR" /\ first.content = Empty
  BY <1>3, NewFacts, VfsAssumption
<1>5. CASE inode' = <<first>> /\ vfs_root' = 1 /\ pc' = "initrd"
           /\ Answer("mount", <<>>, NoName, SUCCESS)
  <2>1. PICK j : j = <<first>>
    OBVIOUS
  <2>2. j \in Seq(Node) /\ DOMAIN j = {1} /\ j[1] = first
    BY <1>4, <2>1
  <2>3. Table(j)
    <3>1. Len(j) = 1 /\ j[1].entries = <<>> /\ Len(j[1].entries) = 0
      BY <1>4, <2>1, <2>2
    <3> QED BY <2>2, <3>1 DEF Table
  <2>4. FsInv'
    BY <1>5, <2>1, <2>2, <2>3 DEF FsInv, Rooted
  <2>5. \A p : There(j, p) <=> p = <<>>
    <3>1. There(j, <<>>)
      BY <2>2, WalkFirst DEF There
    <3>2. ASSUME NEW p, There(j, p), p # <<>> PROVE FALSE
      <4>1. p \in Seq(Name) /\ Walk(j, 1, p) \in DOMAIN j
        BY <3>2 DEF There
      <4>2. PICK h, n : h = SubSeq(p, 1, Len(p) - 1) /\ n = p[Len(p)]
        OBVIOUS
      <4>3. h \in Seq(Name) /\ n \in Name /\ p = Append(h, n)
        BY <3>2, <4>1, <4>2
      <4>4. Under(j, Walk(j, 1, p), Walk(j, 1, h))
        <5>1. Walk(j, 1, Append(h, n)) \in DOMAIN j
          BY <4>1, <4>3
        <5>2. 1 \in DOMAIN j
          BY <2>2
        <5>3. Under(j, Walk(j, 1, Append(h, n)), Walk(j, 1, h))
          BY ONLY <2>3, <4>3, <5>1, <5>2, WalkBack
        <5> QED BY <4>3, <5>3
      <4> QED BY <2>2, <4>1, <4>4 DEF Under
    <3> QED BY <3>1, <3>2
  <2>6. TreeOf(j, 1) = [p \in {<<>>} |-> [kind |-> "INODE_DIR", content |-> Empty]]
    <3>1. DOMAIN TreeOf(j, 1) = {<<>>}
      BY <2>2, <2>3, <2>5, TreeIs, FoundIs
    <3>2. NodeAt(j, <<>>) = [kind |-> "INODE_DIR", content |-> Empty]
      BY <1>4, <2>2, WalkFirst DEF NodeAt
    <3>3. TreeOf(j, 1) = [p \in {<<>>} |-> NodeAt(j, p)]
      BY <2>2, <2>3, <3>1, TreeIs
    <3> QED BY <3>2, <3>3
  <2>7. TreeOf(inode, vfs_root)' = [p \in {<<>>} |-> [kind |-> "INODE_DIR", content |-> Empty]]
    BY <1>5, <2>1, <2>6
  <2>8. answer'.op = "mount" /\ answer'.res = SUCCESS
    BY <1>5 DEF Answer
  <2>9. NameTreeSpec!Mount
    BY <1>2, <2>7, <2>8 DEF NameTreeSpec!Mount
  <2> QED BY <2>4, <2>9 DEF FsStep, NameTreeSpec!Next
<1>6. CASE Answer("mount", <<>>, NoName, OUT_OF_MEMORY) /\ pc' \in {"initrd", "unknown"}
           /\ UNCHANGED <<inode, vfs_root>>
  <2>1. FsInv' /\ TreeOf(inode, vfs_root)' = TreeOf(inode, vfs_root)
    BY <1>6, StillTree
  <2>2. answer'.op = "mount" /\ answer'.res = OUT_OF_MEMORY
    BY <1>6 DEF Answer
  <2>3. NameTreeSpec!Mount
    BY <1>2, <2>1, <2>2 DEF NameTreeSpec!Mount
  <2> QED BY <2>1, <2>3 DEF FsStep, NameTreeSpec!Next
<1> QED BY <1>3, <1>5, <1>6 DEF Mount

LEMMA LookUpStep ==
  ASSUME FsInv, NEW path, IsPath(path), LookUp(path)
  PROVE  FsInv' /\ FsStep
<1>1. Rooted /\ pc' = "loop" /\ UNCHANGED <<inode, vfs_root>>
  BY DEF FsInv, LookUp
<1>2. FsInv' /\ TreeOf(inode, vfs_root)' = TreeOf(inode, vfs_root)
  BY <1>1, StillTree DEF Rooted, NoRoot
<1>3. PICK names : names = Components(path)
  OBVIOUS
<1>4. names \in Seq(Name)
  BY <1>3, PathFacts
<1>5. PICK at : at = Walk(inode, vfs_root, names)
  OBVIOUS
<1>6. /\ at \in DOMAIN inode \cup Errors
      /\ NameTreeSpec!Find(names) = IF at \in DOMAIN inode THEN SUCCESS ELSE at
  BY <1>1, <1>4, <1>5, FindIs
<1>7. Lookup(path) = at
  BY <1>3, <1>5 DEF Lookup
<1>8. (IF at > 0 THEN SUCCESS ELSE at) = NameTreeSpec!Find(names)
  <2>1. CASE at \in DOMAIN inode
    <3>1. at \in Nat \ {0}
      BY <1>1, <2>1, TableTypes DEF Rooted
    <3> QED BY <1>6, <2>1, <3>1
  <2>2. CASE at \notin DOMAIN inode
    BY <1>6, <2>2 DEF Errors, UNIMPLEMENTED, NAME_LIMIT, FILE_NOT_FOUND, OUT_OF_MEMORY
  <2> QED BY <2>1, <2>2
<1>9. answer' = [op |-> "lookup", path |-> names, name |-> NoName, res |-> NameTreeSpec!Find(names)]
  BY <1>3, <1>7, <1>8 DEF LookUp, VfsLookup, Answer
<1>10. NameTreeSpec!Lookup(names)
  BY <1>2, <1>9 DEF NameTreeSpec!Lookup, NameTreeSpec!Answer
<1>11. TreeOf(inode, vfs_root) # << >>
  BY <1>1, TreeIs DEF Rooted
<1>12. answer'.path = names
  BY <1>9
<1> QED BY <1>2, <1>10, <1>11, <1>12 DEF FsStep, NameTreeSpec!Next

LEMMA FsStart == FsInit => FsInv /\ NameTreeSpec!Init
BY DEF FsInit, FsInv, NameTreeSpec!Init, TreeOf

LEMMA FsSteps == FsInv /\ [FsNext]_fsVars => FsInv' /\ FsStep
<1> SUFFICES ASSUME FsInv, [FsNext]_fsVars PROVE FsInv' /\ FsStep
  OBVIOUS
<1>1. \A path \in HeaderPath \cup WantedPath \cup {InitrdPath} : IsPath(path)
  BY VfsAssumption DEF IsPath
<1>2. CASE Mount
  BY <1>2, MountStep
<1>3. CASE MakeInitrd
  <2>1. VfsCreate(InitrdPath, "INODE_DIR", Empty, "extract", "extract")
    BY <1>3 DEF MakeInitrd
  <2> QED BY <1>1, <2>1, CreateStep, VfsAssumption
<1>4. CASE EndOfArchive
  <2>1. FsInv' /\ TreeOf(inode, vfs_root)' = TreeOf(inode, vfs_root)
    <3>1. vfs_root # NoRoot
      BY <1>4 DEF EndOfArchive, FsInv, Rooted, NoRoot
    <3> QED BY <1>4, <3>1, StillTree DEF EndOfArchive
  <2> QED BY <1>4, <2>1 DEF EndOfArchive, FsStep, NameTreeSpec!vars
<1>5. ASSUME NEW path \in HeaderPath, ExtractDir(path) PROVE FsInv' /\ FsStep
  <2>1. VfsCreate(path, "INODE_DIR", Empty, "extract", "lookup")
    BY <1>5 DEF ExtractDir
  <2> QED BY <1>1, <2>1, CreateStep, VfsAssumption
<1>6. ASSUME NEW path \in HeaderPath, NEW content \in FileContent, ExtractFile(path, content)
      PROVE  FsInv' /\ FsStep
  <2>1. PICK written \in {content, Empty} :
          VfsCreate(path, "INODE_FILE", written, "extract", "lookup")
    BY <1>6 DEF ExtractFile
  <2>2. written \in FileContent
    BY VfsAssumption
  <2> QED BY <1>1, <2>1, <2>2, CreateStep
<1>7. ASSUME NEW path \in WantedPath, LookUp(path) PROVE FsInv' /\ FsStep
  BY <1>1, <1>7, LookUpStep
<1>8. CASE UNCHANGED fsVars
  BY <1>8 DEF fsVars, FsInv, Rooted, FsStep, NameTreeSpec!vars
<1> QED BY <1>2, <1>3, <1>4, <1>5, <1>6, <1>7, <1>8 DEF FsNext

\* The directories, entries and walks of the file system are a tree of names that only
\* grows: the first of a name is what is found there, and each answer is what the tree
\* says.
THEOREM TreeRefinement == FsSpec => ImplementsTree
<1>1. FsInit => FsInv /\ NameTreeSpec!Init
  BY FsStart
<1>2. FsInv /\ [FsNext]_fsVars => FsInv' /\ [NameTreeSpec!Next]_(NameTreeSpec!vars)
  BY FsSteps DEF FsStep
<1> QED BY <1>1, <1>2, PTL DEF FsSpec, ImplementsTree, NameTreeSpec!Spec
=============================================================================
