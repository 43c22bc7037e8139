--------------------------- MODULE InputRaceProofs ---------------------------
(* Proofs about InputRace: what the interrupt handler and the reader of the *)
(* event buffer do to each other, for every capacity and number of events,  *)
(* as long as no write lands where the reader cannot stand it.              *)
EXTENDS InputRace, TLAPS

Labels == {"call", "empty", "check", "copy1", "copy2",
           "loadHead", "storeHead", "loadLen", "storeLen"}

\* The index k places after i, without the modulus.
Around(i, k) == IF i + k < Cap THEN i + k ELSE i + k - Cap

\* How many events are in the buffer from head on: the reader steps head before len ...
Stored == IF pc \in {"loadLen", "storeLen"} THEN len - 1 ELSE len

\* ... and how many of them the caller has not been given.
Ungiven == IF pc \in {"loadHead", "storeHead", "loadLen", "storeLen"} THEN len - 1 ELSE len

Types ==
  /\ pc \in Labels
  /\ buf \in [Ring!Index -> Int] /\ head \in Ring!Index /\ tail \in Ring!Index
  /\ len \in 0 .. Cap /\ written \in Nat

\* What the reader has in its registers is still so.
Fresh ==
  /\ pc \notin {"call", "empty", "check"} => len >= 1
  /\ pc \in {"copy1", "copy2"} => slot = head
  /\ pc = "copy2" => out[1] = buf[head]
  /\ pc = "storeHead" => rhead = head
  /\ pc = "storeLen" => rlen = len

\* The buffer has the latest events, and its write index is behind them.
Latest ==
  /\ tail = Around(head, Stored)
  /\ Stored <= written
  /\ \A k \in 1 .. Stored : buf[Around(head, k - 1)] = written - Stored + k

\* The caller was given whole events, each later than the one before and all earlier
\* than those it has yet to get; and every one of them if no write found the buffer full.
Given ==
  /\ got \in Seq(Int \X Int)
  /\ \A k \in 1 .. Len(got) : /\ got[k][1] = got[k][2]
                              /\ k > 1 => got[k - 1][1] < got[k][1]
  /\ got # <<>> => got[Len(got)][1] <= written - Ungiven
  /\ ~dropped => /\ Len(got) = written - Ungiven
                 /\ \A k \in 1 .. Len(got) : got[k] = <<k, k>>

Good == Types /\ Fresh /\ Latest /\ Given

Inv == hit \/ Good
-----------------------------------------------------------------------------
(* Indices.                                                                *)

LEMMA AroundFacts ==
  ASSUME NEW i \in Ring!Index, NEW k \in 0 .. Cap
  PROVE  Around(i, k) = (i + k) % Cap /\ Around(i, k) \in Ring!Index
<1>1. CASE i + k < Cap
  BY <1>1, CapAssumption DEF Ring!Index, Around
<1>2. CASE ~(i + k < Cap)
  BY <1>2, CapAssumption DEF Ring!Index, Around
<1> QED BY <1>1, <1>2

LEMMA SuccFacts ==
  ASSUME NEW i \in Ring!Index
  PROVE  Ring!Succ(i) = Around(i, 1) /\ Around(i, 1) \in Ring!Index
BY AroundFacts, CapAssumption DEF Ring!Succ

\* Places from the next index on, and the place that a write takes.
LEMMA Shifted ==
  ASSUME NEW i \in Ring!Index, NEW k \in 0 .. Cap - 1
  PROVE  Around(Around(i, 1), k) = Around(i, k + 1)
BY CapAssumption DEF Ring!Index, Around

LEMMA Apart ==
  ASSUME NEW i \in Ring!Index, NEW k \in 0 .. Cap - 1, NEW m \in 0 .. Cap - 1, k # m
  PROVE  Around(i, k) # Around(i, m)
BY CapAssumption DEF Ring!Index, Around

LEMMA Full0 ==
  ASSUME NEW i \in Ring!Index
  PROVE  Around(i, 0) = i /\ Around(i, Cap) = i
BY CapAssumption DEF Ring!Index, Around

-----------------------------------------------------------------------------
(* The steps.                                                              *)

LEMMA InitInv == Init => Inv
<1> SUFFICES ASSUME Init PROVE Good
  BY DEF Inv
<1>1. Types
  BY CapAssumption DEF Init, Types, Labels, Ring!Index, Garbage
<1>2. Fresh
  BY DEF Init, Fresh
<1>3. Latest
  BY CapAssumption DEF Init, Latest, Stored, Around
<1>4. Given
  <2>1. got = <<>> /\ written = 0 /\ len = 0 /\ pc = "call"
    BY DEF Init
  <2>2. Ungiven = 0
    BY <2>1 DEF Ungiven
  <2>3. got \in Seq(Int \X Int) /\ Len(got) = 0 /\ written - Ungiven = 0
    BY <2>1, <2>2
  <2> QED BY <2>1, <2>3 DEF Given
<1> QED BY <1>1, <1>2, <1>3, <1>4 DEF Good

\* A write that does no harm.
LEMMA WriteKeepsTypes ==
  ASSUME Good, Interrupt
  PROVE  Types'
<1>1. Types
  BY DEF Good
<1>2. tail' \in Ring!Index /\ head' \in Ring!Index
  BY <1>1, SuccFacts DEF Interrupt, Ring!WriteOver, Types
<1>3. len' \in 0 .. Cap
  BY <1>1, CapAssumption DEF Interrupt, Ring!WriteOver, Ring!Full, Types
<1> QED BY <1>1, <1>2, <1>3 DEF Interrupt, Ring!WriteOver, Types

LEMMA WriteKeepsLatest ==
  ASSUME Good, Interrupt, ~Vulnerable
  PROVE  Latest'
<1>0. /\ Cap \in Nat \ {0} /\ head \in Ring!Index /\ tail \in Ring!Index /\ len \in 0 .. Cap
      /\ written \in Nat /\ buf \in [Ring!Index -> Int]
      /\ tail = Around(head, Stored) /\ Stored <= written
      /\ \A k \in 1 .. Stored : buf[Around(head, k - 1)] = written - Stored + k
  BY CapAssumption DEF Good, Types, Latest
<1>1. /\ buf' = [buf EXCEPT ![tail] = written + 1] /\ written' = written + 1 /\ pc' = pc
      /\ tail' = Around(tail, 1)
  BY <1>0, SuccFacts DEF Interrupt, Ring!WriteOver
<1>2. Stored \in 0 .. Cap /\ (Stored = len \/ (Stored = len - 1 /\ pc \in {"loadLen", "storeLen"}))
  BY <1>0 DEF Stored, Good, Fresh
<1>3. CASE ~Ring!Full
  <2>1. len < Cap /\ len' = len + 1 /\ head' = head /\ Stored' = Stored + 1 /\ Stored < Cap
    BY <1>0, <1>1, <1>2, <1>3 DEF Interrupt, Ring!WriteOver, Ring!Full, Stored
  <2>2. tail' = Around(head', Stored')
    BY <1>0, <1>1, <1>2, <2>1, CapAssumption DEF Around, Ring!Index
  <2>3. ASSUME NEW k \in 1 .. Stored + 1
        PROVE  buf'[Around(head, k - 1)] = written - Stored + k
    <3>1. CASE k = Stored + 1
      BY <1>0, <1>1, <1>2, <3>1
    <3>2. CASE k # Stored + 1
      <4>1. k \in 1 .. Stored /\ k - 1 \in 0 .. Cap - 1 /\ Stored \in 0 .. Cap - 1 /\ k - 1 # Stored
        BY <1>0, <1>2, <2>1, <3>2
      <4>2. Around(head, k - 1) # tail
        BY <1>0, <4>1, Apart
      <4>3. Around(head, k - 1) \in Ring!Index
        BY <1>0, <4>1, AroundFacts
      <4> QED BY <1>0, <1>1, <4>1, <4>2, <4>3
    <3> QED BY <3>1, <3>2
  <2> QED BY <1>0, <1>1, <1>2, <2>1, <2>2, <2>3 DEF Latest
<1>4. CASE Ring!Full
  <2>1. /\ len = Cap /\ len' = len /\ head' = Around(head, 1) /\ Stored' = Stored
        /\ head' \in Ring!Index
    BY <1>0, <1>1, <1>4, SuccFacts DEF Interrupt, Ring!WriteOver, Ring!Full, Stored
  <2>2. tail' = Around(head', Stored')
    BY <1>0, <1>1, <1>2, <2>1, CapAssumption DEF Around, Ring!Index
  <2>3. Stored <= written'
    BY <1>0, <1>1, <1>2
  <2>4. ASSUME NEW k \in 1 .. Stored
        PROVE  buf'[Around(head', k - 1)] = written + 1 - Stored + k
    <3>1. k - 1 \in 0 .. Cap - 1 /\ Around(head', k - 1) = Around(head, k)
      BY <1>0, <1>2, <2>1, Shifted
    <3>2. Around(head, k) \in Ring!Index
      BY <1>0, <1>2, AroundFacts
    <3>3. CASE k = Stored
      BY <1>0, <1>1, <1>2, <3>1, <3>2, <3>3
    <3>4. CASE k # Stored
      <4>1. PICK m \in 1 .. Stored : m = k + 1
        BY <1>2, <3>4
      <4>2. Around(head, k) # tail
        <5>1. k \in 1 .. Cap - 1 /\ (Stored = Cap \/ Stored \in 0 .. Cap - 1)
          BY <1>0, <1>2, <3>4
        <5>2. Stored = Cap => tail = Around(head, 0)
          BY <1>0, Full0
        <5> QED BY <1>0, <3>4, <5>1, <5>2, Apart
      <4>3. buf[Around(head, m - 1)] = written - Stored + m /\ m - 1 = k
        BY <1>0, <4>1
      <4> QED BY <1>0, <1>1, <1>2, <3>1, <3>2, <4>1, <4>2, <4>3
    <3> QED BY <3>3, <3>4
  <2> QED BY <1>0, <1>1, <1>2, <2>1, <2>2, <2>3, <2>4 DEF Latest
<1> QED BY <1>3, <1>4

LEMMA WriteKeepsFresh ==
  ASSUME Good, Interrupt, ~Vulnerable
  PROVE  Fresh'
<1>0. /\ Cap \in Nat \ {0} /\ head \in Ring!Index /\ tail \in Ring!Index /\ len \in 0 .. Cap
      /\ buf \in [Ring!Index -> Int] /\ Fresh /\ pc \in Labels
      /\ tail = Around(head, Stored)
  BY CapAssumption DEF Good, Types, Latest
<1>1. /\ buf' = [buf EXCEPT ![tail] = written + 1] /\ pc' = pc
      /\ slot' = slot /\ rhead' = rhead /\ rlen' = rlen /\ out' = out
  BY DEF Interrupt, Ring!WriteOver
<1>2. CASE Ring!Full
  <2>1. len' = len /\ len = Cap /\ pc \notin {"copy1", "copy2", "storeHead"}
    BY <1>2 DEF Interrupt, Ring!WriteOver, Ring!Full, Vulnerable
  <2> QED BY <1>0, <1>1, <2>1 DEF Fresh
<1>3. CASE ~Ring!Full
  <2>1. len' = len + 1 /\ len < Cap /\ head' = head /\ pc # "storeLen"
    BY <1>0, <1>3 DEF Interrupt, Ring!WriteOver, Ring!Full, Vulnerable
  <2>2. pc = "copy2" => head # tail
    <3>1. pc = "copy2" => len >= 1 /\ Stored = len
      BY <1>0 DEF Fresh, Stored
    <3>2. Around(head, 0) = head
      BY <1>0, Full0
    <3>3. len \in 1 .. Cap - 1 => Around(head, 0) # Around(head, len)
      BY <1>0, Apart
    <3> QED BY <1>0, <2>1, <3>1, <3>2, <3>3
  <2> QED BY <1>0, <1>1, <2>1, <2>2 DEF Fresh
<1> QED BY <1>2, <1>3

LEMMA WriteKeepsGiven ==
  ASSUME Good, Interrupt
  PROVE  Given'
<1>0. /\ Cap \in Nat \ {0} /\ len \in 0 .. Cap /\ written \in Nat /\ Given
  BY CapAssumption DEF Good, Types
<1>1. written' = written + 1 /\ got' = got /\ pc' = pc
  BY DEF Interrupt
<1>2. got # <<>> => got[Len(got)][1] \in Int
  BY <1>0 DEF Given
<1>3. CASE Ring!Full
  <2>1. len' = len /\ dropped'
    BY <1>3 DEF Interrupt, Ring!WriteOver
  <2>2. Ungiven' = Ungiven /\ Ungiven \in Int
    BY <1>0, <1>1, <2>1 DEF Ungiven
  <2> QED BY <1>0, <1>1, <1>2, <2>1, <2>2 DEF Given
<1>4. CASE ~Ring!Full
  <2>1. len' = len + 1 /\ (dropped' <=> dropped)
    BY <1>4 DEF Interrupt, Ring!WriteOver
  <2>2. Ungiven' = Ungiven + 1 /\ Ungiven \in Int
    BY <1>0, <1>1, <2>1 DEF Ungiven
  <2>3. written' - Ungiven' = written - Ungiven
    BY <1>0, <1>1, <2>2
  <2> QED BY <1>0, <1>1, <2>1, <2>3 DEF Given
<1> QED BY <1>3, <1>4

\* The reader's steps that leave the buffer alone and give nothing.
LEMMA ReaderWaits ==
  ASSUME Good, Call \/ Return \/ Again \/ Check \/ Copy1 \/ LoadHead \/ LoadLen
  PROVE  Good'
<1>0. Types /\ Fresh /\ Latest /\ Given
  BY DEF Good
<1>1. /\ buf' = buf /\ head' = head /\ tail' = tail /\ len' = len
      /\ written' = written /\ got' = got /\ dropped' = dropped
  BY DEF Call, Return, Again, Check, Copy1, LoadHead, LoadLen, evbuf
<1>2. /\ pc' \in Labels
      /\ pc \in {"loadLen", "storeLen"} <=> pc' \in {"loadLen", "storeLen"}
      /\ pc \in {"loadHead", "storeHead", "loadLen", "storeLen"}
           <=> pc' \in {"loadHead", "storeHead", "loadLen", "storeLen"}
  BY DEF Call, Return, Again, Check, Copy1, LoadHead, LoadLen, Step, Labels
<1>3. Stored' = Stored /\ Ungiven' = Ungiven
  BY <1>1, <1>2 DEF Stored, Ungiven
<1>4. Types'
  BY <1>0, <1>1, <1>2 DEF Types
<1>5. Latest'
  BY <1>0, <1>1, <1>3 DEF Latest, Around
<1>6. Given'
  BY <1>0, <1>1, <1>3 DEF Given
<1>7. Fresh'
  <2>1. CASE Call \/ Return \/ Again
    BY <1>0, <1>1, <2>1 DEF Fresh, Call, Return, Again, Step
  <2>2. CASE Check
    BY <1>0, <1>1, <2>2, CapAssumption DEF Fresh, Types, Check, Step
  <2>3. CASE Copy1
    BY <1>0, <1>1, <2>3 DEF Fresh, Copy1, Step
  <2>4. CASE LoadHead
    BY <1>0, <1>1, <2>4 DEF Fresh, LoadHead, Step
  <2>5. CASE LoadLen
    BY <1>0, <1>1, <2>5 DEF Fresh, LoadLen, Step
  <2> QED BY <2>1, <2>2, <2>3, <2>4, <2>5
<1> QED BY <1>4, <1>5, <1>6, <1>7 DEF Good

\* The second half of the copy completes the oldest event, which the caller has not seen.
LEMMA ReaderGives ==
  ASSUME Good, Copy2
  PROVE  Good'
<1>0. /\ Cap \in Nat \ {0} /\ len \in 1 .. Cap /\ written \in Nat /\ head \in Ring!Index
      /\ buf \in [Ring!Index -> Int]
      /\ pc = "copy2" /\ pc' = "loadHead" /\ slot = head /\ out[1] = buf[head]
  BY CapAssumption DEF Good, Types, Fresh, Copy2, Step
<1>1. /\ buf' = buf /\ head' = head /\ tail' = tail /\ len' = len
      /\ written' = written /\ dropped' = dropped
  BY DEF Copy2, evbuf
<1>2. Stored = len /\ Stored' = len /\ Ungiven = len /\ Ungiven' = len - 1
  BY <1>0, <1>1 DEF Stored, Ungiven
<1>3. Types'
  BY <1>0, <1>1 DEF Good, Types, Labels
<1>4. Latest'
  BY <1>1, <1>2 DEF Good, Latest, Around
<1>5. Fresh'
  BY <1>0, <1>1 DEF Fresh
<1>6. buf[head] = written - len + 1 /\ len <= written
  <2>1. \A k \in 1 .. len : buf[Around(head, k - 1)] = written - len + k
    BY <1>2 DEF Good, Latest
  <2>2. 1 \in 1 .. len /\ Around(head, 1 - 1) = head
    BY <1>0, Full0
  <2> QED BY <1>2, <2>1, <2>2 DEF Good, Latest
<1>7. Given'
  <2> DEFINE e == written - len + 1
  <2>1. out' = <<e, e>> /\ got' = Append(got, out')
    BY <1>0, <1>6 DEF Copy2
  <2>2. /\ e \in Int /\ e = written - Ungiven' /\ e = written' - Ungiven'
        /\ written - Ungiven = e - 1
    BY <1>0, <1>1, <1>2
  <2> HIDE DEF e
  <2>3. /\ got \in Seq(Int \X Int)
        /\ \A k \in 1 .. Len(got) : /\ got[k][1] = got[k][2]
                                    /\ k > 1 => got[k - 1][1] < got[k][1]
        /\ got # <<>> => got[Len(got)][1] <= e - 1
        /\ ~dropped => Len(got) = e - 1 /\ \A k \in 1 .. Len(got) : got[k] = <<k, k>>
    BY <2>2 DEF Good, Given
  <2>4. PICK m \in Nat : m = Len(got)
    BY <2>3
  <2>5. /\ got' \in Seq(Int \X Int) /\ Len(got') = m + 1
        /\ got'[m + 1] = <<e, e>> /\ \A k \in 1 .. m : got'[k] = got[k]
    BY <2>1, <2>2, <2>3, <2>4
  <2>6. ASSUME NEW k \in 1 .. m + 1
        PROVE  got'[k][1] = got'[k][2] /\ (k > 1 => got'[k - 1][1] < got'[k][1])
    <3>1. CASE k = m + 1
      <4>1. got'[k][1] = e /\ got'[k][2] = e
        BY <2>5, <3>1
      <4>2. ASSUME k > 1 PROVE got'[k - 1][1] < e
        <5>1. k - 1 = m /\ m \in 1 .. m /\ got # <<>>
          BY <2>3, <2>4, <3>1, <4>2
        <5>2. got'[k - 1] = got[m] /\ got[m][1] <= e - 1 /\ got[m] \in Int \X Int
          BY <2>3, <2>4, <2>5, <5>1
        <5> QED BY <2>2, <5>2
      <4> QED BY <4>1, <4>2
    <3>2. CASE k # m + 1
      <4>1. k \in 1 .. m /\ (k > 1 => k - 1 \in 1 .. m)
        BY <2>4, <3>2
      <4> QED BY <2>3, <2>4, <2>5, <4>1
    <3> QED BY <3>1, <3>2
  <2>7. got'[Len(got')][1] = e
    BY <2>5
  <2>8. ASSUME ~dropped
        PROVE  Len(got') = e /\ \A k \in 1 .. Len(got') : got'[k] = <<k, k>>
    <3>1. m = e - 1 /\ m + 1 = e
      BY <2>2, <2>3, <2>4, <2>8
    <3>2. \A k \in 1 .. m : got'[k] = <<k, k>>
      BY <2>3, <2>4, <2>5, <2>8
    <3>3. \A k \in 1 .. m + 1 : k \in 1 .. m \/ k = m + 1
      BY <2>4
    <3> QED BY <2>5, <3>1, <3>2, <3>3
  <2>9. /\ \A k \in 1 .. Len(got') : /\ got'[k][1] = got'[k][2]
                                     /\ k > 1 => got'[k - 1][1] < got'[k][1]
        /\ got'[Len(got')][1] <= written' - Ungiven'
    BY <2>2, <2>5, <2>6, <2>7
  <2>10. ~dropped' => /\ Len(got') = written' - Ungiven'
                      /\ \A k \in 1 .. Len(got') : got'[k] = <<k, k>>
    BY <1>1, <2>2, <2>8
  <2> QED BY <2>5, <2>9, <2>10 DEF Given
<1> QED BY <1>3, <1>4, <1>5, <1>7 DEF Good

\* The read event leaves the buffer in two stores.
LEMMA ReaderStoresHead ==
  ASSUME Good, StoreHead
  PROVE  Good'
<1>0. /\ Cap \in Nat \ {0} /\ len \in 1 .. Cap /\ written \in Nat /\ head \in Ring!Index
      /\ tail \in Ring!Index /\ buf \in [Ring!Index -> Int]
      /\ pc = "storeHead" /\ pc' = "loadLen" /\ rhead = head
  BY CapAssumption DEF Good, Types, Fresh, StoreHead, Step
<1>1. /\ buf' = buf /\ tail' = tail /\ len' = len /\ got' = got
      /\ written' = written /\ dropped' = dropped
      /\ head' = Around(head, 1) /\ head' \in Ring!Index
  BY <1>0, SuccFacts DEF StoreHead
<1>2. Stored = len /\ Stored' = len - 1 /\ Ungiven' = Ungiven
  BY <1>0, <1>1 DEF Stored, Ungiven
<1>3. Types'
  BY <1>0, <1>1 DEF Good, Types, Labels
<1>4. Fresh'
  BY <1>0, <1>1 DEF Fresh
<1>5. Given'
  BY <1>1, <1>2 DEF Good, Given
<1>6. Latest'
  <2>1. /\ tail = Around(head, len) /\ len <= written
        /\ \A k \in 1 .. len : buf[Around(head, k - 1)] = written - len + k
    BY <1>2 DEF Good, Latest
  <2>2. tail' = Around(head', len - 1)
    <3>1. len - 1 \in 0 .. Cap - 1 /\ (len - 1) + 1 = len
      BY <1>0
    <3> QED BY <1>0, <1>1, <2>1, <3>1, Shifted
  <2>3. ASSUME NEW k \in 1 .. len - 1
        PROVE  buf[Around(head', k - 1)] = written - (len - 1) + k
    <3>1. PICK m \in 1 .. len : m = k + 1
      BY <1>0
    <3>2. k - 1 \in 0 .. Cap - 1 /\ (k - 1) + 1 = m - 1
      BY <1>0, <3>1
    <3>3. Around(head', k - 1) = Around(head, m - 1)
      BY <1>0, <1>1, <3>2, Shifted
    <3>4. written - (len - 1) + k = written - len + m
      BY <1>0, <3>1
    <3> QED BY <2>1, <3>3, <3>4
  <2>4. len - 1 <= written
    BY <1>0, <2>1
  <2> QED BY <1>1, <1>2, <2>2, <2>3, <2>4 DEF Latest, Around
<1> QED BY <1>3, <1>4, <1>5, <1>6 DEF Good

LEMMA ReaderStoresLen ==
  ASSUME Good, StoreLen
  PROVE  Good'
<1>0. /\ Cap \in Nat \ {0} /\ len \in 1 .. Cap /\ pc = "storeLen" /\ pc' = "empty" /\ rlen = len
  BY CapAssumption DEF Good, Types, Fresh, StoreLen, Step
<1>1. /\ buf' = buf /\ head' = head /\ tail' = tail /\ len' = len - 1 /\ got' = got
      /\ written' = written /\ dropped' = dropped
  BY <1>0 DEF StoreLen
<1>2. Stored' = Stored /\ Ungiven' = Ungiven
  BY <1>0, <1>1 DEF Stored, Ungiven
<1>3. Types'
  BY <1>0, <1>1 DEF Good, Types, Labels
<1>4. Fresh'
  BY <1>0 DEF Fresh
<1>5. Given'
  BY <1>1, <1>2 DEF Good, Given
<1>6. Latest'
  BY <1>1, <1>2 DEF Good, Latest, Around
<1> QED BY <1>3, <1>4, <1>5, <1>6 DEF Good

LEMMA NextInv == Inv /\ [Next]_vars => Inv'
<1> SUFFICES ASSUME Inv, [Next]_vars, ~hit' PROVE Good'
  BY DEF Inv
<1>1. CASE Interrupt
  <2>1. Good /\ ~Vulnerable
    BY <1>1 DEF Interrupt, Inv
  <2> QED BY <1>1, <2>1, WriteKeepsTypes, WriteKeepsFresh, WriteKeepsLatest, WriteKeepsGiven DEF Good
<1>2. CASE Reader
  <2>1. hit' = hit
    BY <1>2 DEF Reader, Call, Return, Again, Check, Copy1, Copy2, LoadHead, StoreHead, LoadLen, StoreLen
  <2>2. Good
    BY <2>1 DEF Inv
  <2> QED BY <1>2, <2>2, ReaderWaits, ReaderGives, ReaderStoresHead, ReaderStoresLen DEF Reader
<1>3. CASE UNCHANGED vars
  <2>1. /\ Good /\ buf' = buf /\ head' = head /\ tail' = tail /\ len' = len /\ written' = written
        /\ pc' = pc /\ slot' = slot /\ rhead' = rhead /\ rlen' = rlen /\ out' = out
        /\ got' = got /\ dropped' = dropped
    BY <1>3 DEF vars, evbuf, reader, Inv
  <2>2. Types' /\ Fresh'
    BY <2>1 DEF Good, Types, Fresh
  <2>3. Latest' /\ Given'
    BY <2>1 DEF Good, Latest, Given, Stored, Ungiven, Around
  <2> QED BY <2>2, <2>3 DEF Good
<1> QED BY <1>1, <1>2, <1>3 DEF Next

LEMMA Invariance == Spec => []Inv
BY InitInv, NextInv, PTL DEF Spec
-----------------------------------------------------------------------------
(* The theorems.                                                           *)

\* ps2_mse_read gives kmain every mouse event once, whole and in order, however its loads
\* and stores interleave with the interrupts of ps2_mouse_callback: as long as none of
\* these finds the buffer full or falls between the load and the store of a counter.
THEOREM ReadInOrder == Spec => []InOrder
<1>1. Inv => InOrder
  BY DEF Inv, Good, Given, InOrder
<1> QED BY <1>1, Invariance, PTL

\* An overflow of the buffer loses events of ps2_mouse_callback, but what ps2_mse_read gives
\* is still whole and each later than the one before.
THEOREM ReadWhole == Spec => []WholeAndIncreasing
<1>1. Inv => WholeAndIncreasing
  BY DEF Inv, Good, Given, WholeAndIncreasing
<1> QED BY <1>1, Invariance, PTL

\* When ps2_mse_read is not in ringbuf_read, the buffer holds the latest events that
\* ps2_mouse_callback wrote, as many as it counts.
THEOREM LatestKept == Spec => []HoldsLatest
<1>1. Inv => HoldsLatest
  <2> SUFFICES ASSUME Good, pc \in {"call", "empty", "check"}, NEW k \in 1 .. len
               PROVE  buf[(head + k - 1) % Cap] = written - len + k
    BY DEF Inv, HoldsLatest
  <2>1. Stored = len /\ len \in 0 .. Cap /\ head \in Ring!Index
    BY DEF Stored, Good, Types
  <2>2. k - 1 \in 0 .. Cap /\ head + (k - 1) = head + k - 1
    BY <2>1, CapAssumption DEF Ring!Index
  <2>3. Around(head, k - 1) = (head + (k - 1)) % Cap
    BY <2>1, <2>2, AroundFacts
  <2> QED BY <2>1, <2>2, <2>3 DEF Good, Latest
<1> QED BY <1>1, Invariance, PTL
=============================================================================
