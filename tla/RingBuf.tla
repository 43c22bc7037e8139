------------------------------- MODULE RingBuf -------------------------------
(***************************************************************************)
(* The ring buffer of external/libs/libds/ringbuf.c, each call one step.   *)
(* It is what a driver's interrupt handler sees of it: the handler runs    *)
(* with interrupts masked and the machine has one processor.  What the     *)
(* reader sees, which may be interrupted, is InputRace.                    *)
(***************************************************************************)
EXTENDS Integers, Sequences

CONSTANTS Event,    \* what the buffer's elements may hold once written
          Garbage,  \* what memory fresh from the allocator holds
          Cap       \* ringbuf->cap

ASSUME CapAssumption == Cap \in Nat \ {0}

VARIABLES buf,   \* the elements
          head,  \* index of the oldest
          tail,  \* index of the next to be written
          len,
          mode,
          out    \* what the last ringbuf_read copied out

vars == <<buf, head, tail, len, mode, out>>

Index == 0 .. Cap - 1
Mode == {"BLOCKING", "OVERWRITE"}

TypeOK == /\ buf \in [Index -> Event \cup {Garbage}]
          /\ head \in Index
          /\ tail \in Index
          /\ len \in 0 .. Cap
          /\ mode \in Mode
          /\ out \in Event \cup {Garbage}

\* ringbuf_init; the allocation succeeded, the memory is not cleared.
Init == /\ buf = [i \in Index |-> Garbage]
        /\ head = 0
        /\ tail = 0
        /\ len = 0
        /\ mode \in Mode
        /\ out = Garbage

Full == len = Cap

\* Mutated form of Succ: the index runs one past the end before it wraps.
SuccLate(i) == (i + 1) % (Cap + 1)

Succ(i) == (i + 1) % Cap

\* Mutated form of WriteOver: the oldest index stays when the buffer is full.
WriteOverKeepHead(e) ==
  /\ mode = "OVERWRITE"
  /\ buf' = [buf EXCEPT ![tail] = e]
  /\ len' = IF Full THEN len ELSE len + 1
  /\ tail' = Succ(tail)
  /\ UNCHANGED <<head, mode, out>>

\* ringbuf_write in overwriting mode.
WriteOver(e) ==
  /\ mode = "OVERWRITE"
  /\ buf' = [buf EXCEPT ![tail] = e]
  /\ IF Full THEN head' = Succ(head) /\ UNCHANGED len
             ELSE len' = len + 1 /\ UNCHANGED head
  /\ tail' = Succ(tail)
  /\ UNCHANGED <<mode, out>>

\* ringbuf_write in blocking mode; when the buffer is full it returns false.
WriteBlocking(e) ==
  /\ mode = "BLOCKING"
  /\ ~Full
  /\ buf' = [buf EXCEPT ![tail] = e]
  /\ tail' = Succ(tail)
  /\ len' = len + 1
  /\ UNCHANGED <<head, mode, out>>

Write(e) == WriteOver(e) \/ WriteBlocking(e)

\* ringbuf_read; of an empty buffer it returns false.
Read ==
  /\ len # 0
  /\ out' = buf[head]
  /\ head' = Succ(head)
  /\ len' = len - 1
  /\ UNCHANGED <<buf, tail, mode>>

Next == (\E e \in Event : Write(e)) \/ Read

Spec == Init /\ [][Next]_vars
-----------------------------------------------------------------------------
\* tail is where the next element goes: len places after head, around the end.
Aligned == tail = (head + len) % Cap

\* The elements from head on, oldest first.
Contents == [k \in 1 .. len |-> buf[(head + k - 1) % Cap]]

\* Every ringbuf_write and ringbuf_read does what a bounded queue does: elements
\* come out in the order they went in, the oldest is the one dropped, and memory
\* that was never written is never read.
Queue == INSTANCE EventQueue WITH
           Capacity <- Cap, q <- Contents, overwrites <- (mode = "OVERWRITE")
ImplementsQueue == Queue!Spec
=============================================================================
