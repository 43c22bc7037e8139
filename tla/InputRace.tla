------------------------------ MODULE InputRace ------------------------------
(***************************************************************************)
(* The mouse driver's event buffer between its two users: the interrupt    *)
(* handler (ps2_mouse_callback), which writes an event in one uninterrupted *)
(* step, and the main loop of kmain, which reads through dev_read and      *)
(* ps2_mse_read with interrupts enabled.  Nothing excludes the one from    *)
(* the other, so the reader is modelled load by load and store by store,   *)
(* as the unoptimised build executes ringbuf_read.                         *)
(*                                                                         *)
(* An event is its number, in the order of the interrupts.  It is copied   *)
(* in two halves, which is enough to see a torn copy.                      *)
(***************************************************************************)
EXTENDS Integers, Sequences

CONSTANTS Cap,       \* evbuf.cap, 256 in the driver
          Count,     \* how many events one dev_read asks for, 1 in kmain
          MaxEvents  \* bound on the events the mouse reports

ASSUME CapAssumption == Cap \in Nat \ {0}

Event == 1 .. MaxEvents
Garbage == 0

VARIABLES
  buf, head, tail, len, mode, \* evbuf
  out,        \* the caller's mse_ev_t: its two halves
  pc,         \* the reader's next instruction
  count,      \* ps2_mse_read's count
  slot,       \* the index memcpy copies from
  rhead, rlen,\* the register of a read-modify-write of head and of len
  written,    \* how many events the handler has written
  got,        \* history: what the caller was given
  dropped,    \* history: a write found the buffer full
  hit         \* history: a write landed where the reader cannot stand it

evbuf == <<buf, head, tail, len, mode>>
reader == <<out, pc, count, slot, rhead, rlen, got>>
vars == <<evbuf, reader, written, dropped, hit>>

Ring == INSTANCE RingBuf

Init ==
  /\ buf = [i \in Ring!Index |-> Garbage]
  /\ head = 0 /\ tail = 0 /\ len = 0
  /\ mode = "OVERWRITE"
  /\ out = <<Garbage, Garbage>>
  /\ pc = "call"
  /\ count = 0
  /\ slot = 0 /\ rhead = 0 /\ rlen = 0
  /\ written = 0
  /\ got = <<>>
  /\ dropped = FALSE /\ hit = FALSE
-----------------------------------------------------------------------------
(* The interrupt handler.                                                  *)

\* Where a write does harm: the element being copied is overwritten, or the
\* value of head or len that the reader is about to store is out of date.
Vulnerable ==
  \/ pc \in {"copy1", "copy2", "storeHead"} /\ Ring!Full
  \/ pc = "storeLen" /\ ~Ring!Full

\* Mutated form of Interrupt: the write to a full buffer leaves head alone.
InterruptKeepHead ==
  /\ written < MaxEvents
  /\ written' = written + 1
  /\ Ring!WriteOverKeepHead(written + 1)
  /\ dropped' = (dropped \/ Ring!Full)
  /\ hit' = (hit \/ Vulnerable)
  /\ UNCHANGED <<pc, count, slot, rhead, rlen, got>>

\* The third byte of a packet: ps2_mouse_callback writes the event it completes.
Interrupt ==
  /\ written < MaxEvents
  /\ written' = written + 1
  /\ Ring!WriteOver(written + 1)
  /\ dropped' = (dropped \/ Ring!Full)
  /\ hit' = (hit \/ Vulnerable)
  /\ UNCHANGED <<pc, count, slot, rhead, rlen, got>>
-----------------------------------------------------------------------------
(* The reader.                                                             *)

Step(from, to) == pc = from /\ pc' = to

\* kmain's loop: dev_read(dev, &ev, Count).
Call == /\ Step("call", "empty")
        /\ count' = Count
        /\ UNCHANGED <<evbuf, out, slot, rhead, rlen, got, written, dropped, hit>>

\* Mutated form of Wants: --count for count--.
WantsPredecremented == len # 0 /\ count > 1

\* while (!ringbuf_empty(&evbuf) && count--)
Wants == len # 0 /\ count # 0

Return == /\ Step("empty", "call")
          /\ ~Wants
          /\ UNCHANGED <<evbuf, out, count, slot, rhead, rlen, got, written, dropped, hit>>

Again == /\ Step("empty", "check")
         /\ Wants
         /\ count' = count - 1
         /\ UNCHANGED <<evbuf, out, slot, rhead, rlen, got, written, dropped, hit>>

\* Mutated form of Check: it reads at the writing end.
CheckTail == /\ Step("check", IF len = 0 THEN "empty" ELSE "copy1")
             /\ slot' = IF len = 0 THEN slot ELSE tail
             /\ UNCHANGED <<evbuf, out, count, rhead, rlen, got, written, dropped, hit>>

\* if (rb->len == 0) return false; then memcpy's arguments.
Check == /\ Step("check", IF len = 0 THEN "empty" ELSE "copy1")
         /\ slot' = IF len = 0 THEN slot ELSE head
         /\ UNCHANGED <<evbuf, out, count, rhead, rlen, got, written, dropped, hit>>

\* memcpy(buf, rb->buf + rb->head * rb->size, rb->size)
Copy1 == /\ Step("copy1", "copy2")
         /\ out' = <<buf[slot], out[2]>>
         /\ UNCHANGED <<evbuf, count, slot, rhead, rlen, got, written, dropped, hit>>

Copy2 == /\ Step("copy2", "loadHead")
         /\ out' = <<out[1], buf[slot]>>
         /\ got' = Append(got, out')
         /\ UNCHANGED <<evbuf, count, slot, rhead, rlen, written, dropped, hit>>

\* rb->head = (rb->head + 1) % rb->cap
LoadHead == /\ Step("loadHead", "storeHead")
            /\ rhead' = head
            /\ UNCHANGED <<evbuf, out, count, slot, rlen, got, written, dropped, hit>>

\* Mutated form of StoreHead: the read element stays in the buffer.
StoreHeadStuck ==
  /\ Step("storeHead", "loadLen")
  /\ head' = rhead
  /\ UNCHANGED <<buf, tail, len, mode, out, count, slot, rhead, rlen, got, written, dropped, hit>>

StoreHead == /\ Step("storeHead", "loadLen")
             /\ head' = Ring!Succ(rhead)
             /\ UNCHANGED <<buf, tail, len, mode, out, count, slot, rhead, rlen, got,
                            written, dropped, hit>>

\* rb->len--
LoadLen == /\ Step("loadLen", "storeLen")
           /\ rlen' = len
           /\ UNCHANGED <<evbuf, out, count, slot, rhead, got, written, dropped, hit>>

StoreLen == /\ Step("storeLen", "empty")
            /\ len' = rlen - 1
            /\ UNCHANGED <<buf, head, tail, mode, out, count, slot, rhead, rlen, got,
                           written, dropped, hit>>

Reader == \/ Call \/ Return \/ Again \/ Check \/ Copy1 \/ Copy2
          \/ LoadHead \/ StoreHead \/ LoadLen \/ StoreLen

Next == Interrupt \/ Reader

\* The processor keeps executing the main loop; nothing makes the mouse move.
Spec == Init /\ [][Next]_vars /\ WF_vars(Reader)
-----------------------------------------------------------------------------
\* The k-th event given to the caller is number k as long as no write found the
\* buffer full: nothing is torn, lost, repeated or given out of order.
InOrder == ~hit /\ ~dropped => \A k \in 1 .. Len(got) : got[k] = <<k, k>>

\* Once the buffer has overflowed events are missing, but what is given is still
\* whole and in order.
WholeAndIncreasing ==
  ~hit => \A k \in 1 .. Len(got) :
            /\ got[k][1] = got[k][2]
            /\ k > 1 => got[k - 1][1] < got[k][1]

\* What is counted in the buffer at rest are the latest events.
HoldsLatest ==
  ~hit /\ pc \in {"call", "empty", "check"} =>
    \A k \in 1 .. len : buf[(head + k - 1) % Cap] = written - len + k

\* The reader drains the buffer whenever the mouse rests, whatever the races did
\* to head and len: no interleaving leaves a length that never comes down.
Drains == []<>(len = 0)
=============================================================================
