----------------------------- MODULE EventQueue ------------------------------
(***************************************************************************)
(* What an input driver promises its reader: a bounded queue of events.    *)
(* When it is full, an overwriting queue drops its oldest event for the    *)
(* new one and a blocking queue refuses the new one.                       *)
(***************************************************************************)
EXTENDS Naturals, Sequences

CONSTANTS Event, Capacity

VARIABLES q,          \* the events queued, oldest first
          overwrites, \* the kind of queue
          out         \* the event last taken out

vars == <<q, overwrites, out>>

Init == q = <<>> /\ overwrites \in BOOLEAN

Push(e) == /\ Len(q) < Capacity
           /\ q' = Append(q, e)
           /\ UNCHANGED <<overwrites, out>>

Replace(e) == /\ overwrites
              /\ Len(q) = Capacity
              /\ q' = Append(Tail(q), e)
              /\ UNCHANGED <<overwrites, out>>

Pop == /\ q # <<>>
       /\ out' = Head(q)
       /\ q' = Tail(q)
       /\ UNCHANGED overwrites

Next == (\E e \in Event : Push(e) \/ Replace(e)) \/ Pop

Spec == Init /\ [][Next]_vars
=============================================================================
