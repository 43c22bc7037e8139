----------------------------- MODULE SchedProofs -----------------------------
(* Proofs about Sched: the safety of the scheduler, for every set of tasks. *)
EXTENDS Sched, TLAPS, FiniteSetTheorems, SequenceTheorems

-----------------------------------------------------------------------------
(* The inductive invariant.                                                *)

Inits    == {"init1", "init2", "init3"}
Open     == {"work", "halt"} \cup Inits   \* interrupts are enabled
Closed   == {"prelude", "yield", "yieldRet", "sleep1", "sleep2", "sleepRet", "wake",
             "post1", "post2", "post3"}
Handler  == {"ack", "tick", "eoi"}
Midway   == {"sleep2", "post2"}           \* a task is being moved
NotBegun == {<<>>, FreshStack}

BootCode == {"work", "yield", "yieldRet", "wake"} \cup Inits
IdleCode == {"prelude", "halt"}
TaskCode == Closed \cup {"work", "dead"}

\* What a stack looks like while the processor is on it: only code with interrupts
\* enabled is interrupted, no handler is ...
Executing == {<<p>> : p \in Open \cup Closed} \cup {<<b, h>> : b \in Open, h \in Handler}

\* ... and while it is not: switch_to has left it from one of three places.
Resting == NotBegun \cup {<<"yieldRet">>, <<"dead">>} \cup {<<b, "eoi">> : b \in Open}

Stacks ==
  /\ on \in Contexts \ {Reaper}
  /\ stack \in [Contexts -> Seq(Points)]
  /\ stack[on] \in Executing
  /\ \A c \in Contexts \ {on} : stack[c] \in Resting
  /\ stack[Boot] # <<>> /\ stack[Boot][1] \in BootCode
  /\ stack[Idle] # <<>> => stack[Idle][1] \in IdleCode
  /\ stack[Reaper] \in NotBegun
  /\ \A t \in Tasks : stack[t] # <<>> => stack[t][1] \in TaskCode

Flags ==
  /\ if_flag \in BOOLEAN /\ scheduler_ready \in BOOLEAN /\ crashed \in BOOLEAN
  /\ if_flag <=> Here \in Open
  /\ in_service \subseteq Vectors
  /\ in_service # {} => Here \in {"ack", "eoi"}

InInit == stack[Boot][1] \in Inits

\* curr_task is NULL until sched_init's last line; only boot code runs till then.
Current ==
  /\ ~scheduler_ready => on = Boot /\ curr_task = NULL /\ ~InInit
  /\ InInit => on = Boot /\ curr_task = NULL
  /\ scheduler_ready /\ ~InInit => curr_task = on
  /\ idle_task = IF ~scheduler_ready \/ stack[Boot][1] = "init1" THEN NULL ELSE Idle
  /\ idle_task = Idle => stack[Idle] # <<>>
  /\ crashed => InInit
  /\ on = Idle => running_queue = <<>>

Queue(q) == q \in Seq(Tasks) /\ IsInjective(q)

Queues ==
  /\ Queue(running_queue) /\ Queue(waiting_queue) /\ Queue(reaper_queue)
  /\ Range(running_queue) \cap Range(waiting_queue) = {}
  /\ Range(running_queue) \cap Range(reaper_queue) = {}
  /\ Range(waiting_queue) \cap Range(reaper_queue) = {}

\* Where a task is, and how far it has got.
Placed ==
  \A t \in Tasks :
    /\ t \in Queued => stack[t] # <<>>
    /\ on = t \/ stack[t] \notin NotBegun =>
         (t \notin Queued <=> on = t /\ Here \in Midway)
    /\ t \in Range(reaper_queue) <=> stack[t] = <<"dead">> \/ (on = t /\ stack[t] = <<"post3">>)

Inv == Stacks /\ Flags /\ Current /\ Queues /\ Placed

-----------------------------------------------------------------------------
(* Contexts, queues, stacks.                                               *)

LEMMA Distinct ==
  /\ Boot # Idle /\ Boot # Reaper /\ Boot # NULL /\ Idle # Reaper /\ Idle # NULL /\ Reaper # NULL
  /\ Boot \notin Tasks /\ Idle \notin Tasks /\ Reaper \notin Tasks /\ NULL \notin Tasks
<1>1. ASSUME NEW a, NEW b, NEW c PROVE Cardinality({a, b, c}) # 4
  <2>1. IsFiniteSet({a}) /\ Cardinality({a}) = 1
    BY FS_Singleton
  <2>2. IsFiniteSet({a} \cup {b}) /\ Cardinality({a} \cup {b}) \in {1, 2}
    BY <2>1, FS_AddElement
  <2>3. Cardinality(({a} \cup {b}) \cup {c}) \in {1, 2, 3}
    BY <2>2, FS_AddElement
  <2>4. {a, b, c} = ({a} \cup {b}) \cup {c}
    OBVIOUS
  <2> QED BY <2>3, <2>4
<1>2. ASSUME Boot = Idle \/ Boot = Reaper \/ Boot = NULL \/ Idle = Reaper \/ Idle = NULL \/ Reaper = NULL
      PROVE  \E a, b, c \in {Boot, Idle, Reaper, NULL} : {Boot, Idle, Reaper, NULL} = {a, b, c}
  BY <1>2
<1> QED BY <1>1, <1>2, ContextsAssumption

LEMMA AddFacts ==
  ASSUME NEW q, Queue(q), NEW t \in Tasks, t \notin Range(q)
  PROVE  Queue(QueueAdd(q, t)) /\ Range(QueueAdd(q, t)) = Range(q) \cup {t}
<1> DEFINE r == Append(q, t)
<1>1. /\ r \in Seq(Tasks) /\ Len(r) = Len(q) + 1 /\ DOMAIN r = 1 .. Len(q) + 1
      /\ DOMAIN q = 1 .. Len(q) /\ Len(q) \in Nat
      /\ \A i \in 1 .. Len(q) + 1 : r[i] = IF i = Len(q) + 1 THEN t ELSE q[i]
  BY DEF Queue
<1>2. QueueAdd(q, t) = r
  BY DEF QueueAdd
<1> HIDE DEF r
<1>3. \A i \in 1 .. Len(q) : q[i] # t
  BY <1>1 DEF Range
<1>4. IsInjective(r)
  BY <1>1, <1>3 DEF IsInjective, Queue
<1>5. Range(r) = Range(q) \cup {t}
  BY <1>1 DEF Range
<1> QED BY <1>1, <1>2, <1>4, <1>5 DEF Queue

LEMMA ConcatFacts ==
  ASSUME NEW u \in Seq(Tasks), NEW v \in Seq(Tasks)
  PROVE  /\ u \o v \in Seq(Tasks) /\ Len(u \o v) = Len(u) + Len(v)
         /\ \A j \in 1 .. Len(u) : (u \o v)[j] = u[j]
         /\ \A k \in 1 .. Len(v) : (u \o v)[Len(u) + k] = v[k]
OBVIOUS

LEMMA RemoveFacts ==
  ASSUME NEW q, Queue(q), NEW i \in DOMAIN q
  PROVE  Queue(RemoveAt(q, i)) /\ Range(RemoveAt(q, i)) = Range(q) \ {q[i]}
<1> DEFINE u == SubSeq(q, 1, i - 1)
           v == SubSeq(q, i + 1, Len(q))
           r == u \o v
<1>0. q \in Seq(Tasks) /\ Len(q) \in Nat /\ DOMAIN q = 1 .. Len(q) /\ i \in 1 .. Len(q)
  BY DEF Queue
<1>1. /\ u \in Seq(Tasks) /\ Len(u) = i - 1 /\ \A j \in 1 .. i - 1 : u[j] = q[j]
      /\ v \in Seq(Tasks) /\ Len(v) = Len(q) - i
      /\ \A j \in 1 .. Len(q) - i : v[j] = q[j + i]
  BY <1>0, SMTT(30)
<1>2. RemoveAt(q, i) = r
  BY DEF RemoveAt
<1> HIDE DEF u, v
<1>3. /\ r \in Seq(Tasks) /\ Len(r) = Len(u) + Len(v)
      /\ \A j \in 1 .. Len(u) : r[j] = u[j]
      /\ \A k \in 1 .. Len(v) : r[Len(u) + k] = v[k]
  BY <1>1, ConcatFacts
<1> HIDE DEF r
<1>4. Len(r) = Len(q) - 1 /\ DOMAIN r = 1 .. Len(q) - 1
  BY <1>0, <1>1, <1>3
<1>5. ASSUME NEW j \in 1 .. Len(q) - 1 PROVE r[j] = IF j < i THEN q[j] ELSE q[j + 1]
  <2>1. CASE j < i
    <3>1. j \in 1 .. i - 1 /\ j \in 1 .. Len(u)
      BY <1>0, <1>1, <2>1
    <3> QED BY <1>1, <1>3, <2>1, <3>1
  <2>2. CASE j >= i
    <3>1. PICK k \in 1 .. Len(q) - i : j = i - 1 + k /\ j + 1 = k + i
      <4>1. /\ j - i + 1 \in 1 .. Len(q) - i /\ j = i - 1 + (j - i + 1)
            /\ j + 1 = (j - i + 1) + i
        BY <1>0, <2>2
      <4> QED BY <4>1
    <3>2. r[j] = v[k] /\ v[k] = q[j + 1]
      BY <1>1, <1>3, <3>1
    <3> QED BY <1>0, <2>2, <3>2
  <2> QED BY <1>0, <2>1, <2>2
<1>6. \A a, b \in 1 .. Len(q) : q[a] = q[b] => a = b
  BY <1>0 DEF Queue, IsInjective
<1>7. IsInjective(r)
  <2> SUFFICES ASSUME NEW a \in 1 .. Len(q) - 1, NEW b \in 1 .. Len(q) - 1, r[a] = r[b]
               PROVE  a = b
    BY <1>4 DEF IsInjective
  <2>1. a \in 1 .. Len(q) /\ a + 1 \in 1 .. Len(q) /\ b \in 1 .. Len(q) /\ b + 1 \in 1 .. Len(q)
    BY <1>0
  <2>2. CASE a < i /\ b < i
    BY <1>5, <1>6, <2>1, <2>2
  <2>3. CASE a < i /\ b >= i
    <3>1. r[a] = q[a] /\ r[b] = q[b + 1] /\ a # b + 1
      BY <1>0, <1>5, <2>1, <2>3
    <3> QED BY <1>6, <2>1, <3>1
  <2>4. CASE a >= i /\ b < i
    <3>1. r[a] = q[a + 1] /\ r[b] = q[b] /\ a + 1 # b
      BY <1>0, <1>5, <2>1, <2>4
    <3> QED BY <1>6, <2>1, <3>1
  <2>5. CASE a >= i /\ b >= i
    <3>1. r[a] = q[a + 1] /\ r[b] = q[b + 1]
      BY <1>0, <1>5, <2>1, <2>5
    <3>2. a + 1 = b + 1
      BY <1>6, <2>1, <3>1
    <3> QED BY <3>2
  <2> QED BY <1>0, <2>2, <2>3, <2>4, <2>5
<1>8. Range(r) = Range(q) \ {q[i]}
  <2>1. ASSUME NEW j \in 1 .. Len(q) - 1 PROVE r[j] \in Range(q) \ {q[i]}
    <3>1. j \in 1 .. Len(q) /\ j + 1 \in 1 .. Len(q)
      BY <1>0
    <3>2. CASE j < i
      BY <1>0, <1>5, <1>6, <3>1, <3>2 DEF Range
    <3>3. CASE j >= i
      <4>1. r[j] = q[j + 1] /\ j + 1 # i
        BY <1>0, <1>5, <3>3
      <4> QED BY <1>0, <1>6, <3>1, <4>1 DEF Range
    <3> QED BY <1>0, <3>2, <3>3
  <2>2. ASSUME NEW j \in 1 .. Len(q), j # i PROVE q[j] \in Range(r)
    <3>1. CASE j < i
      <4>1. j \in 1 .. Len(q) - 1 /\ r[j] = q[j]
        BY <1>0, <1>5, <3>1
      <4> QED BY <1>4, <4>1 DEF Range
    <3>2. CASE j > i
      <4>1. PICK k \in 1 .. Len(q) - 1 : j = k + 1 /\ k >= i
        <5>1. j - 1 \in 1 .. Len(q) - 1 /\ j = (j - 1) + 1 /\ j - 1 >= i
          BY <1>0, <3>2
        <5> QED BY <5>1
      <4>2. r[k] = q[j]
        BY <1>0, <1>5, <4>1
      <4> QED BY <1>4, <4>2 DEF Range
    <3> QED BY <1>0, <2>2, <3>1, <3>2
  <2> QED BY <1>0, <1>4, <2>1, <2>2 DEF Range
<1> QED BY <1>2, <1>3, <1>7, <1>8 DEF Queue

\* list_remove
LEMMA WithoutFacts ==
  ASSUME NEW q, Queue(q), NEW t
  PROVE  Queue(Without(q, t)) /\ Range(Without(q, t)) = Range(q) \ {t}
<1>1. CASE t \in Range(q)
  <2>1. PICK i \in DOMAIN q : i = CHOOSE j \in DOMAIN q : q[j] = t
    BY <1>1 DEF Range
  <2>2. q[i] = t
    BY <1>1, <2>1 DEF Range
  <2>3. Without(q, t) = RemoveAt(q, i)
    BY <1>1, <2>1 DEF Without
  <2> QED BY <2>2, <2>3, RemoveFacts
<1>2. CASE t \notin Range(q)
  BY <1>2 DEF Without
<1> QED BY <1>1, <1>2

LEMMA HeadFacts ==
  ASSUME NEW q, Queue(q), q # <<>>
  PROVE  /\ Head(q) \in Tasks /\ Head(q) \in Range(q)
         /\ Queue(Tail(q)) /\ Range(Tail(q)) = Range(q) \ {Head(q)}
<1>1. q \in Seq(Tasks) /\ 1 \in DOMAIN q /\ Head(q) = q[1] /\ q[1] \in Tasks
  BY DEF Queue
<1>2. RemoveAt(q, 1) = Tail(q)
  <2>1. SubSeq(q, 1, 1 - 1) = <<>> /\ SubSeq(q, 1 + 1, Len(q)) = Tail(q) /\ Tail(q) \in Seq(Tasks)
    BY <1>1
  <2>2. <<>> \o Tail(q) = Tail(q)
    BY <2>1
  <2> QED BY <2>1, <2>2 DEF RemoveAt
<1>3. Head(q) \in Range(q)
  BY <1>1 DEF Range
<1> QED BY <1>1, <1>2, <1>3, RemoveFacts

\* sched_select_task takes the head to the tail.
LEMMA RotatedFacts ==
  ASSUME Queue(running_queue)
  PROVE  Queue(Rotated) /\ Range(Rotated) = Range(running_queue)
<1>1. CASE running_queue = <<>>
  BY <1>1 DEF Rotated
<1>2. CASE running_queue # <<>>
  <2>1. Rotated = QueueAdd(Tail(running_queue), Head(running_queue))
    BY <1>2 DEF Rotated
  <2>2. Head(running_queue) \notin Range(Tail(running_queue))
    BY <1>2, HeadFacts
  <2>3. /\ Queue(QueueAdd(Tail(running_queue), Head(running_queue)))
        /\ Range(QueueAdd(Tail(running_queue), Head(running_queue)))
             = Range(Tail(running_queue)) \cup {Head(running_queue)}
    BY <1>2, <2>2, HeadFacts, AddFacts
  <2> QED BY <1>2, <2>1, <2>3, HeadFacts
<1> QED BY <1>1, <1>2

LEMMA EmptyRange == ASSUME NEW q, Queue(q) PROVE q = <<>> <=> Range(q) = {}
BY DEF Queue, Range

LEMMA AppendTwo == ASSUME NEW a, NEW p PROVE Append(<<a>>, p) = <<a, p>>
<1> DEFINE S == {a, p}
<1>1. /\ Append(<<a>>, p) \in Seq(S) /\ Len(Append(<<a>>, p)) = 2
      /\ Append(<<a>>, p)[1] = a /\ Append(<<a>>, p)[2] = p
  <2>1. <<a>> \in Seq(S) /\ Len(<<a>>) = 1 /\ <<a>>[1] = a /\ p \in S
    OBVIOUS
  <2> HIDE DEF S
  <2> QED BY <2>1, AppendProperties
<1>2. <<a, p>> \in Seq(S) /\ Len(<<a, p>>) = 2 /\ <<a, p>>[1] = a /\ <<a, p>>[2] = p
  OBVIOUS
<1> DEFINE x == Append(<<a>>, p)
           y == <<a, p>>
<1>3. x \in Seq(S) /\ y \in Seq(S) /\ Len(x) = Len(y) /\ \A i \in 1 .. Len(x) : x[i] = y[i]
  BY <1>1, <1>2
<1> HIDE DEF S, x, y
<1>4. x = y
  BY <1>3, SeqEqual
<1> QED BY <1>4 DEF x, y

LEMMA One ==
  ASSUME NEW a, NEW p
  PROVE  /\ Last(<<a>>) = a /\ Append(Front(<<a>>), p) = <<p>>
         /\ <<a>>[1] = a /\ <<a>> # <<>>
<1>1. SubSeq(<<a>>, 1, 1 - 1) = <<>>
  OBVIOUS
<1>2. Append(<<>>, p) = <<p>>
  OBVIOUS
<1>3. Len(<<a>>) = 1 /\ <<a>>[1] = a /\ <<a>> # <<>>
  OBVIOUS
<1> QED BY <1>1, <1>2, <1>3 DEF Last, Front

LEMMA Two ==
  ASSUME NEW a, NEW h
  PROVE  /\ Last(<<a, h>>) = h /\ Front(<<a, h>>) = <<a>>
         /\ <<a, h>>[1] = a /\ <<a, h>> # <<>> /\ \A p : <<a, h>> # <<p>>
<1>1. Front(<<a, h>>) = <<a>>
  <2> DEFINE S == {a, h}
  <2>1. <<a, h>> \in Seq(S) /\ Len(<<a, h>>) = 2 /\ <<a, h>> # <<>> /\ <<a, h>>[1] = a
    OBVIOUS
  <2>2. /\ SubSeq(<<a, h>>, 1, 1) \in Seq(S) /\ Len(SubSeq(<<a, h>>, 1, 1)) = 1
        /\ SubSeq(<<a, h>>, 1, 1)[1] = a
    OBVIOUS
  <2>3. <<a>> \in Seq(S) /\ Len(<<a>>) = 1 /\ <<a>>[1] = a
    OBVIOUS
  <2> DEFINE x == SubSeq(<<a, h>>, 1, 1)
             y == <<a>>
  <2>4. x \in Seq(S) /\ y \in Seq(S) /\ Len(x) = Len(y) /\ \A i \in 1 .. Len(x) : x[i] = y[i]
    BY <2>2, <2>3
  <2> HIDE DEF S, x, y
  <2>5. x = y
    BY <2>4, SeqEqual
  <2> QED BY <2>1, <2>5 DEF Front, x, y
<1>2. /\ Len(<<a, h>>) = 2 /\ <<a, h>>[1] = a /\ <<a, h>>[2] = h /\ <<a, h>> # <<>>
      /\ \A p : <<a, h>> # <<p>>
  OBVIOUS
<1> QED BY <1>1, <1>2 DEF Last

-----------------------------------------------------------------------------
(* Where the processor is.                                                 *)

LEMMA HereFacts ==
  ASSUME Stacks
  PROVE  /\ Here \in Open \cup Closed \cup Handler
         /\ Here \in Handler => \E b \in Open : stack[on] = <<b, Here>>
         /\ Here \notin Handler => stack[on] = <<Here>>
         /\ stack[on] # <<>> /\ on \in Contexts
<1>1. ASSUME NEW p \in Open \cup Closed, stack[on] = <<p>>
      PROVE  Here = p /\ p \notin Handler
  BY <1>1, One DEF Here, Open, Closed, Handler, Inits
<1>2. ASSUME NEW b \in Open, NEW h \in Handler, stack[on] = <<b, h>>
      PROVE  Here = h
  BY <1>2, Two DEF Here
<1>3. \/ \E p \in Open \cup Closed : stack[on] = <<p>>
      \/ \E b \in Open, h \in Handler : stack[on] = <<b, h>>
  BY DEF Stacks, Executing
<1>4. stack[on] # <<>>
  BY <1>3, One, Two
<1> QED BY <1>1, <1>2, <1>3, <1>4 DEF Stacks

\* Whose code it is.
LEMMA Whose ==
  ASSUME Stacks, Here \notin Handler
  PROVE  /\ on = Boot => Here \in BootCode
         /\ on = Idle => Here \in IdleCode
         /\ on \in Tasks => Here \in TaskCode
         /\ on \in Tasks \cup {Boot, Idle}
<1>1. stack[on] = <<Here>>
  BY HereFacts
<1>2. stack[on] # <<>> /\ stack[on][1] = Here
  BY <1>1, One
<1> QED BY <1>2 DEF Stacks, Contexts

\* The running code goes on with its next line.
LEMMA MoveOn ==
  ASSUME Stacks, Here \notin Handler, NEW q \in Open \cup Closed,
         stack' = GoTo(q), on' = on,
         on = Boot => q \in BootCode, on = Idle => q \in IdleCode, on \in Tasks => q \in TaskCode
  PROVE  /\ Stacks' /\ Here' = q
         /\ stack' = [stack EXCEPT ![on] = <<q>>] /\ stack'[on] = <<q>>
         /\ \A c \in Contexts \ {on} : stack'[c] = stack[c]
         /\ stack'[Boot][1] = IF on = Boot THEN q ELSE stack[Boot][1]
<1>1. stack[on] = <<Here>> /\ on \in Contexts /\ on # Reaper
  BY HereFacts DEF Stacks
<1>2. stack' = [stack EXCEPT ![on] = <<q>>]
  BY <1>1, One DEF GoTo
<1>3. stack'[on] = <<q>> /\ \A c \in Contexts \ {on} : stack'[c] = stack[c]
  BY <1>1, <1>2 DEF Stacks
<1>4. Here' = q
  BY <1>3, One DEF Here
<1>5. q \in Points
  BY DEF Points, Open, Closed, Inits
<1>6. stack' \in [Contexts -> Seq(Points)]
  <2>1. <<q>> \in Seq(Points)
    BY <1>5
  <2> QED BY <1>2, <2>1 DEF Stacks
<1>7. stack'[on] \in Executing
  BY <1>3 DEF Executing
<1>8. stack'[on] # <<>> /\ stack'[on][1] = q
  BY <1>3, One
<1>9. Boot \in Contexts /\ Idle \in Contexts /\ Reaper \in Contexts /\ Tasks \subseteq Contexts
  BY DEF Contexts
<1>10. Stacks'
  BY <1>1, <1>3, <1>6, <1>7, <1>8, <1>9 DEF Stacks
<1> QED BY <1>2, <1>3, <1>4, <1>8, <1>9, <1>10

\* The queues hold what they held.
SameQueues ==
  /\ Queues'
  /\ Queued' = Queued /\ Range(reaper_queue') = Range(reaper_queue)
  /\ running_queue = <<>> => running_queue' = <<>>

LEMMA Unchanged == ASSUME Queues, UNCHANGED queues PROVE SameQueues
BY DEF SameQueues, Queues, Queued, queues

LEMMA Rotation ==
  ASSUME Queues, running_queue' = Rotated, UNCHANGED <<waiting_queue, reaper_queue>>
  PROVE  SameQueues
<1>1. Queue(running_queue') /\ Range(running_queue') = Range(running_queue)
  BY RotatedFacts DEF Queues
<1>2. running_queue = <<>> => running_queue' = <<>>
  BY DEF Rotated
<1> QED BY <1>1, <1>2 DEF SameQueues, Queues, Queued

\* A step that only moves the program point, and the interrupt flag with it.
LEMMA PlainStep ==
  ASSUME Inv, ~crashed, Here \notin Handler \cup Inits \cup Midway \cup {"post3"},
         NEW q \in (Open \cup Closed) \ (Inits \cup Midway \cup {"post3"}),
         stack' = GoTo(q), (if_flag' = TRUE /\ q \in Open) \/ (if_flag' = FALSE /\ q \notin Open),
         on = Boot => q \in BootCode, on = Idle => q \in IdleCode, on \in Tasks => q \in TaskCode,
         SameQueues,
         UNCHANGED <<scheduler_ready, curr_task, idle_task, on, in_service, crashed>>
  PROVE  Inv'
<1>1. Stacks /\ Flags /\ Current /\ Queues /\ Placed /\ Here \notin Handler
  BY DEF Inv
<1>2. /\ Stacks' /\ Here' = q /\ stack'[on] = <<q>> /\ on' = on
      /\ \A c \in Contexts \ {on} : stack'[c] = stack[c]
      /\ stack'[Boot][1] = IF on = Boot THEN q ELSE stack[Boot][1]
  BY <1>1, MoveOn
<1>3. Flags'
  <2>1. in_service = {}
    BY <1>1 DEF Flags, Handler
  <2>2. in_service' = {} /\ scheduler_ready' = scheduler_ready /\ crashed' = crashed
    BY <2>1
  <2> QED BY <1>1, <1>2, <2>2 DEF Flags
<1>4. Current'
  <2>1. on = Boot => stack[Boot][1] = Here /\ Here \notin Inits /\ q \notin Inits
    BY <1>1, HereFacts, One
  <2>2. InInit' <=> InInit
    BY <1>2, <2>1 DEF InInit
  <2>3. stack'[Boot][1] = "init1" <=> stack[Boot][1] = "init1"
    BY <1>2, <2>1 DEF Inits
  <2>4. stack[Idle] # <<>> => stack'[Idle] # <<>>
    <3>1. <<q>> # <<>> /\ Idle \in Contexts
      BY DEF Contexts
    <3> QED BY <1>2, <3>1
  <2> QED BY <1>1, <1>2, <2>2, <2>3, <2>4 DEF Current, SameQueues
<1>5. Queues'
  BY DEF SameQueues
<1>6. Placed'
  <2> SUFFICES ASSUME NEW t \in Tasks
               PROVE  /\ t \in Queued' => stack'[t] # <<>>
                      /\ on = t \/ stack'[t] \notin NotBegun =>
                           (t \notin Queued' <=> on = t /\ Here' \in Midway)
                      /\ t \in Range(reaper_queue') <=>
                           stack'[t] = <<"dead">> \/ (on = t /\ stack'[t] = <<"post3">>)
    BY <1>2 DEF Placed
  <2>1. Queued' = Queued /\ Range(reaper_queue') = Range(reaper_queue)
    BY DEF SameQueues
  <2>2. CASE on = t
    <3>1. stack[t] = <<Here>> /\ stack'[t] = <<q>>
      BY <1>1, <1>2, <2>2, HereFacts
    <3>2. \A a, b : <<a>> = <<b>> => a = b
      OBVIOUS
    <3>3. <<q>> # <<>> /\ stack'[t] # <<"dead">> /\ stack'[t] # <<"post3">>
      BY <3>1, <3>2 DEF Open, Closed, Inits
    <3>4. stack[t] # <<"dead">> /\ stack[t] # <<"post3">>
      BY <1>1, <3>1, <3>2, HereFacts DEF Open, Closed, Inits
    <3>5. t \in Queued /\ t \notin Range(reaper_queue)
      BY <1>1, <2>2, <3>4 DEF Placed
    <3> QED BY <1>2, <2>1, <2>2, <3>1, <3>3, <3>5
  <2>3. CASE on # t
    <3>1. stack'[t] = stack[t]
      BY <1>2, <2>3 DEF Contexts
    <3> QED BY <1>1, <2>1, <2>3, <3>1 DEF Placed
  <2> QED BY <2>2, <2>3
<1> QED BY <1>2, <1>3, <1>4, <1>5, <1>6 DEF Inv

-----------------------------------------------------------------------------
(* Inside the handler, and into and out of it.                             *)

\* The stack of the running context changes, and its task stays where it was: it was
\* running and is, is at no point that means anything to the queues.
LEMMA SamePlaces ==
  ASSUME Placed, SameQueues, on' = on,
         Here \notin Midway, Here' \notin Midway,
         \A t \in Tasks :
           /\ stack[t] # <<>> => stack'[t] # <<>>
           /\ on = t \/ (stack'[t] \in NotBegun <=> stack[t] \in NotBegun)
           /\ stack'[t] = <<"dead">> <=> stack[t] = <<"dead">>
           /\ stack'[t] = <<"post3">> <=> stack[t] = <<"post3">>
  PROVE  Placed'
<1> SUFFICES ASSUME NEW t \in Tasks
             PROVE  /\ t \in Queued' => stack'[t] # <<>>
                    /\ on' = t \/ stack'[t] \notin NotBegun =>
                         (t \notin Queued' <=> on' = t /\ Here' \in Midway)
                    /\ t \in Range(reaper_queue') <=>
                         stack'[t] = <<"dead">> \/ (on' = t /\ stack'[t] = <<"post3">>)
  BY DEF Placed
<1>1. Queued' = Queued /\ Range(reaper_queue') = Range(reaper_queue)
  BY DEF SameQueues
<1> QED BY <1>1 DEF Placed

\* The stacks after a step that leaves the base of the running one alone.
LEMMA SameBase ==
  ASSUME Stacks, on' = on, NEW b \in Open, stack[on][1] = b, stack[on] # <<>>,
         NEW s \in Executing, s # <<>>, s[1] = b, s \in Seq(Points), stack' = [stack EXCEPT ![on] = s]
  PROVE  /\ Stacks' /\ Here' = Last(s)
         /\ stack'[on] = s /\ \A c \in Contexts \ {on} : stack'[c] = stack[c]
         /\ stack'[Boot][1] = stack[Boot][1]
<1>1. on \in Contexts /\ on # Reaper /\ stack'[on] = s
  BY DEF Stacks
<1>2. \A c \in Contexts \ {on} : stack'[c] = stack[c]
  BY DEF Stacks
<1>3. stack' \in [Contexts -> Seq(Points)]
  BY DEF Stacks
<1>4. Here' = Last(s)
  BY <1>1 DEF Here
<1>5. Boot \in Contexts /\ Idle \in Contexts /\ Reaper \in Contexts /\ Tasks \subseteq Contexts
  BY DEF Contexts
<1> QED BY <1>1, <1>2, <1>3, <1>4, <1>5 DEF Stacks

LEMMA Tuples ==
  /\ \A a, p : <<a>> = <<p>> => a = p
  /\ \A a, h : <<a, h>> # <<>>
  /\ \A a, h, p : <<a, h>> # <<p>>
  /\ \A b \in Open, h \in Handler : <<b, h>> \in Executing /\ <<b, h>> \in Seq(Points) /\ <<b, h>> \notin NotBegun
  /\ \A p \in Open \cup Closed : <<p>> \in Executing /\ <<p>> \in Seq(Points) /\ <<p>> # <<>>
<1>1. /\ \A a, p : <<a>> = <<p>> => a = p
      /\ \A a, h : <<a, h>> # <<>>
      /\ \A a, h, p : <<a, h>> # <<p>>
  OBVIOUS
<1>2. Open \cup Closed \cup Handler \subseteq Points
  BY DEF Open, Closed, Handler, Inits, Points
<1>3. ASSUME NEW b \in Open, NEW h \in Handler
      PROVE  <<b, h>> \in Executing /\ <<b, h>> \in Seq(Points) /\ <<b, h>> \notin NotBegun
  BY <1>1, <1>2 DEF Executing, NotBegun, FreshStack
<1>4. ASSUME NEW p \in Open \cup Closed
      PROVE  <<p>> \in Executing /\ <<p>> \in Seq(Points) /\ <<p>> # <<>>
  BY <1>2 DEF Executing
<1> QED BY <1>1, <1>3, <1>4

\* The handler goes on with its next line.
LEMMA HandlerStep ==
  ASSUME Inv, ~crashed, Here \in Handler, NEW q \in Handler, stack' = GoTo(q),
         in_service' = IF q = "tick" THEN {} ELSE in_service,
         q # "ack", Here = "tick" \/ q = "tick",
         SameQueues,
         UNCHANGED <<scheduler_ready, curr_task, idle_task, on, if_flag, crashed>>
  PROVE  Inv'
<1>1. Stacks /\ Flags /\ Current /\ Queues /\ Placed
  BY DEF Inv
<1>2. PICK b \in Open : stack[on] = <<b, Here>>
  BY <1>1, HereFacts
<1>3. on \in Contexts /\ stack[on] # <<>> /\ stack[on][1] = b
  BY <1>1, <1>2, Two, HereFacts
<1>4. stack' = [stack EXCEPT ![on] = <<b, q>>]
  <2>1. Front(stack[on]) = <<b>>
    BY <1>2, Two
  <2>2. Append(Front(stack[on]), q) = <<b, q>>
    BY <2>1, AppendTwo
  <2> QED BY <2>2 DEF GoTo
<1>5. <<b, q>> \in Executing /\ <<b, q>> # <<>> /\ <<b, q>>[1] = b /\ <<b, q>> \in Seq(Points)
      /\ Last(<<b, q>>) = q
  BY Tuples, Two
<1>6. /\ Stacks' /\ Here' = q /\ stack'[on] = <<b, q>>
      /\ \A c \in Contexts \ {on} : stack'[c] = stack[c]
      /\ stack'[Boot][1] = stack[Boot][1]
  BY <1>1, <1>3, <1>4, <1>5, SameBase
<1>7. Flags'
  <2>1. if_flag' = if_flag /\ scheduler_ready' = scheduler_ready /\ crashed' = crashed
    OBVIOUS
  <2>2. Here \notin Open /\ q \notin Open
    BY DEF Handler, Open, Inits
  <2>3. in_service' = {} \/ (in_service' = in_service /\ q = "eoi")
    BY DEF Handler
  <2> QED BY <1>1, <1>6, <2>1, <2>2, <2>3 DEF Flags
<1>8. Current'
  <2>1. InInit' <=> InInit
    BY <1>6 DEF InInit
  <2>2. stack[Idle] # <<>> => stack'[Idle] # <<>>
    BY <1>5, <1>6 DEF Contexts
  <2> QED BY <1>1, <1>6, <2>1, <2>2 DEF Current, SameQueues
<1>9. Queues'
  BY DEF SameQueues
<1>10. Placed'
  <2>1. Here \notin Midway /\ Here' \notin Midway
    BY <1>6 DEF Handler, Midway
  <2>2. ASSUME NEW t \in Tasks
        PROVE  /\ stack[t] # <<>> => stack'[t] # <<>>
               /\ on = t \/ (stack'[t] \in NotBegun <=> stack[t] \in NotBegun)
               /\ stack'[t] = <<"dead">> <=> stack[t] = <<"dead">>
               /\ stack'[t] = <<"post3">> <=> stack[t] = <<"post3">>
    <3>1. CASE on = t
      BY <1>2, <1>6, <3>1, Tuples
    <3>2. CASE on # t
      BY <1>6, <3>2 DEF Contexts
    <3> QED BY <3>1, <3>2
  <2> QED BY <1>1, <2>1, <2>2, SamePlaces
<1> QED BY <1>6, <1>7, <1>8, <1>9, <1>10 DEF Inv

\* An interrupt is taken: nothing of the handler is on the stack yet.
LEMMA InterruptStep ==
  ASSUME Inv, NEW v \in Vectors, Interrupt(v)
  PROVE  Inv'
<1>1. Stacks /\ Flags /\ Current /\ Queues /\ Placed /\ ~crashed /\ on' = on
  BY DEF Inv, Interrupt
<1>2. Here \in Open /\ Here \notin Handler
  BY <1>1 DEF Flags, Interrupt, Handler, Open, Inits
<1>3. stack[on] = <<Here>> /\ stack[on] # <<>> /\ stack[on][1] = Here
  BY <1>1, <1>2, HereFacts, One
<1>4. PICK h \in {"ack", "eoi"} : stack' = [stack EXCEPT ![on] = <<Here, h>>]
  <2>1. PICK h \in {"ack", "eoi"} : stack' = [stack EXCEPT ![on] = Append(stack[on], h)]
    BY DEF Interrupt
  <2>2. Append(stack[on], h) = <<Here, h>>
    BY <1>3, AppendTwo
  <2> QED BY <2>1, <2>2
<1>5. h \in Handler /\ h \notin Open
  BY <1>4 DEF Handler, Open, Inits
<1>6. <<Here, h>> \in Executing /\ <<Here, h>> # <<>> /\ <<Here, h>>[1] = Here
      /\ <<Here, h>> \in Seq(Points) /\ Last(<<Here, h>>) = h
  BY <1>2, <1>5, Tuples, Two
<1>7. /\ Stacks' /\ Here' = h /\ stack'[on] = <<Here, h>>
      /\ \A c \in Contexts \ {on} : stack'[c] = stack[c]
      /\ stack'[Boot][1] = stack[Boot][1]
  BY <1>1, <1>2, <1>3, <1>4, <1>6, SameBase
<1>8. Flags'
  BY <1>1, <1>4, <1>5, <1>7 DEF Flags, Interrupt, Vectors
<1>9. SameQueues
  BY <1>1, Unchanged DEF Interrupt, queues
<1>10. Current'
  <2>1. InInit' <=> InInit
    BY <1>7 DEF InInit
  <2>2. stack[Idle] # <<>> => stack'[Idle] # <<>>
    BY <1>6, <1>7 DEF Contexts
  <2> QED BY <1>1, <1>7, <1>9, <2>1, <2>2 DEF Current, SameQueues, Interrupt
<1>11. Placed'
  <2>1. Here \notin Midway /\ Here' \notin Midway
    BY <1>2, <1>5, <1>7 DEF Open, Inits, Handler, Midway
  <2>2. ASSUME NEW t \in Tasks
        PROVE  /\ stack[t] # <<>> => stack'[t] # <<>>
               /\ on = t \/ (stack'[t] \in NotBegun <=> stack[t] \in NotBegun)
               /\ stack'[t] = <<"dead">> <=> stack[t] = <<"dead">>
               /\ stack'[t] = <<"post3">> <=> stack[t] = <<"post3">>
    <3>1. CASE on = t
      <4>1. Here # "dead" /\ Here # "post3"
        BY <1>2 DEF Open, Inits
      <4> QED BY <1>3, <1>7, <3>1, <4>1, Tuples
    <3>2. CASE on # t
      BY <1>7, <3>2 DEF Contexts
    <3> QED BY <3>1, <3>2
  <2> QED BY <1>1, <1>9, <2>1, <2>2, SamePlaces
<1> QED BY <1>7, <1>8, <1>9, <1>10, <1>11 DEF Inv, SameQueues

\* The handler returns to the code it interrupted.
LEMMA EoiStep ==
  ASSUME Inv, EoiAndReturn
  PROVE  Inv'
<1>1. Stacks /\ Flags /\ Current /\ Queues /\ Placed /\ ~crashed /\ on' = on /\ Here = "eoi"
  BY DEF Inv, EoiAndReturn, At
<1>2. PICK b \in Open : stack[on] = <<b, Here>>
  BY <1>1, HereFacts DEF Handler
<1>3. stack[on] # <<>> /\ stack[on][1] = b
  BY <1>2, Two
<1>4. stack' = [stack EXCEPT ![on] = <<b>>]
  <2>1. Front(stack[on]) = <<b>>
    BY <1>2, Two
  <2> QED BY <2>1 DEF EoiAndReturn
<1>5. <<b>> \in Executing /\ <<b>> # <<>> /\ <<b>>[1] = b /\ <<b>> \in Seq(Points) /\ Last(<<b>>) = b
  BY Tuples, One
<1>6. /\ Stacks' /\ Here' = b /\ stack'[on] = <<b>>
      /\ \A c \in Contexts \ {on} : stack'[c] = stack[c]
      /\ stack'[Boot][1] = stack[Boot][1]
  BY <1>1, <1>3, <1>4, <1>5, SameBase
<1>7. Flags'
  BY <1>1, <1>6 DEF Flags, EoiAndReturn
<1>8. SameQueues
  BY <1>1, Unchanged DEF EoiAndReturn, queues
<1>9. Current'
  <2>1. InInit' <=> InInit
    BY <1>6 DEF InInit
  <2>2. stack[Idle] # <<>> => stack'[Idle] # <<>>
    BY <1>5, <1>6 DEF Contexts
  <2> QED BY <1>1, <1>6, <1>8, <2>1, <2>2 DEF Current, SameQueues, EoiAndReturn
<1>10. Placed'
  <2>1. Here \notin Midway /\ Here' \notin Midway
    BY <1>1, <1>6 DEF Open, Inits, Midway
  <2>2. ASSUME NEW t \in Tasks
        PROVE  /\ stack[t] # <<>> => stack'[t] # <<>>
               /\ on = t \/ (stack'[t] \in NotBegun <=> stack[t] \in NotBegun)
               /\ stack'[t] = <<"dead">> <=> stack[t] = <<"dead">>
               /\ stack'[t] = <<"post3">> <=> stack[t] = <<"post3">>
    <3>1. CASE on = t
      <4>1. b # "dead" /\ b # "post3"
        BY DEF Open, Inits
      <4> QED BY <1>2, <1>5, <1>6, <3>1, <4>1, Tuples
    <3>2. CASE on # t
      BY <1>6, <3>2 DEF Contexts
    <3> QED BY <3>1, <3>2
  <2> QED BY <1>1, <1>8, <2>1, <2>2, SamePlaces
<1> QED BY <1>6, <1>7, <1>8, <1>9, <1>10 DEF Inv, SameQueues

-----------------------------------------------------------------------------
(* sched_switch is called from three places; q is where its caller goes on. *)

SwitchPoint(q) ==
  \/ Here = "tick"  /\ q = "eoi"
  \/ Here = "yield" /\ q = "yieldRet"
  \/ Here = "post3" /\ q = "dead"

\* The stack that is switched away from.
LEMMA Leaving ==
  ASSUME Stacks, NEW q, SwitchPoint(q), stack' = GoTo(q)
  PROVE  /\ stack' \in [Contexts -> Seq(Points)]
         /\ \A c \in Contexts \ {on} : stack'[c] = stack[c]
         /\ stack'[on] \in Resting \ NotBegun
         /\ stack'[on] # <<>> /\ (stack'[on][1] = stack[on][1] \/ (Here \notin Handler /\ stack'[on][1] = q))
         /\ stack'[on] = <<"dead">> <=> stack[on] = <<"post3">>
         /\ stack[on] # <<"dead">>
<1>1. on \in Contexts /\ stack \in [Contexts -> Seq(Points)]
  BY DEF Stacks
<1>2. ASSUME NEW s \in Seq(Points), stack' = [stack EXCEPT ![on] = s]
      PROVE  /\ stack' \in [Contexts -> Seq(Points)] /\ stack'[on] = s
             /\ \A c \in Contexts \ {on} : stack'[c] = stack[c]
  BY <1>1, <1>2
<1>3. CASE Here = "tick"
  <2>1. q = "eoi" /\ Here \in Handler /\ q \in Handler
    BY <1>3 DEF SwitchPoint, Handler
  <2>2. PICK b \in Open : stack[on] = <<b, Here>>
    BY <2>1, HereFacts
  <2>3. stack' = [stack EXCEPT ![on] = <<b, q>>]
    <3>1. Front(stack[on]) = <<b>>
      BY <2>2, Two
    <3>2. Append(Front(stack[on]), q) = <<b, q>>
      BY <3>1, AppendTwo
    <3> QED BY <3>2 DEF GoTo
  <2>4. <<b, q>> \in Seq(Points) /\ <<b, q>> \notin NotBegun
    BY <2>1, Tuples
  <2>5. stack'[on] = <<b, q>> /\ stack' \in [Contexts -> Seq(Points)]
        /\ \A c \in Contexts \ {on} : stack'[c] = stack[c]
    BY <1>2, <2>3, <2>4
  <2>6. <<b, q>> \in Resting
    BY <2>1 DEF Resting
  <2>7. stack'[on][1] = stack[on][1] /\ stack'[on] # <<>>
    BY <2>2, <2>5, Two
  <2>8. stack'[on] # <<"dead">> /\ stack[on] # <<"post3">> /\ stack[on] # <<"dead">>
    BY <2>2, <2>5, Tuples
  <2> QED BY <2>4, <2>5, <2>6, <2>7, <2>8
<1>4. CASE Here # "tick"
  <2>1. Here \notin Handler /\ q \in {"yieldRet", "dead"} /\ (q = "dead" <=> Here = "post3")
        /\ Here # "dead"
    BY <1>4 DEF SwitchPoint, Handler
  <2>2. stack[on] = <<Here>>
    BY <2>1, HereFacts
  <2>3. stack' = [stack EXCEPT ![on] = <<q>>]
    BY <2>2, One DEF GoTo
  <2>4. <<q>> \in Seq(Points)
    BY <2>1 DEF Points
  <2>5. stack'[on] = <<q>> /\ stack' \in [Contexts -> Seq(Points)]
        /\ \A c \in Contexts \ {on} : stack'[c] = stack[c]
    BY <1>2, <2>3, <2>4
  <2>6. <<q>> \in Resting /\ <<q>> \notin NotBegun
    <3>1. <<q>> # <<>> /\ q # "prelude"
      BY <2>1
    <3> QED BY <2>1, <3>1, Tuples DEF Resting, NotBegun, FreshStack
  <2>7. stack'[on][1] = q /\ stack'[on] # <<>>
    BY <2>5, One
  <2>8. (stack'[on] = <<"dead">> <=> stack[on] = <<"post3">>) /\ stack[on] # <<"dead">>
    BY <2>1, <2>2, <2>5, Tuples
  <2> QED BY <2>1, <2>5, <2>6, <2>7, <2>8
<1> QED BY <1>3, <1>4

\* Once sched_init is over, curr_task is whoever runs, and the task that is selected is
\* idle_task or one of the running queue.
LEMMA Selected ==
  ASSUME Inv, scheduler_ready, curr_task # NULL
  PROVE  /\ curr_task = on /\ ~InInit /\ idle_task = Idle /\ stack[Idle] # <<>>
         /\ IF running_queue = <<>> THEN SelectTask = Idle
            ELSE SelectTask \in Tasks /\ SelectTask \in Range(running_queue)
<1>1. curr_task = on /\ ~InInit /\ idle_task = Idle /\ stack[Idle] # <<>>
  BY DEF Inv, Current, InInit, Inits
<1>2. running_queue # <<>> => Head(running_queue) \in Tasks
                              /\ Head(running_queue) \in Range(running_queue)
  BY HeadFacts DEF Inv, Queues
<1> QED BY <1>1, <1>2 DEF SelectTask

\* The context that is switched to has been left by switch_to, or is new.
LEMMA Arriving ==
  ASSUME Inv, NEW s \in Contexts \ {on}, s = Idle \/ (s \in Tasks /\ s \in Range(running_queue)),
         stack[s] # <<>>
  PROVE  /\ stack[s] \in Executing
         /\ Last(stack[s]) \in {"prelude", "yieldRet", "eoi"}
         /\ stack[s] # <<"dead">> /\ stack[s] # <<"post3">>
<1>1. Stacks /\ Flags /\ Current /\ Queues /\ Placed
  BY DEF Inv
<1>2. stack[s] \in Resting
  BY <1>1 DEF Stacks
<1>3. stack[s] # <<"dead">>
  <2>1. CASE s = Idle
    <3>1. stack[Idle][1] \in IdleCode
      BY <1>1, <2>1 DEF Stacks
    <3> QED BY <2>1, <3>1, One DEF IdleCode
  <2>2. CASE s \in Tasks /\ s \in Range(running_queue)
    <3>1. s \notin Range(reaper_queue)
      BY <1>1, <2>2 DEF Queues
    <3> QED BY <1>1, <2>2, <3>1 DEF Placed
  <2> QED BY <2>1, <2>2
<1>4. \/ stack[s] = <<"prelude">> \/ stack[s] = <<"yieldRet">>
      \/ \E b \in Open : stack[s] = <<b, "eoi">>
  BY <1>2, <1>3 DEF Resting, NotBegun, FreshStack
<1>5. ASSUME NEW p \in {"prelude", "yieldRet"}, stack[s] = <<p>>
      PROVE  stack[s] \in Executing /\ Last(stack[s]) = p /\ stack[s] # <<"post3">>
  BY <1>5, One, Tuples DEF Closed
<1>6. ASSUME NEW b \in Open, stack[s] = <<b, "eoi">>
      PROVE  stack[s] \in Executing /\ Last(stack[s]) = "eoi" /\ stack[s] # <<"post3">>
  <2>1. "eoi" \in Handler
    BY DEF Handler
  <2> QED BY <1>6, <2>1, Two, Tuples
<1> QED BY <1>3, <1>4, <1>5, <1>6

\* What a switch may assume of the code it is called from.
LEMMA Calling ==
  ASSUME Inv, NEW q, SwitchPoint(q)
  PROVE  /\ ~if_flag /\ in_service = {} /\ Here \notin Midway
         /\ Here \in Handler \/ on \in Tasks \cup {Boot}
         /\ on = Boot => Here # "post3"
         /\ Here = "post3" => on \in Tasks /\ on \in Range(reaper_queue)
         /\ q = "yieldRet" => Here = "yield"
<1>1. Stacks /\ Flags /\ Placed
  BY DEF Inv
<1>2. ~if_flag /\ in_service = {} /\ Here \notin Midway
  BY <1>1 DEF SwitchPoint, Flags, Open, Inits, Midway
<1>3. Here \notin Handler => on \in Tasks \cup {Boot}
  BY <1>1, Whose DEF SwitchPoint, IdleCode
<1>4. on = Boot => Here # "post3"
  BY <1>1, Whose DEF SwitchPoint, BootCode, Handler, Inits
<1>5. Here = "post3" => on \in Tasks /\ on \in Range(reaper_queue)
  <2> SUFFICES ASSUME Here = "post3" PROVE on \in Tasks /\ on \in Range(reaper_queue)
    OBVIOUS
  <2>1. Here \notin Handler
    BY DEF Handler
  <2>2. on \in Tasks /\ stack[on] = <<"post3">>
    BY <1>1, <1>3, <1>4, <2>1, HereFacts
  <2> QED BY <1>1, <2>2 DEF Placed
<1>6. q = "yieldRet" => Here = "yield"
  BY DEF SwitchPoint
<1> QED BY <1>2, <1>3, <1>4, <1>5, <1>6

LEMMA SwitchAway ==
  ASSUME Inv, ~crashed, NEW q, SwitchPoint(q), SwitchTo(q),
         UNCHANGED <<scheduler_ready, waiting_queue, reaper_queue, idle_task, if_flag, in_service>>
  PROVE  Inv'
<1>1. Stacks /\ Flags /\ Current /\ Queues /\ Placed
  BY DEF Inv
<1> DEFINE s == SelectTask
<1>2. /\ scheduler_ready /\ curr_task # NULL /\ s # curr_task
      /\ stack' = GoTo(q) /\ on' = s /\ curr_task' = s /\ crashed' = crashed
      /\ running_queue' = Rotated
  BY DEF SwitchTo
<1>3. /\ curr_task = on /\ ~InInit /\ idle_task = Idle /\ stack[Idle] # <<>>
      /\ s = Idle \/ (s \in Tasks /\ s \in Range(running_queue))
      /\ s = Idle => running_queue = <<>>
  BY <1>2, Selected, Distinct
<1> HIDE DEF s
<1>4. s \in Contexts \ {on} /\ s # Reaper /\ stack[s] # <<>>
  BY <1>1, <1>2, <1>3, Distinct DEF Contexts, Placed, Queued
<1>5. /\ stack' \in [Contexts -> Seq(Points)]
      /\ \A c \in Contexts \ {on} : stack'[c] = stack[c]
      /\ stack'[on] \in Resting \ NotBegun
      /\ stack'[on] # <<>>
      /\ stack'[on][1] = stack[on][1] \/ (Here \notin Handler /\ stack'[on][1] = q)
      /\ stack'[on] = <<"dead">> <=> stack[on] = <<"post3">>
      /\ stack[on] # <<"dead">>
  BY <1>1, <1>2, Leaving
<1>6. /\ stack[s] \in Executing
      /\ Last(stack[s]) \in {"prelude", "yieldRet", "eoi"}
      /\ stack[s] # <<"dead">> /\ stack[s] # <<"post3">>
  BY <1>3, <1>4, Arriving
<1>7. /\ ~if_flag /\ in_service = {} /\ Here \notin Midway
      /\ Here \in Handler \/ on \in Tasks \cup {Boot}
      /\ on = Boot => Here # "post3"
      /\ q = "yieldRet" => Here = "yield"
  BY Calling
<1>8. stack'[s] = stack[s] /\ Here' \in {"prelude", "yieldRet", "eoi"}
  <2>1. stack'[s] = stack[s]
    BY <1>4, <1>5
  <2>2. Here' = Last(stack'[s])
    BY <1>2 DEF Here
  <2> QED BY <1>6, <2>1, <2>2
<1>9. Boot \in Contexts /\ Idle \in Contexts /\ Reaper \in Contexts /\ Tasks \subseteq Contexts
  BY DEF Contexts
<1>10. \/ stack'[on][1] = stack[on][1]
       \/ Here \notin Handler /\ stack'[on][1] = q
          /\ (q = "yieldRet" \/ (q = "dead" /\ Here = "post3"))
  BY <1>5 DEF SwitchPoint, Handler
<1>11. Stacks'
  <2>1. stack'[on'] \in Executing
    BY <1>2, <1>6, <1>8
  <2>2. \A c \in Contexts \ {on'} : stack'[c] \in Resting
    BY <1>1, <1>2, <1>5 DEF Stacks
  <2>3. on \in Tasks \cup {Boot} \/ stack'[on][1] = stack[on][1]
    BY <1>7, <1>10
  <2>4. on = Boot => stack'[Boot][1] \in BootCode
    BY <1>1, <1>7, <1>10 DEF Stacks, BootCode
  <2>5. on \in Tasks => stack'[on][1] \in TaskCode
    BY <1>1, <1>10, HereFacts DEF Stacks, TaskCode, Closed
  <2>6. on = Idle => stack'[Idle][1] \in IdleCode
    BY <1>1, <1>9, <2>3, HereFacts, Distinct DEF Stacks
  <2> QED BY <1>1, <1>2, <1>4, <1>5, <1>9, <2>1, <2>2, <2>4, <2>5, <2>6 DEF Stacks
<1>12. Flags'
  BY <1>1, <1>2, <1>7, <1>8 DEF Flags, Open, Inits
<1>13. SameQueues
  BY <1>1, <1>2, Rotation
<1>14. Current'
  <2>1. stack'[Boot][1] \notin Inits
    BY <1>1, <1>3, <1>5, <1>9, <1>10 DEF InInit, Inits
  <2>2. stack'[Idle] # <<>>
    BY <1>3, <1>5, <1>9
  <2>3. stack'[Boot][1] # "init1"
    BY <2>1 DEF Inits
  <2>4. on' = Idle => running_queue' = <<>>
    BY <1>2, <1>3, <1>13 DEF SameQueues
  <2>5. scheduler_ready' /\ idle_task' = Idle /\ ~crashed' /\ curr_task' = on' /\ ~InInit'
    BY <1>2, <1>3, <2>1 DEF InInit
  <2> QED BY <2>2, <2>3, <2>4, <2>5 DEF Current
<1>15. Placed'
  <2> SUFFICES ASSUME NEW t \in Tasks
               PROVE  /\ t \in Queued' => stack'[t] # <<>>
                      /\ on' = t \/ stack'[t] \notin NotBegun =>
                           (t \notin Queued' <=> on' = t /\ Here' \in Midway)
                      /\ t \in Range(reaper_queue') <=>
                           stack'[t] = <<"dead">> \/ (on' = t /\ stack'[t] = <<"post3">>)
    BY DEF Placed
  <2>1. Queued' = Queued /\ Range(reaper_queue') = Range(reaper_queue) /\ Here' \notin Midway
    BY <1>8, <1>13 DEF SameQueues, Midway
  <2>2. CASE t = on
    <3>1. t \in Queued /\ (t \in Range(reaper_queue) <=> stack[t] = <<"post3">>)
      BY <1>1, <1>5, <1>7, <2>2 DEF Placed
    <3>2. on' # t /\ stack'[t] # <<>> /\ stack'[t] \notin NotBegun
      BY <1>2, <1>4, <1>5, <2>2
    <3> QED BY <1>5, <2>1, <2>2, <3>1, <3>2
  <2>3. CASE t = s
    <3>1. t \in Queued /\ t \notin Range(reaper_queue)
      BY <1>1, <1>3, <2>3, Distinct DEF Queues, Queued
    <3>2. stack'[t] = stack[t] /\ on' = t
      BY <1>2, <1>8, <2>3
    <3> QED BY <1>4, <1>6, <2>1, <2>3, <3>1, <3>2
  <2>4. CASE t # on /\ t # s
    <3>1. stack'[t] = stack[t] /\ on' # t
      BY <1>2, <1>5, <1>9, <2>4
    <3> QED BY <1>1, <2>1, <2>4, <3>1 DEF Placed
  <2> QED BY <2>2, <2>3, <2>4
<1> QED BY <1>11, <1>12, <1>13, <1>14, <1>15 DEF Inv, SameQueues

\* sched_switch returns to its caller: it is too early, or nobody else is runnable.
LEMMA SwitchBack ==
  ASSUME Inv, ~crashed, NEW q, SwitchPoint(q), Here # "post3", stack' = GoTo(q), SameQueues,
         UNCHANGED <<scheduler_ready, curr_task, idle_task, on, if_flag, in_service, crashed>>
  PROVE  Inv'
<1>1. ~if_flag /\ in_service = {} /\ (Here \in Handler \/ on \in Tasks \cup {Boot})
  BY Calling
<1>2. CASE Here = "tick"
  <2>1. Here \in Handler /\ q \in Handler /\ q # "ack" /\ q # "tick"
    BY <1>2 DEF SwitchPoint, Handler
  <2> QED BY <1>1, <1>2, <2>1, HandlerStep
<1>3. CASE Here = "yield"
  <2>1. q = "yieldRet" /\ Here \notin Handler
    BY <1>3 DEF SwitchPoint, Handler
  <2>2. /\ Here \notin Handler \cup Inits \cup Midway \cup {"post3"}
        /\ q \in (Open \cup Closed) \ (Inits \cup Midway \cup {"post3"}) /\ q \notin Open
    BY <1>3, <2>1 DEF Handler, Inits, Midway, Open, Closed
  <2>3. on \in Tasks \cup {Boot} /\ on # Idle
    BY <1>1, <2>1, Distinct
  <2>4. q \in BootCode /\ q \in TaskCode
    BY <2>1 DEF BootCode, TaskCode, Closed
  <2>5. if_flag' = FALSE /\ q \notin Open
    BY <1>1, <2>2
  <2> QED BY <2>2, <2>3, <2>4, <2>5, PlainStep
<1> QED BY <1>2, <1>3 DEF SwitchPoint

\* While curr_task is NULL only sched_init's own lines have run.
LEMMA NullMeansInit ==
  ASSUME Inv, curr_task = NULL, scheduler_ready
  PROVE  InInit /\ on = Boot
<1>1. on # NULL
  BY Distinct DEF Inv, Stacks, Contexts
<1> QED BY <1>1 DEF Inv, Current

\* A tick inside sched_init: the rotation is done, then the processor is lost.
LEMMA CrashStep ==
  ASSUME Inv, NullDereference,
         UNCHANGED <<scheduler_ready, waiting_queue, reaper_queue, idle_task, if_flag, in_service>>
  PROVE  Inv'
<1>1. Stacks /\ Flags /\ Current /\ Queues /\ Placed
  BY DEF Inv
<1>2. /\ scheduler_ready /\ curr_task = NULL /\ running_queue' = Rotated /\ crashed' = TRUE
      /\ curr_task' = curr_task /\ on' = on /\ stack' = stack
  BY DEF NullDereference
<1>3. InInit /\ on = Boot
  BY <1>2, NullMeansInit
<1>4. SameQueues
  BY <1>1, <1>2, Rotation
<1>5. Here' = Here
  BY <1>2 DEF Here
<1>6. Stacks' /\ Flags'
  BY <1>1, <1>2, <1>5 DEF Stacks, Flags
<1>7. Current'
  BY <1>1, <1>2, <1>3, Distinct DEF Current, InInit
<1>8. Placed'
  <2>1. Queued' = Queued /\ Range(reaper_queue') = Range(reaper_queue)
    BY <1>4 DEF SameQueues
  <2> QED BY <1>1, <1>2, <1>5, <2>1 DEF Placed
<1> QED BY <1>4, <1>6, <1>7, <1>8 DEF Inv, SameQueues

\* sched_switch
LEMMA SwitchStep ==
  ASSUME Inv, ~crashed, NEW q, SwitchPoint(q), SchedSwitch(q)
  PROVE  Inv'
<1>1. UNCHANGED <<scheduler_ready, waiting_queue, reaper_queue, idle_task, if_flag, in_service>>
  BY DEF SchedSwitch
<1>2. CASE NotReady(q)
  <2>1. on = Boot
    BY <1>2 DEF NotReady, Inv, Current
  <2>2. Here # "post3"
    BY <2>1, Calling
  <2>3. SameQueues
    BY <1>1, <1>2, Unchanged DEF NotReady, queues, Inv
  <2> QED BY <1>1, <1>2, <2>2, <2>3, SwitchBack DEF NotReady
<1>3. CASE KeepsRunning(q)
  <2>1. SameQueues
    BY <1>1, <1>3, Rotation DEF KeepsRunning, Inv
  <2>2. Here # "post3"
    <3> SUFFICES ASSUME Here = "post3" PROVE FALSE
      OBVIOUS
    <3>1. on \in Tasks /\ on \in Range(reaper_queue)
      BY Calling
    <3>2. on # Boot /\ on # Idle /\ on # NULL
      BY <3>1, Distinct
    <3>3. curr_task = on
      BY <1>3, <3>2 DEF KeepsRunning, Inv, Current
    <3>4. SelectTask = Idle \/ SelectTask \in Range(running_queue)
      BY <1>3, <3>2, <3>3, Selected DEF KeepsRunning
    <3> QED BY <1>3, <3>1, <3>2, <3>3, <3>4 DEF KeepsRunning, Inv, Queues
  <2> QED BY <1>1, <1>3, <2>1, <2>2, SwitchBack DEF KeepsRunning
<1>4. CASE SwitchTo(q)
  BY <1>1, <1>4, SwitchAway
<1>5. CASE NullDereference
  BY <1>1, <1>5, CrashStep
<1> QED BY <1>2, <1>3, <1>4, <1>5 DEF SchedSwitch

-----------------------------------------------------------------------------
(* task_prelude, task_yield, task_sleep, task_wake_all_up, task_postlude.  *)

\* The steps that only touch the interrupt flag and the program point.
LEMMA FlagStep ==
  ASSUME Inv, NEW p, NEW q,
         \/ Sti(p, q) /\ q \in Open \ Inits
         \/ Cli(p, q) /\ q \in Closed \ (Midway \cup {"post3"}),
         p \in (Open \cup Closed) \ (Inits \cup Midway \cup {"post3"}),
         on = Boot => q \in BootCode, on = Idle => q \in IdleCode, on \in Tasks => q \in TaskCode
  PROVE  Inv'
<1>1. /\ ~crashed /\ Here = p /\ stack' = GoTo(q)
      /\ UNCHANGED <<scheduler_ready, queues, curr_task, idle_task, on, in_service, crashed>>
      /\ (if_flag' = TRUE /\ q \in Open) \/ (if_flag' = FALSE /\ q \notin Open)
  BY DEF Sti, Cli, At, Open, Closed, Inits
<1>2. SameQueues
  BY <1>1, Unchanged DEF Inv, queues
<1>3. Here \notin Handler \cup Inits \cup Midway \cup {"post3"}
  BY <1>1 DEF Handler, Open, Closed, Inits, Midway
<1>4. q \in (Open \cup Closed) \ (Inits \cup Midway \cup {"post3"})
  BY DEF Open, Closed, Inits, Midway
<1> QED BY <1>1, <1>2, <1>3, <1>4, PlainStep

LEMMA PlainCalls ==
  ASSUME Inv,
         \/ Prelude \/ YieldCall \/ YieldReturn
         \/ SleepCall \/ SleepReturn \/ WakeCall \/ WakeReturn \/ Finish
  PROVE  Inv'
<1>1. Stacks
  BY DEF Inv
<1>2. Here \notin Handler =>
        /\ on = Boot => Here \in BootCode
        /\ on = Idle => Here \in IdleCode
        /\ on \in Tasks => Here \in TaskCode
        /\ on \in Tasks \cup {Boot, Idle}
  BY <1>1, Whose
<1>3. on \in Tasks => on # Boot /\ on # Idle
  BY Distinct
<1>4. Boot # Idle
  BY Distinct
<1>5. CASE Prelude
  <2>1. PICK q \in {"work", "halt"} : Sti("prelude", q) /\ (q = "halt" <=> on = Idle)
    BY <1>5 DEF Prelude
  <2>2. Here = "prelude" /\ Here \notin Handler
    BY <2>1 DEF Sti, At, Handler
  <2>3. on # Boot
    BY <1>2, <2>2 DEF BootCode, Inits
  <2>4. q \in Open \ Inits /\ "prelude" \in (Open \cup Closed) \ (Inits \cup Midway \cup {"post3"})
    BY DEF Open, Inits, Closed, Midway
  <2>5. (on = Idle => q \in IdleCode) /\ (on \in Tasks => q \in TaskCode)
    BY <1>3, <2>1 DEF IdleCode, TaskCode
  <2> QED BY <2>1, <2>3, <2>4, <2>5, FlagStep
<1>6. CASE YieldReturn \/ SleepReturn \/ WakeReturn
  <2>1. PICK p \in {"yieldRet", "sleepRet", "wake"} : Sti(p, "work")
    BY <1>6 DEF YieldReturn, SleepReturn, WakeReturn
  <2>2. Here = p /\ Here \notin Handler /\ Here \notin IdleCode
    BY <2>1 DEF Sti, At, Handler, IdleCode
  <2>3. on # Idle
    BY <1>2, <2>2
  <2>4. /\ "work" \in Open \ Inits /\ p \in (Open \cup Closed) \ (Inits \cup Midway \cup {"post3"})
        /\ "work" \in BootCode /\ "work" \in TaskCode
    BY DEF Open, Inits, Closed, Midway, BootCode, TaskCode
  <2> QED BY <2>1, <2>3, <2>4, FlagStep
<1>7. CASE YieldCall \/ WakeCall \/ SleepCall \/ Finish
  <2>1. PICK q \in {"yield", "wake", "sleep1", "post1"} :
          Cli("work", q) /\ (q \in {"sleep1", "post1"} => on \in Tasks)
    BY <1>7 DEF YieldCall, WakeCall, SleepCall, Finish
  <2>2. Here = "work" /\ Here \notin Handler /\ Here \notin IdleCode
    BY <2>1 DEF Cli, At, Handler, IdleCode
  <2>3. on # Idle
    BY <1>2, <2>2
  <2>4. on = Boot => q \in BootCode
    BY <1>3, <2>1 DEF BootCode
  <2>5. /\ q \in Closed \ (Midway \cup {"post3"}) /\ q \in TaskCode
        /\ "work" \in (Open \cup Closed) \ (Inits \cup Midway \cup {"post3"})
    BY DEF Open, Inits, Closed, Midway, TaskCode
  <2> QED BY <2>1, <2>3, <2>4, <2>5, FlagStep
<1> QED BY <1>5, <1>6, <1>7

\* Only tasks execute task_sleep and task_postlude, and curr_task is the one that does.
OwnCode == {"sleep1", "sleep2", "sleepRet", "post1", "post2", "post3"}

LEMMA OwnFacts ==
  ASSUME Inv, Here \in OwnCode
  PROVE  /\ on \in Tasks /\ on # Boot /\ on # Idle /\ curr_task = on
         /\ scheduler_ready /\ ~InInit /\ ~if_flag /\ in_service = {} /\ Here \notin Handler
         /\ stack[on] = <<Here>>
         /\ on \in Queued <=> Here \notin Midway
         /\ on \in Range(reaper_queue) <=> Here = "post3"
<1>1. Stacks /\ Flags /\ Current /\ Placed
  BY DEF Inv
<1>2. Here \notin Handler /\ Here \notin BootCode /\ Here \notin IdleCode /\ Here \notin Open
  BY DEF OwnCode, Handler, BootCode, IdleCode, Open, Inits
<1>3. on \in Tasks
  BY <1>1, <1>2, Whose
<1>4. on # Boot /\ on # Idle
  BY <1>3, Distinct
<1>5. curr_task = on /\ scheduler_ready /\ ~InInit
  BY <1>1, <1>4 DEF Current
<1>6. ~if_flag /\ in_service = {}
  BY <1>1, <1>2 DEF Flags, Handler
<1>7. stack[on] = <<Here>>
  BY <1>1, <1>2, HereFacts
<1>8. on \in Queued <=> Here \notin Midway
  BY <1>1, <1>3 DEF Placed
<1>9. on \in Range(reaper_queue) <=> Here = "post3"
  <2>1. stack[on] # <<"dead">> /\ (stack[on] = <<"post3">> <=> Here = "post3")
    BY <1>7, Tuples DEF OwnCode
  <2> QED BY <1>1, <1>3, <2>1 DEF Placed
<1> QED BY <1>2, <1>3, <1>4, <1>5, <1>6, <1>7, <1>8, <1>9

\* A line of task_sleep or task_postlude that moves the running task between the queues,
\* and touches no other.
LEMMA MoveStep ==
  ASSUME Inv, ~crashed, Here \in OwnCode, NEW q \in OwnCode, stack' = GoTo(q), Queues',
         Queued' \ {on} = Queued \ {on},
         Range(reaper_queue') \ {on} = Range(reaper_queue) \ {on},
         on \in Queued' <=> q \notin Midway,
         on \in Range(reaper_queue') <=> q = "post3",
         UNCHANGED <<scheduler_ready, curr_task, idle_task, on, if_flag, in_service, crashed>>
  PROVE  Inv'
<1>1. Stacks /\ Flags /\ Current /\ Queues /\ Placed
  BY DEF Inv
<1>2. /\ on \in Tasks /\ on # Boot /\ on # Idle /\ curr_task = on
      /\ scheduler_ready /\ ~InInit /\ ~if_flag /\ in_service = {} /\ Here \notin Handler
      /\ stack[on] = <<Here>>
  BY OwnFacts
<1>3. q \in Open \cup Closed /\ q \in TaskCode /\ q \notin Open /\ q \notin {"work", "prelude", "dead"}
  BY DEF OwnCode, Closed, TaskCode, Open, Inits
<1>4. /\ Stacks' /\ Here' = q /\ stack'[on] = <<q>> /\ on' = on
      /\ \A c \in Contexts \ {on} : stack'[c] = stack[c]
      /\ stack'[Boot][1] = stack[Boot][1]
  BY <1>1, <1>2, <1>3, MoveOn
<1>5. Flags'
  BY <1>1, <1>2, <1>3, <1>4 DEF Flags
<1>6. Current'
  <2>1. stack'[Idle] = stack[Idle]
    BY <1>2, <1>4 DEF Contexts
  <2> QED BY <1>1, <1>2, <1>4, <2>1 DEF Current, InInit
<1>7. Placed'
  <2> SUFFICES ASSUME NEW t \in Tasks
               PROVE  /\ t \in Queued' => stack'[t] # <<>>
                      /\ on = t \/ stack'[t] \notin NotBegun =>
                           (t \notin Queued' <=> on = t /\ Here' \in Midway)
                      /\ t \in Range(reaper_queue') <=>
                           stack'[t] = <<"dead">> \/ (on = t /\ stack'[t] = <<"post3">>)
    BY <1>4 DEF Placed
  <2>1. CASE on = t
    <3>1. stack'[t] # <<>> /\ stack'[t] # <<"dead">> /\ (stack'[t] = <<"post3">> <=> q = "post3")
      BY <1>3, <1>4, <2>1, Tuples
    <3> QED BY <1>4, <2>1, <3>1
  <2>2. CASE on # t
    <3>1. stack'[t] = stack[t]
      BY <1>4, <2>2 DEF Contexts
    <3>2. (t \in Queued' <=> t \in Queued) /\ (t \in Range(reaper_queue') <=> t \in Range(reaper_queue))
      BY <2>2
    <3> QED BY <1>1, <2>2, <3>1, <3>2 DEF Placed
  <2> QED BY <2>1, <2>2
<1> QED BY <1>4, <1>5, <1>6, <1>7 DEF Inv

\* task_sleep and task_postlude take the task out of its queue ...
LEMMA RemoveStep ==
  ASSUME Inv, SleepRemove \/ PostRemove
  PROVE  Inv'
<1>1. PICK q \in Midway : stack' = GoTo(q)
  BY DEF SleepRemove, PostRemove, Midway
<1>2. /\ ~crashed /\ Here \in OwnCode /\ Unschedule(curr_task)
      /\ UNCHANGED <<scheduler_ready, curr_task, idle_task, on, if_flag, in_service, crashed>>
  BY DEF SleepRemove, PostRemove, At, OwnCode
<1>3. on \in Tasks /\ curr_task = on
  BY <1>2, OwnFacts
<1>4. /\ Queue(running_queue') /\ Range(running_queue') = Range(running_queue) \ {on}
      /\ Queue(waiting_queue') /\ Range(waiting_queue') = Range(waiting_queue) \ {on}
      /\ Queue(reaper_queue') /\ Range(reaper_queue') = Range(reaper_queue) \ {on}
  BY <1>2, <1>3, WithoutFacts DEF Inv, Queues, Unschedule
<1>5. Queues'
  BY <1>4 DEF Inv, Queues
<1>6. Queued' = Queued \ {on}
  BY <1>4 DEF Queued
<1>7. q \in OwnCode /\ q # "post3"
  BY DEF Midway, OwnCode
<1> QED BY <1>1, <1>2, <1>4, <1>5, <1>6, <1>7, MoveStep

\* ... and put it into another.
LEMMA SleepAddStep ==
  ASSUME Inv, SleepAdd
  PROVE  Inv'
<1>1. /\ ~crashed /\ Here = "sleep2" /\ Here \in OwnCode /\ Here \in Midway /\ stack' = GoTo("sleepRet")
      /\ UNCHANGED <<scheduler_ready, curr_task, idle_task, on, if_flag, in_service, crashed,
                     running_queue, reaper_queue>>
  BY DEF SleepAdd, At, OwnCode, Midway
<1>2. on \in Tasks /\ curr_task = on /\ on \notin Queued
  BY <1>1, OwnFacts
<1>3. Queue(waiting_queue') /\ Range(waiting_queue') = Range(waiting_queue) \cup {on}
  BY <1>2, AddFacts DEF Inv, Queues, Queued, SleepAdd
<1>4. Queues'
  BY <1>1, <1>2, <1>3 DEF Inv, Queues, Queued
<1>5. Queued' = Queued \cup {on}
  BY <1>1, <1>3 DEF Queued
<1>6. on \notin Range(reaper_queue')
  BY <1>1, <1>2 DEF Queued
<1>7. "sleepRet" \in OwnCode /\ "sleepRet" \notin Midway
  BY DEF Midway, OwnCode
<1> QED BY <1>1, <1>4, <1>5, <1>6, <1>7, MoveStep

LEMMA PostAddStep ==
  ASSUME Inv, PostAdd
  PROVE  Inv'
<1>1. /\ ~crashed /\ Here = "post2" /\ Here \in OwnCode /\ Here \in Midway /\ stack' = GoTo("post3")
      /\ UNCHANGED <<scheduler_ready, curr_task, idle_task, on, if_flag, in_service, crashed,
                     running_queue, waiting_queue>>
  BY DEF PostAdd, At, OwnCode, Midway
<1>2. on \in Tasks /\ curr_task = on /\ on \notin Queued
  BY <1>1, OwnFacts
<1>3. Queue(reaper_queue') /\ Range(reaper_queue') = Range(reaper_queue) \cup {on}
  BY <1>2, AddFacts DEF Inv, Queues, Queued, PostAdd
<1>4. Queues'
  BY <1>1, <1>2, <1>3 DEF Inv, Queues, Queued
<1>5. Queued' = Queued \cup {on}
  BY <1>1, <1>3 DEF Queued
<1>6. "post3" \in OwnCode /\ "post3" \notin Midway
  BY DEF Midway, OwnCode
<1> QED BY <1>1, <1>3, <1>4, <1>5, <1>6, MoveStep

\* task_wake_all_up moves a node from the waiting queue to the running one.
LEMMA WakeStep ==
  ASSUME Inv, WakeOne
  PROVE  Inv'
<1>1. Stacks /\ Flags /\ Current /\ Queues /\ Placed
  BY DEF Inv
<1>2. /\ Here = "wake" /\ waiting_queue # <<>>
      /\ waiting_queue' = Tail(waiting_queue)
      /\ running_queue' = QueueAdd(running_queue, Head(waiting_queue))
      /\ UNCHANGED <<scheduler_ready, reaper_queue, curr_task, idle_task, on, stack, if_flag,
                     in_service, crashed>>
  BY DEF WakeOne, At
<1>3. on # Idle
  BY <1>1, <1>2, Whose DEF Handler, IdleCode
<1>4. /\ Head(waiting_queue) \in Tasks /\ Head(waiting_queue) \in Range(waiting_queue)
      /\ Queue(waiting_queue') /\ Range(waiting_queue') = Range(waiting_queue) \ {Head(waiting_queue)}
  BY <1>1, <1>2, HeadFacts DEF Queues
<1>5. Head(waiting_queue) \notin Range(running_queue)
  BY <1>1, <1>4 DEF Queues
<1>6. /\ Queue(running_queue')
      /\ Range(running_queue') = Range(running_queue) \cup {Head(waiting_queue)}
  BY <1>1, <1>2, <1>4, <1>5, AddFacts DEF Queues
<1>7. Queues'
  BY <1>1, <1>2, <1>4, <1>6 DEF Queues
<1>8. Queued' = Queued
  BY <1>2, <1>4, <1>6 DEF Queued
<1>9. Here' = Here
  BY <1>2 DEF Here
<1>10. Stacks' /\ Flags'
  BY <1>1, <1>2, <1>9 DEF Stacks, Flags
<1>11. Current'
  BY <1>1, <1>2, <1>3 DEF Current, InInit
<1>12. Placed'
  BY <1>1, <1>2, <1>8, <1>9 DEF Placed
<1> QED BY <1>7, <1>10, <1>11, <1>12 DEF Inv

-----------------------------------------------------------------------------
(* kernel_task_create, sched_schedule, sched_init.                         *)

LEMMA CreateStep ==
  ASSUME Inv, NEW t \in Tasks, Create(t)
  PROVE  Inv'
<1>1. Stacks /\ Flags /\ Current /\ Queues /\ Placed
  BY DEF Inv
<1>2. /\ Here = "work" /\ stack[t] = <<>> /\ stack' = [stack EXCEPT ![t] = FreshStack]
      /\ UNCHANGED <<scheduler_ready, queues, curr_task, idle_task, on, if_flag, in_service, crashed>>
  BY DEF Create, At
<1>3. t \in Contexts /\ t # on /\ t # Boot /\ t # Idle /\ t # Reaper
  BY <1>1, <1>2, HereFacts, Distinct DEF Contexts
<1>4. FreshStack \in Seq(Points) /\ FreshStack # <<>> /\ FreshStack[1] = "prelude"
  BY One DEF FreshStack, Points
<1>5. /\ stack' \in [Contexts -> Seq(Points)] /\ stack'[t] = FreshStack
      /\ \A c \in Contexts \ {t} : stack'[c] = stack[c]
  BY <1>1, <1>2, <1>3, <1>4 DEF Stacks
<1>6. Boot \in Contexts /\ Idle \in Contexts /\ Reaper \in Contexts /\ Tasks \subseteq Contexts
      /\ on \in Contexts
  BY <1>1 DEF Contexts, Stacks
<1>7. stack'[on] = stack[on] /\ stack'[Boot] = stack[Boot] /\ stack'[Idle] = stack[Idle]
      /\ stack'[Reaper] = stack[Reaper] /\ on' = on
  BY <1>2, <1>3, <1>5, <1>6
<1>8. Here' = Here
  BY <1>7 DEF Here
<1>9. Stacks'
  <2>1. stack'[t] \in Resting /\ stack'[t][1] \in TaskCode
    BY <1>4, <1>5 DEF Resting, NotBegun, TaskCode, Closed
  <2> QED BY <1>1, <1>5, <1>6, <1>7, <2>1 DEF Stacks
<1>10. Flags'
  BY <1>1, <1>2, <1>8 DEF Flags
<1>11. SameQueues
  BY <1>1, <1>2, Unchanged DEF queues
<1>12. Current'
  BY <1>1, <1>2, <1>7, <1>11 DEF Current, InInit, SameQueues
<1>13. Placed'
  <2>1. FreshStack # <<"dead">> /\ FreshStack # <<"post3">>
    BY Tuples DEF FreshStack
  <2>2. Here \notin Midway /\ Here' \notin Midway
    BY <1>2, <1>8 DEF Midway
  <2>3. ASSUME NEW u \in Tasks
        PROVE  /\ stack[u] # <<>> => stack'[u] # <<>>
               /\ on = u \/ (stack'[u] \in NotBegun <=> stack[u] \in NotBegun)
               /\ stack'[u] = <<"dead">> <=> stack[u] = <<"dead">>
               /\ stack'[u] = <<"post3">> <=> stack[u] = <<"post3">>
    <3>1. CASE u = t
      BY <1>2, <1>4, <1>5, <2>1, <3>1 DEF NotBegun
    <3>2. CASE u # t
      BY <1>5, <1>6, <3>2
    <3> QED BY <3>1, <3>2
  <2> QED BY <1>1, <1>7, <1>11, <2>2, <2>3, SamePlaces
<1> QED BY <1>9, <1>10, <1>11, <1>12, <1>13 DEF Inv, SameQueues

LEMMA ScheduleStep ==
  ASSUME Inv, NEW t \in Tasks, Schedule(t)
  PROVE  Inv'
<1>1. Stacks /\ Flags /\ Current /\ Queues /\ Placed
  BY DEF Inv
<1>2. /\ Here = "work" /\ stack[t] = FreshStack /\ t \notin Queued
      /\ running_queue' = QueueAdd(running_queue, t)
      /\ UNCHANGED <<scheduler_ready, waiting_queue, reaper_queue, curr_task, idle_task, on, stack,
                     if_flag, in_service, crashed>>
  BY DEF Schedule, At
<1>3. stack[on] = <<"work">> /\ on # Idle
  BY <1>1, <1>2, HereFacts, Whose DEF Handler, IdleCode
<1>4. t # on /\ FreshStack # <<>>
  BY <1>2, <1>3, Tuples DEF FreshStack
<1>5. Queue(running_queue') /\ Range(running_queue') = Range(running_queue) \cup {t}
  BY <1>1, <1>2, AddFacts DEF Queues, Queued
<1>6. Queues'
  BY <1>1, <1>2, <1>5 DEF Queues, Queued
<1>7. Queued' = Queued \cup {t} /\ Range(reaper_queue') = Range(reaper_queue)
  BY <1>2, <1>5 DEF Queued
<1>8. Here' = Here
  BY <1>2 DEF Here
<1>9. Stacks' /\ Flags'
  BY <1>1, <1>2, <1>8 DEF Stacks, Flags
<1>10. Current'
  BY <1>1, <1>2, <1>3 DEF Current, InInit
<1>11. Placed'
  <2> SUFFICES ASSUME NEW u \in Tasks
               PROVE  /\ u \in Queued' => stack[u] # <<>>
                      /\ on = u \/ stack[u] \notin NotBegun =>
                           (u \notin Queued' <=> on = u /\ Here \in Midway)
                      /\ u \in Range(reaper_queue') <=>
                           stack[u] = <<"dead">> \/ (on = u /\ stack[u] = <<"post3">>)
    BY <1>2, <1>8 DEF Placed
  <2>1. CASE u = t
    <3>1. stack[u] \in NotBegun /\ on # u /\ stack[u] # <<>>
      BY <1>2, <1>4, <2>1 DEF NotBegun
    <3> QED BY <1>1, <1>7, <2>1, <3>1 DEF Placed
  <2>2. CASE u # t
    BY <1>1, <1>7, <2>2 DEF Placed
  <2> QED BY <2>1, <2>2
<1> QED BY <1>6, <1>9, <1>10, <1>11 DEF Inv

\* A line of sched_init: the boot code goes from one point to another with interrupts
\* enabled, and may have made the stacks of the idle task and of the reaper.
LEMMA InitLine ==
  ASSUME Inv, on = Boot, Here \in Inits \cup {"work"}, NEW q \in Inits \cup {"work"},
         stack' \in [Contexts -> Seq(Points)], stack'[Boot] = <<q>>,
         stack'[Idle] \in {stack[Idle], FreshStack},
         stack'[Reaper] \in {stack[Reaper], FreshStack},
         \A t \in Tasks : stack'[t] = stack[t],
         UNCHANGED <<queues, on, if_flag, in_service, crashed>>,
         scheduler_ready' \in BOOLEAN, Current'
  PROVE  Inv'
<1>1. Stacks /\ Flags /\ Current /\ Queues /\ Placed
  BY DEF Inv
<1>2. stack'[on'] = <<q>> /\ stack'[Boot] # <<>> /\ stack'[Boot][1] = q /\ on' = Boot
  BY One
<1>3. Here' = q
  BY <1>2, One DEF Here
<1>4. FreshStack # <<>> /\ FreshStack[1] = "prelude"
  BY One DEF FreshStack
<1>5. Stacks'
  <2>1. stack'[on'] \in Executing /\ q \in BootCode
    BY <1>2, Tuples DEF Open, BootCode
  <2>2. ASSUME NEW c \in Contexts \ {Boot} PROVE stack'[c] \in Resting
    BY <1>1 DEF Stacks, Contexts, Resting, NotBegun
  <2>3. stack'[Idle] # <<>> => stack'[Idle][1] \in IdleCode
    BY <1>1, <1>4 DEF Stacks, IdleCode
  <2>4. stack'[Reaper] \in NotBegun
    BY <1>1 DEF Stacks, NotBegun
  <2> QED BY <1>1, <1>2, <2>1, <2>2, <2>3, <2>4 DEF Stacks
<1>6. Flags'
  <2>1. Here \in Open /\ q \in Open /\ Here \notin {"ack", "eoi"}
    BY DEF Open, Inits
  <2> QED BY <1>1, <1>3, <2>1 DEF Flags
<1>7. SameQueues
  BY <1>1, Unchanged
<1>8. Placed'
  <2>1. Here \notin Midway /\ Here' \notin Midway
    BY <1>3 DEF Inits, Midway
  <2> QED BY <1>1, <1>2, <1>7, <2>1, SamePlaces
<1> QED BY <1>5, <1>6, <1>7, <1>8 DEF Inv, SameQueues

LEMMA InitSteps ==
  ASSUME Inv, InitReady \/ InitIdle \/ InitReaper \/ InitCurr
  PROVE  Inv'
<1>1. Stacks /\ Flags /\ Current /\ Queues /\ Placed
  BY DEF Inv
<1>2. Here \in Inits \cup {"work"} /\ UNCHANGED <<queues, on, if_flag, in_service, crashed>>
  BY DEF InitReady, InitIdle, InitReaper, InitCurr, At, Inits
<1>3. stack[on] = <<Here>> /\ stack[on][1] = Here
  <2>1. Here \notin Handler
    BY <1>2 DEF Inits, Handler
  <2> QED BY <1>1, <2>1, HereFacts, One
<1>4. on = Boot
  <2>1. Here \in Inits => Here \notin Handler /\ Here \notin IdleCode /\ Here \notin TaskCode
    BY DEF Inits, Handler, IdleCode, TaskCode, Closed
  <2> QED BY <1>1, <2>1, Whose DEF InitReady, InitIdle, InitReaper, InitCurr, At, Inits
<1>5. ASSUME NEW q \in Inits \cup {"work"}
      PROVE  /\ GoTo(q) \in [Contexts -> Seq(Points)] /\ GoTo(q)[Boot] = <<q>>
             /\ \A c \in Contexts \ {Boot} : GoTo(q)[c] = stack[c]
  <2>1. GoTo(q) = [stack EXCEPT ![Boot] = <<q>>]
    BY <1>3, <1>4, One DEF GoTo
  <2>2. <<q>> \in Seq(Points)
    BY DEF Points, Inits
  <2> QED BY <1>1, <2>1, <2>2 DEF Stacks, Contexts
<1>6. FreshStack \in Seq(Points) /\ FreshStack # <<>>
  BY One DEF FreshStack, Points
<1>7. Boot \in Contexts /\ Idle \in Contexts \ {Boot} /\ Reaper \in Contexts \ {Boot, Idle}
      /\ Tasks \subseteq Contexts \ {Boot, Idle, Reaper}
  BY Distinct DEF Contexts
<1>8. \A q : <<q>>[1] = q
  BY One
<1>9. CASE InitReady
  <2>1. stack' = GoTo("init1") /\ scheduler_ready' = TRUE /\ UNCHANGED <<curr_task, idle_task>>
        /\ ~scheduler_ready /\ ~crashed
    BY <1>9 DEF InitReady, At
  <2>2. /\ stack' \in [Contexts -> Seq(Points)] /\ stack'[Boot] = <<"init1">>
        /\ \A c \in Contexts \ {Boot} : stack'[c] = stack[c]
    BY <1>5, <2>1 DEF Inits
  <2>3. stack'[Boot][1] = "init1"
    BY <1>8, <2>2
  <2>4. Current'
    BY <1>1, <1>2, <1>4, <1>7, <2>1, <2>2, <2>3, Distinct DEF Current, InInit, Inits
  <2> QED BY <1>2, <1>4, <1>7, <2>1, <2>2, <2>4, InitLine DEF Inits
<1>10. CASE InitIdle
  <2>1. stack' = [GoTo("init2") EXCEPT ![Idle] = FreshStack] /\ idle_task' = Idle
        /\ UNCHANGED <<scheduler_ready, curr_task>> /\ Here = "init1"
    BY <1>10 DEF InitIdle, At
  <2>2. /\ stack' \in [Contexts -> Seq(Points)] /\ stack'[Boot] = <<"init2">>
        /\ stack'[Idle] = FreshStack
        /\ \A c \in Contexts \ {Boot, Idle} : stack'[c] = stack[c]
    BY <1>5, <1>6, <1>7, <2>1 DEF Inits
  <2>3. stack'[Boot][1] = "init2"
    BY <1>8, <2>2
  <2>4. InInit
    BY <1>3, <1>4, <2>1 DEF InInit, Inits
  <2>5. Current'
    BY <1>1, <1>2, <1>4, <1>6, <2>1, <2>2, <2>3, <2>4, Distinct DEF Current, InInit, Inits
  <2> QED BY <1>1, <1>2, <1>4, <1>7, <2>1, <2>2, <2>5, InitLine DEF Inits, Flags
<1>11. CASE InitReaper
  <2>1. stack' = [GoTo("init3") EXCEPT ![Reaper] = FreshStack]
        /\ UNCHANGED <<scheduler_ready, curr_task, idle_task>> /\ Here = "init2"
    BY <1>11 DEF InitReaper, At
  <2>2. /\ stack' \in [Contexts -> Seq(Points)] /\ stack'[Boot] = <<"init3">>
        /\ stack'[Reaper] = FreshStack
        /\ \A c \in Contexts \ {Boot, Reaper} : stack'[c] = stack[c]
    BY <1>5, <1>6, <1>7, <2>1 DEF Inits
  <2>3. stack'[Boot][1] = "init3"
    BY <1>8, <2>2
  <2>4. InInit /\ stack[Boot][1] = "init2"
    BY <1>3, <1>4, <2>1 DEF InInit, Inits
  <2>5. Current'
    BY <1>1, <1>2, <1>4, <1>7, <2>1, <2>2, <2>3, <2>4, Distinct DEF Current, InInit, Inits
  <2> QED BY <1>1, <1>2, <1>4, <1>7, <2>1, <2>2, <2>5, InitLine DEF Inits, Flags
<1>12. CASE InitCurr
  <2>1. stack' = GoTo("work") /\ curr_task' = Boot
        /\ UNCHANGED <<scheduler_ready, idle_task>> /\ Here = "init3" /\ ~crashed
    BY <1>12 DEF InitCurr, At
  <2>2. /\ stack' \in [Contexts -> Seq(Points)] /\ stack'[Boot] = <<"work">>
        /\ \A c \in Contexts \ {Boot} : stack'[c] = stack[c]
    BY <1>5, <2>1
  <2>3. stack'[Boot][1] = "work"
    BY <1>8, <2>2
  <2>4. InInit /\ stack[Boot][1] = "init3"
    BY <1>3, <1>4, <2>1 DEF InInit, Inits
  <2>5. Current'
    BY <1>1, <1>2, <1>4, <1>7, <2>1, <2>2, <2>3, <2>4, Distinct DEF Current, InInit, Inits
  <2> QED BY <1>1, <1>2, <1>4, <1>7, <2>1, <2>2, <2>5, InitLine DEF Flags
<1> QED BY <1>9, <1>10, <1>11, <1>12

-----------------------------------------------------------------------------
(* The invariant is inductive.                                             *)

LEMMA InitInv == Init => Inv
<1> SUFFICES ASSUME Init PROVE Inv
  OBVIOUS
<1>1. /\ Boot \in Contexts \ {Idle, Reaper} /\ Idle \in Contexts /\ Reaper \in Contexts
      /\ Tasks \subseteq Contexts \ {Boot}
  BY Distinct DEF Contexts
<1>2. /\ on = Boot /\ if_flag = TRUE /\ in_service = {} /\ crashed = FALSE /\ scheduler_ready = FALSE
      /\ curr_task = NULL /\ idle_task = NULL
      /\ running_queue = <<>> /\ waiting_queue = <<>> /\ reaper_queue = <<>>
      /\ stack = [c \in Contexts |-> IF c = Boot THEN <<"work">> ELSE <<>>]
  BY DEF Init
<1>3. stack[Boot] = <<"work">> /\ \A c \in Contexts \ {Boot} : stack[c] = <<>>
  BY <1>1, <1>2
<1>4. Here = "work" /\ stack[Boot][1] = "work" /\ stack[Boot] # <<>>
  BY <1>2, <1>3, One DEF Here
<1>5. stack \in [Contexts -> Seq(Points)]
  <2>1. <<"work">> \in Seq(Points) /\ <<>> \in Seq(Points)
    <3>1. <<"work">> \in Seq(Points)
      BY Tuples DEF Open
    <3>2. <<>> \in Seq(Points)
      OBVIOUS
    <3> QED BY <3>1, <3>2
  <2> QED BY <1>2, <2>1
<1>6. Stacks
  <2>1. stack[on] \in Executing
    BY <1>2, <1>3, Tuples DEF Open
  <2> QED BY <1>1, <1>2, <1>3, <1>4, <1>5, <2>1 DEF Stacks, Resting, NotBegun, BootCode
<1>7. Flags
  BY <1>2, <1>4 DEF Flags, Open
<1>8. Current
  BY <1>1, <1>2, <1>4, Distinct DEF Current, InInit, Inits
<1>9. Range(running_queue) = {} /\ Range(waiting_queue) = {} /\ Range(reaper_queue) = {}
  BY <1>2 DEF Range
<1>10. Queues
  <2>1. <<>> \in Seq(Tasks) /\ IsInjective(<<>>)
    BY DEF IsInjective
  <2> QED BY <1>2, <1>9, <2>1 DEF Queues, Queue
<1>11. Placed
  <2>1. <<>> # <<"dead">>
    OBVIOUS
  <2> QED BY <1>1, <1>2, <1>3, <1>9, <2>1 DEF Placed, Queued, NotBegun
<1> QED BY <1>6, <1>7, <1>8, <1>10, <1>11 DEF Inv

LEMMA NextInv == Inv /\ [Next]_vars => Inv'
<1> SUFFICES ASSUME Inv, [Next]_vars PROVE Inv'
  OBVIOUS
<1>1. CASE UNCHANGED vars
  <2>1. Stacks' /\ Flags' /\ Current' /\ Queues' /\ Placed'
    <3>1. Here' = Here /\ Queued' = Queued /\ (InInit' <=> InInit)
      BY <1>1 DEF Here, Queued, InInit, vars, queues
    <3> QED BY <1>1, <3>1 DEF Inv, Stacks, Flags, Current, Queues, Placed, vars, queues
  <2> QED BY <2>1 DEF Inv
<1>2. CASE Next
  <2>1. ASSUME NEW v \in Vectors, Interrupt(v) PROVE Inv'
    BY <2>1, InterruptStep
  <2>2. CASE EarlyEoi
    <3>1. /\ ~crashed /\ Here = "ack" /\ stack' = GoTo("tick") /\ in_service' = {}
          /\ UNCHANGED <<scheduler_ready, queues, curr_task, idle_task, on, if_flag, crashed>>
      BY <2>2 DEF EarlyEoi, At
    <3>2. SameQueues
      BY <3>1, Unchanged DEF Inv, queues
    <3> QED BY <3>1, <3>2, HandlerStep DEF Handler
  <2>3. CASE EoiAndReturn
    BY <2>3, EoiStep
  <2>4. CASE Tick \/ YieldSwitch \/ PostSwitch
    BY <2>4, SwitchStep DEF Tick, YieldSwitch, PostSwitch, At, SwitchPoint
  <2>5. CASE Prelude \/ YieldCall \/ YieldReturn
    BY <2>5, PlainCalls
  <2>6. CASE SleepCall \/ SleepReturn \/ WakeCall \/ WakeReturn \/ Finish
    BY <2>6, PlainCalls
  <2>7. CASE SleepRemove \/ PostRemove
    BY <2>7, RemoveStep
  <2>8. CASE SleepAdd
    BY <2>8, SleepAddStep
  <2>9. CASE PostAdd
    BY <2>9, PostAddStep
  <2>10. CASE WakeOne
    BY <2>10, WakeStep
  <2>11. ASSUME NEW t \in Tasks, Create(t) \/ Schedule(t) PROVE Inv'
    BY <2>11, CreateStep, ScheduleStep
  <2>12. CASE InitReady \/ InitIdle \/ InitReaper \/ InitCurr
    BY <2>12, InitSteps
  <2> QED BY <1>2, <2>1, <2>2, <2>3, <2>4, <2>5, <2>6, <2>7, <2>8, <2>9, <2>10, <2>11, <2>12
          DEF Next, Call, Proceed
<1> QED BY <1>1, <1>2

LEMMA Invariance == Spec => []Inv
BY InitInv, NextInv, PTL DEF Spec

-----------------------------------------------------------------------------
(* What the scheduler keeps.                                               *)

LEMMA HoldersFacts ==
  ASSUME Queues, NEW t \in Tasks
  PROVE  /\ 1 \in Holders(t) <=> t \in Range(running_queue)
         /\ 2 \in Holders(t) <=> t \in Range(waiting_queue)
         /\ 3 \in Holders(t) <=> t \in Range(reaper_queue)
         /\ Holders(t) \in {{}, {1}, {2}, {3}}
<1>1. queues[1] = running_queue /\ queues[2] = waiting_queue /\ queues[3] = reaper_queue
  BY DEF queues
<1>2. /\ 1 \in Holders(t) <=> t \in Range(running_queue)
      /\ 2 \in Holders(t) <=> t \in Range(waiting_queue)
      /\ 3 \in Holders(t) <=> t \in Range(reaper_queue)
      /\ Holders(t) \subseteq {1, 2, 3}
  BY <1>1 DEF Holders
<1> HIDE DEF Holders
<1>3. ~(1 \in Holders(t) /\ 2 \in Holders(t)) /\ ~(1 \in Holders(t) /\ 3 \in Holders(t))
      /\ ~(2 \in Holders(t) /\ 3 \in Holders(t))
  BY <1>2 DEF Queues
<1> QED BY <1>2, <1>3

\* The variables of kernel/src/tasks/sched.c and the stacks have their types: a queue holds
\* each task once, no stack is deeper than interrupted code and the handler.
THEOREM TypeCorrect == Spec => []TypeOK
<1>1. Inv => TypeOK
  <2> SUFFICES ASSUME Inv PROVE TypeOK
    OBVIOUS
  <2>1. Stacks /\ Flags /\ Current /\ Queues
    BY DEF Inv
  <2>2. ASSUME NEW q \in {running_queue, waiting_queue, reaper_queue}
        PROVE  Range(q) \subseteq Tasks /\ IsInjective(q)
    <3>1. q \in Seq(Tasks) /\ IsInjective(q)
      BY <2>1 DEF Queues, Queue
    <3> QED BY <3>1 DEF Range
  <2>3. curr_task \in Tasks \cup {Boot, Idle, NULL}
    BY <2>1 DEF Current, Stacks, Contexts
  <2>4. ASSUME NEW c \in Contexts
        PROVE  Len(stack[c]) <= 2 /\ Range(stack[c]) \subseteq Points
    <3>1. stack[c] \in Seq(Points)
      BY <2>1 DEF Stacks
    <3>2. stack[c] \in Executing \cup Resting
      BY <2>1 DEF Stacks
    <3>3. stack[c] = <<>> \/ (\E p : stack[c] = <<p>>) \/ (\E b, h : stack[c] = <<b, h>>)
      BY <3>2 DEF Executing, Resting, NotBegun, FreshStack
    <3>4. Len(stack[c]) <= 2
      <4>1. CASE stack[c] = <<>>
        BY <4>1
      <4>2. ASSUME NEW p, stack[c] = <<p>> PROVE Len(stack[c]) <= 2
        <5>1. Len(<<p>>) <= 2
          OBVIOUS
        <5> QED BY <4>2, <5>1, Zenon
      <4>3. ASSUME NEW b, NEW h, stack[c] = <<b, h>> PROVE Len(stack[c]) <= 2
        <5>1. Len(<<b, h>>) <= 2
          OBVIOUS
        <5> QED BY <4>3, <5>1, Zenon
      <4> QED BY <3>3, <4>1, <4>2, <4>3
    <3> QED BY <3>1, <3>4 DEF Range
  <2>5. stack[on] # <<>> /\ on \in Contexts
    BY <2>1, HereFacts
  <2>6. idle_task \in {Idle, NULL}
    BY <2>1 DEF Current
  <2> QED BY <2>1, <2>2, <2>3, <2>4, <2>5, <2>6 DEF TypeOK, Flags
<1> QED BY <1>1, Invariance, PTL

\* task_sleep, task_wake_all_up, task_postlude and the rotation of sched_select_task lose no
\* task and list none twice, at whatever instruction a tick falls.
THEOREM Placement == Spec => []EveryTaskPlaced
<1>1. Inv => EveryTaskPlaced
  <2> SUFFICES ASSUME Inv, NEW t \in Tasks
               PROVE  /\ Cardinality(Holders(t)) <= 1
                      /\ stack[t] \notin {<<>>, FreshStack} =>
                           (Holders(t) = {} <=> on = t /\ Here \in {"sleep2", "post2"})
    BY DEF EveryTaskPlaced
  <2>1. /\ Holders(t) \in {{}, {1}, {2}, {3}}
        /\ Holders(t) = {} <=> t \notin Queued
    BY HoldersFacts DEF Inv, Queued
  <2>2. Cardinality(Holders(t)) <= 1
    <3>1. Cardinality({}) = 0 /\ Cardinality({1}) = 1 /\ Cardinality({2}) = 1 /\ Cardinality({3}) = 1
      BY FS_EmptySet, FS_Singleton
    <3> QED BY <2>1, <3>1
  <2> QED BY <2>1, <2>2 DEF Inv, Placed, NotBegun, Midway
<1> QED BY <1>1, Invariance, PTL

\* sched_select_task never chooses a task whose task_postlude has called the scheduler.
THEOREM NoResurrection == Spec => []DeadNeverRuns
<1>1. Inv => DeadNeverRuns
  <2> SUFFICES ASSUME Inv, NEW t \in Tasks, stack[t] # <<>>, Last(stack[t]) = "dead"
               PROVE  on # t /\ Holders(t) = {3}
    BY DEF DeadNeverRuns
  <2>1. on # t
    BY HereFacts DEF Inv, Here, Open, Closed, Handler, Inits
  <2>2. stack[t] \in Resting
    BY <2>1 DEF Inv, Stacks, Contexts
  <2>3. ASSUME NEW b \in Open PROVE stack[t] # <<b, "eoi">>
    BY Two
  <2>4. stack[t] = <<"dead">>
    BY <2>2, <2>3, One DEF Resting, NotBegun, FreshStack
  <2>5. t \in Range(reaper_queue)
    BY <2>4 DEF Inv, Placed
  <2> QED BY <2>1, <2>5, HoldersFacts DEF Inv
<1> QED BY <1>1, Invariance, PTL

\* The early EOI of isr_interrupt_handler's timer case lets the handler leave by switch_to:
\* whatever is switched to, code with interrupts enabled owes the local APIC nothing.
THEOREM TickSurvives == Spec => []TimerStaysAlive
<1>1. Inv => TimerStaysAlive
  BY DEF Inv, Flags, TimerStaysAlive, Open, Inits
<1> QED BY <1>1, Invariance, PTL

\* The NULL curr_task of sched_switch is read, if ever, by a tick inside sched_init.
THEOREM CrashIsEarly == Spec => []CrashOnlyInInit
<1>1. Inv => CrashOnlyInInit
  <2> SUFFICES ASSUME Inv, crashed PROVE Head(stack[Boot]) \in Inits
    BY DEF CrashOnlyInInit, Inits
  <2>1. stack[Boot][1] \in Inits
    BY DEF Inv, Current, InInit
  <2>2. stack[Boot] \in Seq(Points) /\ stack[Boot] # <<>>
    BY DEF Inv, Stacks, Contexts
  <2> QED BY <2>1, <2>2
<1> QED BY <1>1, Invariance, PTL

\* No interrupt handler of this kernel wakes a task, so the first switch to idle_task, by
\* sched_select_task on an empty running queue, is the last.
THEOREM IdleStays == Spec => IdleIsForever
<1>1. Inv /\ [Next]_vars => [on = Idle => on' = Idle]_vars
  <2> SUFFICES ASSUME Inv, Next, on = Idle PROVE on' = Idle
    BY DEF vars
  <2>1. ASSUME NEW q, SwitchTo(q) PROVE FALSE
    <3>1. scheduler_ready /\ curr_task # NULL /\ SelectTask # curr_task
      BY <2>1 DEF SwitchTo
    <3>2. curr_task = Idle /\ running_queue = <<>>
      BY <3>1, Selected DEF Inv, Current
    <3> QED BY <3>1, <3>2, Selected
  <2>2. ASSUME NEW q, SchedSwitch(q) PROVE on' = on
    BY <2>1, <2>2 DEF SchedSwitch, NotReady, KeepsRunning, NullDereference
  <2>3. CASE Call
    BY <2>3 DEF Call, YieldCall, SleepCall, WakeCall, Finish, InitReady, Create, Schedule, Cli
  <2>4. CASE Proceed
    BY <2>2, <2>4 DEF Proceed, EarlyEoi, Tick, EoiAndReturn, Prelude, YieldSwitch, YieldReturn,
         SleepRemove, SleepAdd, SleepReturn, WakeOne, WakeReturn, PostRemove, PostAdd, PostSwitch,
         InitIdle, InitReaper, InitCurr, Sti, Cli
  <2>5. CASE \E v \in Vectors : Interrupt(v)
    BY <2>5 DEF Interrupt
  <2> QED BY <2>3, <2>4, <2>5 DEF Next
<1> QED BY <1>1, Invariance, PTL DEF Spec, IdleIsForever
=============================================================================
