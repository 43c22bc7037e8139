------------------------------- MODULE Sched -------------------------------
(***************************************************************************)
(* The round-robin scheduler of kernel/src/tasks/sched.c on its single     *)
(* processor, together with the two pieces of machinery it stands on: the  *)
(* context switch of switch_to.asm and the interrupt entry of isr.asm and  *)
(* isr_interrupt_handler.                                                  *)
(*                                                                         *)
(* A context is a stack that can be executing: the boot code (which        *)
(* becomes dummy_task), the idle task, the reaper, and the Tasks that      *)
(* kernel_task_create makes.  stack[c] is the sequence of program points   *)
(* on c's stack, the innermost last; the processor executes the last point *)
(* of stack[on].  Each list call, cli and sti are steps of their own, so   *)
(* an interrupt can fall between any two of them whenever the interrupt    *)
(* flag is set.  One list call is not masked by the code: sched_schedule's *)
(* four stores run with interrupts on and are one step here all the same,  *)
(* so a tick among them is not modelled.                                   *)
(*                                                                         *)
(* Points: "work" is a task's (or the boot code's) own code, "halt" is the *)
(* hlt loop of idle_loop; every other point is inside a function of this   *)
(* file or inside the interrupt handler.                                   *)
(***************************************************************************)
EXTENDS Integers, Sequences, SequencesExt

CONSTANTS Tasks, Boot, Idle, Reaper, NULL

ASSUME ContextsAssumption ==
    /\ Cardinality({Boot, Idle, Reaper, NULL}) = 4
    /\ Tasks \cap {Boot, Idle, Reaper, NULL} = {}

VARIABLES
    scheduler_ready, running_queue, waiting_queue, reaper_queue,
    curr_task, idle_task,
    on,          \* the context whose stack the processor is on
    stack,       \* the program points of every context
    if_flag,     \* RFLAGS.IF
    in_service,  \* vectors the local APIC waits for an EOI of
    crashed      \* the processor loops in isr_exception_handler

queues == <<running_queue, waiting_queue, reaper_queue>>
vars == <<scheduler_ready, queues, curr_task, idle_task, on, stack,
          if_flag, in_service, crashed>>

Contexts == Tasks \cup {Boot, Idle, Reaper}
Vectors  == {"timer", "input"}
Points   == {"work", "halt", "prelude", "ack", "tick", "eoi",
             "yield", "yieldRet", "sleep1", "sleep2", "sleepRet",
             "wake", "post1", "post2", "post3", "dead",
             "init1", "init2", "init3"}

-----------------------------------------------------------------------------
(* Program points.                                                         *)

Here == Last(stack[on])

\* The processor is at p and goes on.
At(p) == ~crashed /\ Here = p

\* The innermost point of the running stack becomes p.
GoTo(p) == [stack EXCEPT ![on] = Append(Front(@), p)]

\* kernel_task_create: a stack that returns into task_prelude, then into the
\* entry function, then into task_postlude.
FreshStack == <<"prelude">>

Init ==
    /\ scheduler_ready = FALSE
    /\ running_queue = <<>> /\ waiting_queue = <<>> /\ reaper_queue = <<>>
    /\ curr_task = NULL /\ idle_task = NULL
    /\ on = Boot
    /\ stack = [c \in Contexts |-> IF c = Boot THEN <<"work">> ELSE <<>>]
    /\ if_flag = TRUE
    /\ in_service = {}
    /\ crashed = FALSE

-----------------------------------------------------------------------------
(* The queues: list_insert puts a task at the tail, list_remove takes it   *)
(* out of whichever queue holds it.                                        *)

Without(q, t) == IF t \in Range(q) THEN RemoveAt(q, CHOOSE i \in DOMAIN q : q[i] = t)
                 ELSE q

Unschedule(t) ==
    /\ running_queue' = Without(running_queue, t)
    /\ waiting_queue' = Without(waiting_queue, t)
    /\ reaper_queue'  = Without(reaper_queue, t)

Queued == Range(running_queue) \cup Range(waiting_queue) \cup Range(reaper_queue)

QueueAddFront(q, t) == <<t>> \o q

QueueAdd(q, t) == Append(q, t)

SelectOther == IF running_queue = <<>> \/ Head(running_queue) = curr_task
               THEN idle_task ELSE Head(running_queue)

SelectTask == IF running_queue = <<>> THEN idle_task ELSE Head(running_queue)

\* The head of the queue is taken out and put back behind the others.
Rotated == IF running_queue = <<>> THEN <<>>
           ELSE QueueAdd(Tail(running_queue), Head(running_queue))

-----------------------------------------------------------------------------
(* sched_switch, called at the current point; p is the point after it. The *)
(* debug line reads curr_task->pid, which faults on the NULL that          *)
(* curr_task holds until sched_init's last line; isr_exception_handler     *)
(* never returns.                                                          *)

NotReady(p) ==
    /\ ~scheduler_ready
    /\ stack' = GoTo(p)
    /\ UNCHANGED <<running_queue, curr_task, on, crashed>>

KeepsRunning(p) ==
    /\ scheduler_ready /\ SelectTask = curr_task
    /\ running_queue' = Rotated
    /\ stack' = GoTo(p)
    /\ UNCHANGED <<curr_task, on, crashed>>

SwitchTo(p) ==
    /\ scheduler_ready /\ SelectTask # curr_task /\ curr_task # NULL
    /\ running_queue' = Rotated
    /\ stack' = GoTo(p)
    /\ on' = SelectTask
    /\ curr_task' = SelectTask
    /\ UNCHANGED crashed

NullDereference ==
    /\ scheduler_ready /\ SelectTask # curr_task /\ curr_task = NULL
    /\ running_queue' = Rotated
    /\ crashed' = TRUE
    /\ UNCHANGED <<curr_task, on, stack>>

SchedSwitch(p) ==
    /\ NotReady(p) \/ KeepsRunning(p) \/ SwitchTo(p) \/ NullDereference
    /\ UNCHANGED <<scheduler_ready, waiting_queue, reaper_queue, idle_task,
                   if_flag, in_service>>

-----------------------------------------------------------------------------
(* Interrupts.  All of these vectors are of one priority class, so one is  *)
(* delivered only when none is in service.  Gates clear IF.                *)

Interrupt(v) ==
    /\ ~crashed /\ if_flag /\ in_service = {}
    /\ if_flag' = FALSE
    /\ in_service' = {v}
    /\ stack' = [stack EXCEPT ![on] =
                     Append(@, IF v = "timer" THEN "ack" ELSE "eoi")]
    /\ UNCHANGED <<scheduler_ready, queues, curr_task, idle_task, on, crashed>>

NoEarlyEoi ==
    /\ At("ack")
    /\ stack' = GoTo("tick")
    /\ UNCHANGED <<scheduler_ready, queues, curr_task, idle_task, on, if_flag,
                   in_service, crashed>>

\* The EOI the timer case sends before it may switch away.
EarlyEoi ==
    /\ At("ack")
    /\ in_service' = {}
    /\ stack' = GoTo("tick")
    /\ UNCHANGED <<scheduler_ready, queues, curr_task, idle_task, on, if_flag,
                   crashed>>

Tick == At("tick") /\ SchedSwitch("eoi")

\* The EOI every vector ends with, and the iretq that restores IF = 1.
EoiAndReturn ==
    /\ At("eoi")
    /\ in_service' = {}
    /\ if_flag' = TRUE
    /\ stack' = [stack EXCEPT ![on] = Front(@)]
    /\ UNCHANGED <<scheduler_ready, queues, curr_task, idle_task, on, crashed>>

-----------------------------------------------------------------------------
(* Steps that only touch the interrupt flag and the program point.         *)

Sti(p, q) ==
    /\ At(p)
    /\ if_flag' = TRUE
    /\ stack' = GoTo(q)
    /\ UNCHANGED <<scheduler_ready, queues, curr_task, idle_task, on,
                   in_service, crashed>>

Cli(p, q) ==
    /\ At(p)
    /\ if_flag' = FALSE
    /\ stack' = GoTo(q)
    /\ UNCHANGED <<scheduler_ready, queues, curr_task, idle_task, on,
                   in_service, crashed>>

\* task_prelude: the first thing a new task executes.
Prelude == Sti("prelude", IF on = Idle THEN "halt" ELSE "work")

(* task_yield *)
YieldCall == Cli("work", "yield")
YieldSwitch == At("yield") /\ SchedSwitch("yieldRet")
YieldReturn == Sti("yieldRet", "work")

SleepUncli ==
    /\ on \in Tasks /\ At("work")
    /\ stack' = GoTo("sleep1")
    /\ UNCHANGED <<scheduler_ready, queues, curr_task, idle_task, on, if_flag,
                   in_service, crashed>>

(* task_sleep: it moves the task to the waiting queue and returns to it.   *)
SleepCall == on \in Tasks /\ Cli("work", "sleep1")

SleepRemove ==
    /\ At("sleep1")
    /\ Unschedule(curr_task)
    /\ stack' = GoTo("sleep2")
    /\ UNCHANGED <<scheduler_ready, curr_task, idle_task, on, if_flag,
                   in_service, crashed>>

SleepAdd ==
    /\ At("sleep2")
    /\ waiting_queue' = QueueAdd(waiting_queue, curr_task)
    /\ stack' = GoTo("sleepRet")
    /\ UNCHANGED <<scheduler_ready, running_queue, reaper_queue, curr_task,
                   idle_task, on, if_flag, in_service, crashed>>

SleepReturn == Sti("sleepRet", "work")

(* task_wake_all_up: one node per step. *)
WakeCall == Cli("work", "wake")

WakeLeaves ==
    /\ At("wake") /\ waiting_queue # <<>>
    /\ running_queue' = QueueAdd(running_queue, Head(waiting_queue))
    /\ UNCHANGED <<scheduler_ready, waiting_queue, reaper_queue, curr_task,
                   idle_task, on, stack, if_flag, in_service, crashed>>

WakeOne ==
    /\ At("wake") /\ waiting_queue # <<>>
    /\ waiting_queue' = Tail(waiting_queue)
    /\ running_queue' = QueueAdd(running_queue, Head(waiting_queue))
    /\ UNCHANGED <<scheduler_ready, reaper_queue, curr_task, idle_task, on,
                   stack, if_flag, in_service, crashed>>

WakeReturn == waiting_queue = <<>> /\ Sti("wake", "work")

(* task_postlude: the task's entry function has returned.  The loop over   *)
(* reaper_wait_queue is left out: nothing ever inserts into that queue.    *)
Finish == on \in Tasks /\ Cli("work", "post1")

PostKeeps ==
    /\ At("post1")
    /\ stack' = GoTo("post2")
    /\ UNCHANGED <<scheduler_ready, queues, curr_task, idle_task, on, if_flag,
                   in_service, crashed>>

PostRemove ==
    /\ At("post1")
    /\ Unschedule(curr_task)
    /\ stack' = GoTo("post2")
    /\ UNCHANGED <<scheduler_ready, curr_task, idle_task, on, if_flag,
                   in_service, crashed>>

PostAdd ==
    /\ At("post2")
    /\ reaper_queue' = QueueAdd(reaper_queue, curr_task)
    /\ stack' = GoTo("post3")
    /\ UNCHANGED <<scheduler_ready, running_queue, waiting_queue, curr_task,
                   idle_task, on, if_flag, in_service, crashed>>

PostSwitch == At("post3") /\ SchedSwitch("dead")

-----------------------------------------------------------------------------
(* kernel_task_create and sched_schedule, by whichever context is running. *)
(* sched_schedule does not mask interrupts itself: it is taken here as one *)
(* step, which is what a caller that masks them gets.                      *)

Create(t) ==
    /\ At("work")
    /\ stack[t] = <<>>
    /\ stack' = [stack EXCEPT ![t] = FreshStack]
    /\ UNCHANGED <<scheduler_ready, queues, curr_task, idle_task, on, if_flag,
                   in_service, crashed>>

\* sched_schedule, whole (see above).
Schedule(t) ==
    /\ At("work")
    /\ stack[t] = FreshStack /\ t \notin Queued
    /\ running_queue' = QueueAdd(running_queue, t)
    /\ UNCHANGED <<scheduler_ready, waiting_queue, reaper_queue, curr_task,
                   idle_task, on, stack, if_flag, in_service, crashed>>

(* sched_init, its four lines one by one, interrupts enabled.              *)
InitReady ==
    /\ on = Boot /\ At("work") /\ ~scheduler_ready
    /\ scheduler_ready' = TRUE
    /\ stack' = GoTo("init1")
    /\ UNCHANGED <<queues, curr_task, idle_task, on, if_flag, in_service, crashed>>

InitIdle ==
    /\ At("init1")
    /\ idle_task' = Idle
    /\ stack' = [GoTo("init2") EXCEPT ![Idle] = FreshStack]
    /\ UNCHANGED <<scheduler_ready, queues, curr_task, on, if_flag, in_service,
                   crashed>>

InitReaper ==
    /\ At("init2")
    /\ stack' = [GoTo("init3") EXCEPT ![Reaper] = FreshStack]
    /\ UNCHANGED <<scheduler_ready, queues, curr_task, idle_task, on, if_flag,
                   in_service, crashed>>

InitForgetsCurr ==
    /\ At("init3")
    /\ stack' = GoTo("work")
    /\ UNCHANGED <<scheduler_ready, queues, curr_task, idle_task, on, if_flag,
                   in_service, crashed>>

InitCurr ==
    /\ At("init3")
    /\ curr_task' = Boot
    /\ stack' = GoTo("work")
    /\ UNCHANGED <<scheduler_ready, queues, idle_task, on, if_flag, in_service,
                   crashed>>

-----------------------------------------------------------------------------
\* What the running code may choose to do.
Call == \/ YieldCall \/ SleepCall \/ WakeCall \/ Finish \/ InitReady
        \/ \E t \in Tasks : Create(t) \/ Schedule(t)

\* The processor going on with what it is in the middle of.
Proceed ==
    \/ EarlyEoi \/ Tick \/ EoiAndReturn \/ Prelude
    \/ YieldSwitch \/ YieldReturn
    \/ SleepRemove \/ SleepAdd \/ SleepReturn
    \/ WakeOne \/ WakeReturn
    \/ PostRemove \/ PostAdd \/ PostSwitch
    \/ InitIdle \/ InitReaper \/ InitCurr

Next == Call \/ Proceed \/ \E v \in Vectors : Interrupt(v)

(* The processor keeps executing the functions it has entered; it owes     *)
(* nothing to "work", which may loop forever.  The local APIC's timer is   *)
(* periodic and a tick that comes while IF = 0 stays pending, so a tick    *)
(* that could be delivered again and again is delivered.                   *)
Fairness == WF_vars(Proceed) /\ SF_vars(Interrupt("timer"))

Spec == Init /\ [][Next]_vars /\ Fairness
-----------------------------------------------------------------------------
(* Every variable has its type; a queue holds tasks, each once; a stack is *)
(* never deeper than an interrupted function and the handler, because a    *)
(* handler is never interrupted.                                           *)
TypeOK ==
    /\ scheduler_ready \in BOOLEAN /\ if_flag \in BOOLEAN /\ crashed \in BOOLEAN
    /\ \A q \in {running_queue, waiting_queue, reaper_queue} :
           Range(q) \subseteq Tasks /\ IsInjective(q)
    /\ curr_task \in Tasks \cup {Boot, Idle, NULL}
    /\ idle_task \in {Idle, NULL}
    /\ on \in Contexts
    /\ in_service \subseteq Vectors
    /\ \A c \in Contexts : Len(stack[c]) <= 2 /\ Range(stack[c]) \subseteq Points
    /\ stack[on] # <<>>

Holders(t) == {n \in 1..3 : t \in Range(queues[n])}

(* No task is lost and none is in two queues: a task that has started is   *)
(* in exactly one of the queues, except while it is itself in the masked   *)
(* section of task_sleep or task_postlude that moves it.  A preemption     *)
(* inside such a section would leave a task no queue leads to.             *)
EveryTaskPlaced ==
    \A t \in Tasks :
        LET midway == on = t /\ Here \in {"sleep2", "post2"}
            started == stack[t] \notin {<<>>, FreshStack}
        IN  /\ Cardinality(Holders(t)) <= 1
            /\ started => (Holders(t) = {} <=> midway)

(* A task whose entry function has returned never runs again, though its   *)
(* stack and its task_t stay allocated: it is in the reaper queue and in   *)
(* no other.  (It stays there: the reaper is never scheduled.)             *)
DeadNeverRuns ==
    \A t \in Tasks :
        stack[t] # <<>> /\ Last(stack[t]) = "dead" =>
            /\ on # t
            /\ Holders(t) = {3}

(* Code that runs with interrupts enabled owes the APIC no EOI.  The timer *)
(* case may leave its handler for a task that has never been interrupted   *)
(* and returns through task_prelude or task_yield, not through an EOI; if  *)
(* its own vector were still in service there, the tick would be dead.     *)
TimerStaysAlive == if_flag => in_service = {}

(* The scheduler dereferences its NULL curr_task only if a tick falls      *)
(* inside sched_init itself: once sched_init has returned, never.          *)
CrashOnlyInInit ==
    crashed => Head(stack[Boot]) \in {"init1", "init2", "init3"}

(* Whoever is idle stays idle: no interrupt handler puts a task on the     *)
(* running queue, and idle is chosen only when that queue is empty.  The   *)
(* first tick that finds every task asleep or finished ends scheduling.    *)
IdleIsForever == [][on = Idle => on' = Idle]_vars

(* No runnable task starves: once sched_init has set scheduler_ready, a    *)
(* task on the running queue gets the processor, whatever the running      *)
(* tasks do, loop for ever in their own code included.                     *)
RunsEventually ==
    \A t \in Tasks :
        scheduler_ready /\ t \in Range(running_queue) ~> on = t \/ crashed
=============================================================================
