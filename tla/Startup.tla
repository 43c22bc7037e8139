------------------------------- MODULE Startup -------------------------------
(***************************************************************************)
(* kmain of kernel/src/kernel.c from idt_init to its loop, with interrupts *)
(* on nearly all the way: the interrupt controllers are set up (IntCtrl),  *)
(* then the PS/2 controller, the keyboard and the mouse are talked to by   *)
(* polling (Ps2), while ticks come, keys are pressed, the mouse moves and  *)
(* answers are late.  One processor: a handler runs with interrupts off    *)
(* and is one step.  What kmain does between (tables, heap, device list,   *)
(* file system) is in modules of its own and touches none of this.         *)
(***************************************************************************)
EXTENDS IntCtrl, Ps2

CONSTANTS MaxStrokes,  \* bound: keys pressed or released
          MaxUnusual   \* bound: what is unusual of the machine or of what happens to kmain

VARIABLES
  pc,       \* where kmain is
  stage,    \* of a question to the controller: "send", "wait" or "read"
  data,     \* the last answer
  typed,    \* the keys pressed and released so far
  moves,    \* how many packets the mouse has sent
  odd       \* history: what went other than it usually does

vars == <<intVars, hw, drvVars, fault, odd, pc, stage, data, typed, moves>>

\* The machine: whether apic_init finds an APIC, whether the PS/2 controller passes
\* its tests and has a second port, and whether its devices still send the rest of
\* an answer after the next command.
VARIABLE machine
Usual == [apic |-> TRUE, works |-> TRUE, dual |-> TRUE, keeps |-> FALSE, reports |-> FALSE]
Machines == {Usual} \cup {[Usual EXCEPT ![f] = ~@] : f \in DOMAIN Usual}

Init ==
  /\ machine \in Machines
  /\ IntInit /\ Ps2Init(machine.reports)
  /\ pc = "idt_init" /\ stage = "send" /\ data = "none"
  /\ typed = <<>> /\ moves = 0 /\ odd = {}

\* A key pressed, the mouse moved or an answer late before kmain's loop.
Unusual == Cardinality(odd \cap {"typed", "moved", "late"}) + IF machine = Usual THEN 0 ELSE 1
MayHappen(what) == pc = "loop" \/ what \in odd \/ Unusual < MaxUnusual
Happened(what) == IF pc = "loop" THEN odd ELSE odd \cup {what}

Rest == <<machine, typed, moves>>
At(l) == fault = "" /\ pc = l
Go(l) == pc' = l /\ UNCHANGED <<machine, typed, moves>>
Quiet == UNCHANGED <<hw, drvVars, fault, stage, data>>
-----------------------------------------------------------------------------
(* idt_init, pic_init and apic_init.                                       *)

\* Mutated form of IdtInit: interrupts stay off.
IdtInitOff == At("idt_init") /\ Go("reset pics") /\ Quiet /\ UNCHANGED <<intVars, odd>>

\* idt_init ends with sti; no controller is known yet.
IdtInit ==
  /\ At("idt_init") /\ int_on' = TRUE
  /\ Go("reset pics") /\ Quiet
  /\ UNCHANGED <<interrupt_controller, pic, ioapic, lapic, elapsed, odd>>

\* A step that changes the PIC and nothing else.
PicStep(l, now, next) ==
  /\ At(l) /\ pic' = now
  /\ Go(next) /\ Quiet
  /\ UNCHANGED <<int_on, interrupt_controller, ioapic, lapic, elapsed, odd>>

PicInit == \/ PicStep("reset pics", PicReset, "mask pic 1")
           \/ PicStep("mask pic 1", PicMaskAll(0), "mask pic 2")
           \/ PicStep("mask pic 2", PicMaskAll(8), "use pic")

UseController(l, c, next) ==
  /\ At(l) /\ interrupt_controller' = c
  /\ Go(next) /\ Quiet
  /\ UNCHANGED <<int_on, pic, ioapic, lapic, elapsed, odd>>

UsePic == UseController("use pic", "PIC", IF machine.apic THEN "pit_init" ELSE "drain")

\* apic_timer_init: pit_init lets the PIT's line through ...
PitInit == PicStep("pit_init", PicClear(0), "pit_sleep")

\* ... pit_sleep_ms notes the tick it is called at ...
SleepStart ==
  /\ At("pit_sleep") /\ elapsed' = 0
  /\ Go("sleeping") /\ Quiet
  /\ UNCHANGED <<int_on, interrupt_controller, pic, ioapic, lapic, odd>>

\* ... and returns when as many have passed; the LAPIC's timer is started.
StartTimer ==
  /\ At("sleeping") /\ elapsed >= SleepMs
  /\ lapic' = [lapic EXCEPT !.timer = TRUE]
  /\ Go("disable pic 1") /\ Quiet
  /\ UNCHANGED <<int_on, interrupt_controller, pic, ioapic, elapsed, odd>>

PicDisable == \/ PicStep("disable pic 1", PicMaskAll(0), "disable pic 2")
              \/ PicStep("disable pic 2", PicMaskAll(8), "register 1")

RegisterLine(l, irq, next) ==
  /\ At(l) /\ ioapic' = Register(irq)
  /\ Go(next) /\ Quiet
  /\ UNCHANGED <<int_on, interrupt_controller, pic, lapic, elapsed, odd>>

Registers == RegisterLine("register 1", 1, "register 12") \/ RegisterLine("register 12", 12, "use apic")

UseApic == UseController("use apic", "APIC", "drain")
-----------------------------------------------------------------------------
(* ps2_init and the first halves of ps2_keyboard_init and ps2_mouse_init:   *)
(* questions, each of some writes and an answer.                            *)

\* An edge the I/O APIC forgets, the driver not having unmasked its line yet: noted
\* until the byte it stood for is read.
Kept(h) == IF h.obf.full THEN odd ELSE odd \ {"edge lost"}
Lost(rising) ==
  {"edge lost" : irq \in {i \in rising \ ioapic.open :
     interrupt_controller = "APIC" /\ ring[IF i = 1 THEN "kbd" ELSE "mse"] # "ready"}}

\* The hardware becomes h, and its line goes to the controllers.
BecomesNoting(h, what) ==
  /\ hw' = h
  /\ Wire(Line(h) \ Line(hw), Line(hw) \ Line(h))
  /\ odd' = Kept(h) \cup what \cup Lost(Line(h) \ Line(hw))

Becomes(h) == BecomesNoting(h, {})

\* kmain has read a byte that is no answer, or the end of an earlier one.
BecomesRead(h) ==
  BecomesNoting(h, IF h.obf.byte \in Input THEN {"stray"}
                   ELSE IF h.obf.byte = "AA" THEN {"AA"} ELSE {})

Questions == {"config", "test", "dual", "test 1", "test 2", "config 2", "reset", "F0", "00", "set", "mouse"}

\* Mutated form of After: the keyboard is not told which of its settings is wanted.
AfterShort(l, byte) ==
  CASE l = "config" -> "test"
    [] l = "test" -> IF byte = "55" THEN "dual" ELSE "F0"
    [] l = "dual" -> "test 1"
    [] l = "test 1" -> IF byte = "00" THEN "test 2" ELSE "F0"
    [] l = "test 2" -> IF byte = "00" THEN "config 2" ELSE "F0"
    [] l = "config 2" -> "reset"
    [] l = "reset" -> "F0"
    [] l \in {"F0", "00"} -> IF byte = ACK THEN "set" ELSE "unmask 1"
    [] l = "set" -> "unmask 1"
    [] l = "mouse" -> IF byte = ACK THEN "unmask 12" ELSE "loop"

\* Where the answer leads: a failed test ends ps2_init with both ports disabled, and
\* the keyboard is initialised all the same.
After(l, byte) ==
  CASE l = "config" -> "test"
    [] l = "test" -> IF byte = "55" THEN "dual" ELSE "F0"
    [] l = "dual" -> "test 1"
    [] l = "test 1" -> IF byte = "00" THEN "test 2" ELSE "F0"
    [] l = "test 2" -> IF byte = "00" THEN "config 2" ELSE "F0"
    [] l = "config 2" -> "reset"
    [] l = "reset" -> "F0"
    [] l = "F0" -> IF byte = ACK THEN "00" ELSE "unmask 1"
    [] l = "00" -> IF byte = ACK THEN "set" ELSE "unmask 1"
    [] l = "set" -> "unmask 1"
    [] l = "mouse" -> IF byte = ACK THEN "unmask 12" ELSE "loop"

\* The ports are disabled and the output buffer is emptied.
Drain ==
  /\ At("drain")
  /\ LET h == Clocks(hw, FALSE, FALSE)
     IN  IF h.obf.full THEN BecomesRead(Emptied(h)) /\ UNCHANGED pc
                       ELSE Becomes(h) /\ pc' = "config"
  /\ UNCHANGED <<int_on, interrupt_controller, ioapic, elapsed, drvVars, fault, stage, data, Rest>>

\* What question l writes, commands with their data bytes, and what the controller and
\* the devices make of it: without a second port, nothing of what is for it.  The second
\* port found is disabled before its test, and enabled again by the configuration.
Sent(l) ==
  CASE l \in {"config", "config 2"} -> ReadConfig(hw)
    [] l = "test" -> Answer(Ints(hw, FALSE, FALSE), IF machine.works THEN "55" ELSE "FC")
    [] l = "dual" -> ReadConfig(Clocks(hw, hw.clock.kbd, machine.dual))
    [] l = "test 1" ->
         Answer(IF data = "port 2 on" THEN Ints(Clocks(hw, hw.clock.kbd, TRUE), hw.int.kbd, FALSE)
                ELSE hw, "00")
    [] l = "test 2" -> IF machine.dual THEN Answer(hw, "00") ELSE hw
    [] l = "reset" -> Reply(Clocks(Ints(hw, TRUE, TRUE), TRUE, machine.dual),
                            "kbd", <<ACK, "AA">>, machine.keeps)
    [] l = "F0" -> Reply(hw, "kbd", <<ACK>>, machine.keeps)
    [] l = "00" -> Reply(hw, "kbd", <<ACK, "02">>, machine.keeps)
    [] l = "set" -> hw
    [] l = "mouse" -> IF machine.dual THEN [Reply(hw, "mse", <<ACK>>, machine.keeps)
                                              EXCEPT !.reporting = TRUE] ELSE hw

Send(l) ==
  /\ At(l) /\ stage = "send"
  /\ Becomes(Sent(l))
  /\ stage' = "wait"
  /\ UNCHANGED <<int_on, interrupt_controller, ioapic, elapsed, drvVars, fault, pc, data, Rest>>

\* ps2_waitRead sees a byte ...
Wait(l) ==
  /\ At(l) /\ stage = "wait" /\ hw.obf.full
  /\ stage' = "read"
  /\ UNCHANGED <<intVars, odd, hw, drvVars, fault, pc, data, Rest>>

Answered(l, byte) ==
  /\ data' = byte /\ stage' = "send" /\ pc' = After(l, byte)
  /\ scancode_set' = IF l = "set" THEN byte
                     ELSE IF l \in {"F0", "00"} /\ byte # ACK THEN Timeout ELSE scancode_set
  /\ UNCHANGED <<decoder, packet, ring, kbd_events, mse_events, fault, Rest>>

\* ... which ps2_readData takes: or the one before it, if a handler took it first.
Read(l) ==
  /\ At(l) /\ stage = "read"
  /\ BecomesRead(Emptied(hw))
  /\ Answered(l, hw.obf.byte)
  /\ UNCHANGED <<int_on, interrupt_controller, ioapic, elapsed>>

\* Or it gives up: at once if nothing is on its way, and once before an answer that is.
GiveUp(l) ==
  /\ At(l) /\ stage = "wait" /\ ~hw.obf.full
  /\ Fillings(hw) # {} => "late" \notin odd /\ MayHappen("late")
  /\ odd' = IF Fillings(hw) # {} THEN odd \cup {"late"} ELSE odd
  /\ Answered(l, Timeout)
  /\ UNCHANGED <<intVars, hw>>

\* The second halves: clear_mask comes before ringbuf_init and dev_create.
Unmask(l, irq, next) ==
  /\ At(l) /\ ClearMask(irq)
  /\ Go(next) /\ Quiet
  /\ UNCHANGED <<int_on, interrupt_controller, lapic, elapsed, odd>>

Buffer(l, d, how, next) ==
  /\ At(l) /\ ring' = [ring EXCEPT ![d] = how]
  /\ Go(next)
  /\ UNCHANGED <<intVars, odd, hw, scancode_set, decoder, packet, kbd_events, mse_events, fault, stage, data>>

DriverInit ==
  \/ Unmask("unmask 1", 1, "kbd cap") \/ Unmask("unmask 12", 12, "mse cap")
  \/ Buffer("kbd cap", "kbd", "cap", "kbd buf") \/ Buffer("kbd buf", "kbd", "ready", "mouse")
  \/ Buffer("mse cap", "mse", "cap", "mse buf") \/ Buffer("mse buf", "mse", "ready", "loop")

\* kmain's loop: dev_find has found no mouse, and dev_read goes through NULL.
LoopFaults ==
  /\ At("loop") /\ ring.mse # "ready"
  /\ fault' = "no mouse"
  /\ UNCHANGED <<intVars, odd, hw, drvVars, pc, stage, data, Rest>>

Kmain == \/ IdtInit \/ PicInit \/ UsePic \/ PitInit \/ SleepStart \/ StartTimer \/ PicDisable
         \/ Registers \/ UseApic \/ Drain
         \/ \E l \in Questions : Send(l) \/ Wait(l) \/ Read(l) \/ GiveUp(l)
         \/ DriverInit \/ LoopFaults
-----------------------------------------------------------------------------
(* Interrupts.                                                             *)

\* isr_interrupt_handler, called when no controller is known: the end of interrupt
\* goes through NULL.
HandlerFaults ==
  /\ fault = "" /\ int_on /\ Pending("PIC") \cup Pending("APIC") # {} /\ interrupt_controller = "none"
  /\ fault' = "no controller" /\ odd' = odd \cup {"early interrupt"}
  /\ UNCHANGED <<intVars, hw, drvVars, pc, stage, data, Rest>>

Timer(from) ==
  /\ Served(TimerVector, from, {}, {})
  /\ elapsed' = IF elapsed < SleepMs THEN elapsed + 1 ELSE elapsed
  /\ odd' = IF from = "APIC" /\ interrupt_controller = "PIC" THEN odd \cup {"early tick"} ELSE odd
  /\ UNCHANGED <<hw, drvVars, fault>>

\* The byte is no key, or no movement.
Strays(d, h, byte) == byte # Timeout /\ (h.obf.from # d \/ byte \notin Input)

\* A driver's callback reads what is in the buffer, or what comes while it waits, or
\* gives up.
Callback(d, v, from) ==
  \E h \in IF hw.obf.full THEN {hw} ELSE {hw} \cup Fillings(hw) :
    LET byte == IF h.obf.full THEN h.obf.byte ELSE Timeout
    IN  /\ IF d = "kbd" THEN KeyboardCallback(byte) ELSE MouseCallback(byte)
        /\ hw' = Emptied(h)
        /\ Served(v, from, Line(h) \ Line(hw), Line(hw))
        /\ odd' = Kept(Emptied(h)) \cup (IF Strays(d, h, byte) THEN {"stray"} ELSE {})
        /\ UNCHANGED elapsed

Interrupt ==
  /\ fault = "" /\ int_on /\ interrupt_controller # "none"
  /\ \E from \in {"PIC", "APIC"} :
       \/ TimerVector \in Pending(from) /\ Timer(from)
       \/ Vector(1) \in Pending(from) /\ Callback("kbd", Vector(1), from)
       \/ Vector(12) \in Pending(from) /\ Callback("mse", Vector(12), from)
  /\ UNCHANGED <<pc, stage, data, Rest>>
-----------------------------------------------------------------------------
(* The outside.                                                            *)

Ticks == /\ fault = "" /\ (PitTick \/ LapicTick)
         /\ UNCHANGED <<odd, hw, drvVars, fault, pc, stage, data, Rest>>

\* The output buffer is filled.
Fill ==
  /\ fault = "" /\ \E h \in Fillings(hw) : Becomes(h)
  /\ UNCHANGED <<int_on, interrupt_controller, ioapic, elapsed, drvVars, fault, pc, stage, data, Rest>>

Type == /\ fault = "" /\ Len(typed) < MaxStrokes /\ MayHappen("typed")
        /\ \E s \in Strokes : /\ typed' = Append(typed, s)
                              /\ hw' = [hw EXCEPT !.kbd = @ \o s]
        /\ odd' = Happened("typed")
        /\ UNCHANGED <<intVars, drvVars, fault, pc, stage, data, machine, moves>>

Move == /\ fault = "" /\ hw.reporting /\ moves < Len(Packets) /\ MayHappen("moved")
        /\ moves' = moves + 1
        /\ hw' = [hw EXCEPT !.mse = @ \o Packets[moves']]
        /\ odd' = Happened("moved")
        /\ UNCHANGED <<intVars, drvVars, fault, pc, stage, data, machine, typed>>

Next == Kmain \/ HandlerFaults \/ Interrupt \/ Ticks \/ Fill \/ Type \/ Move

\* The processor goes on with kmain and takes interrupts, the PIT ticks and the
\* controller passes bytes on.
Spec == /\ Init /\ [][Next]_<<vars, machine>>
        /\ WF_<<vars, machine>>(Kmain) /\ WF_<<vars, machine>>(Interrupt)
        /\ WF_<<vars, machine>>(Ticks) /\ WF_<<vars, machine>>(Fill)
-----------------------------------------------------------------------------
(* Properties.                                                             *)

\* Whatever the order of interrupts and set-up, no handler leaves anything in
\* service, on either chip or in the LAPIC, so that nothing is held back for good;
\* but for a tick of the LAPIC's timer between its start and the change of
\* krnlctx(interrupt_controller): that one is acknowledged to the PIC.
Acknowledged ==
  fault = "" => pic.service = {} /\ (lapic.isr # {} => "early tick" \in odd)

\* If nothing was late, early, typed or moved meanwhile, kmain stops at no fault but
\* that of its loop without a mouse (one port, or a controller that fails its test),
\* and in its loop both devices work: on a machine with an APIC and a sound controller
\* of two ports.  Not even then does the keyboard work if it ends its reset with AA
\* after its ACK: that is taken for the answer to the next question.  (That the loop is
\* reached is StartsUp.)
ComesUp ==
  odd \ {"edge lost"} = {} =>
    /\ fault \in {"", "no mouse"}
    /\ fault = "no mouse" => ~(machine.works /\ machine.dual)
    /\ pc = "loop" /\ machine.works /\ machine.dual =>
         /\ ring = [kbd |-> "ready", mse |-> "ready"]
         /\ scancode_set = "02" /\ ~machine.keeps
         /\ machine.apic => ioapic.open = {1, 12}

\* The events are the keys typed and the movements made, whole, in order and without
\* a gap, whatever the handlers, the polling and the order of set-up did; unless a
\* byte went to another reader than its own.
Meant(s) == <<<<Last(s), s[1] = "E0">>, "F0" \in Range(s)>>
Within(events, all) == \E i \in 1 .. Len(all) + 1 : \E j \in 0 .. Len(all) : events = SubSeq(all, i, j)

EventsFaithful ==
  "stray" \notin odd =>
    /\ Within(kbd_events, [i \in DOMAIN typed |-> Meant(typed[i])])
    /\ Within(mse_events, Packets)

\* kmain reaches its loop or stops at a fault: it waits for no tick that does not
\* come and no answer that it does not give up.
StartsUp == <>(pc = "loop" \/ fault # "")

\* In the loop, a byte of a device whose driver is set up is read, so that the next
\* can follow; unless its edge came while its line was masked, or the early tick
\* holds it back, or it is the mouse's and the PIC is in charge (its line 2 is
\* never unmasked).
Waiting(d) == /\ pc = "loop" /\ hw.obf.full /\ hw.obf.from = d /\ hw.int[d]
              /\ ring[d] = "ready" /\ (d = "kbd" \/ machine.apic)
              /\ odd \cap {"edge lost", "early tick"} = {}
InputServed == (\E d \in {"kbd", "mse"} : Waiting(d)) ~> (~hw.obf.full \/ fault # "")
=============================================================================
