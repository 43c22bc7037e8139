------------------------------- MODULE IntCtrl -------------------------------
(***************************************************************************)
(* The interrupt controllers as kernel/src/arch/x86_64/ints uses them: the *)
(* PIC (pic.c), the local APIC, its timer and the I/O APIC (apic.c), the   *)
(* PIT's ticks (pit.c), and the two ends of an interrupt: the vector the   *)
(* processor is given and the acknowledgement it sends (isr_handlers.c).   *)
(* A device's line goes to both controllers.  The hardware's own rules     *)
(* (priority, edges) are external: they are what the code relies on.       *)
(***************************************************************************)
EXTENDS Integers, FiniteSets, FiniteSetsExt

CONSTANT SleepMs \* ticks apic_timer_init sleeps for

VARIABLES
  int_on,               \* the processor's interrupt flag
  interrupt_controller, \* krnlctx(interrupt_controller), "none" before pic_init
  pic,      \* lines masked, latched and in service
  ioapic,   \* the lines let through, and the vector registered for each (0: none)
  lapic,    \* vectors requested and in service, and whether the timer runs
  elapsed   \* ticks since pit_sleep_ms was called, up to SleepMs

intVars == <<int_on, interrupt_controller, pic, ioapic, lapic, elapsed>>

Irq == {0, 1, 12}
TimerVector == 32  \* PIT_INT; the LAPIC timer is given the same
Vector(irq) == 32 + irq

IntInit ==
  /\ int_on = FALSE /\ interrupt_controller = "none" /\ elapsed = 0
  /\ pic = [masked |-> 0 .. 15, latched |-> {}, service |-> {}]
  /\ ioapic = [open |-> {}, vector |-> [i \in Irq |-> 0]]
  /\ lapic = [irr |-> {}, isr |-> {}, timer |-> FALSE]
-----------------------------------------------------------------------------
(* Lines.                                                                  *)

\* Lines rise and fall.  The PIC keeps a rising edge while the line stays up,
\* masked or not; the I/O APIC passes it on at once or, masked, forgets it.
Wire(rising, falling) ==
  /\ pic' = [pic EXCEPT !.latched = (@ \ falling) \cup rising]
  /\ lapic' = [lapic EXCEPT !.irr = @ \cup {ioapic.vector[i] : i \in rising \cap ioapic.open}]

\* The PIT runs from before the kernel starts.  A tick the PIC masks is kept, and is
\* no other than one right after the line is unmasked.
PitTick ==
  /\ 0 \notin pic.masked
  /\ pic' = [pic EXCEPT !.latched = @ \cup {0}]
  /\ UNCHANGED <<int_on, interrupt_controller, ioapic, lapic, elapsed>>

\* The LAPIC's timer, until the LAPIC is in charge: a later tick is acknowledged to
\* where it came from, and leaves nothing else behind.
LapicTick ==
  /\ lapic.timer /\ interrupt_controller = "PIC"
  /\ lapic' = [lapic EXCEPT !.irr = @ \cup {TimerVector}]
  /\ UNCHANGED <<int_on, interrupt_controller, pic, ioapic, elapsed>>
-----------------------------------------------------------------------------
(* pic.c                                                                   *)

\* pic_init's first eight writes: nothing is latched, and nothing masked.
PicReset == [masked |-> {}, latched |-> {}, service |-> {}]

\* A write of 0xFF to the data port of PIC1 (0) or PIC2 (8).
PicMaskAll(chip) == [pic EXCEPT !.masked = @ \cup chip .. chip + 7]

\* irq_clear_mask
PicClear(irq) == [pic EXCEPT !.masked = @ \ {irq}]

\* PIC2 asks through line 2 of PIC1, and takes its place there.
Rank(irq) == IF irq >= 8 THEN 2 ELSE irq

PicGives ==
  {i \in pic.latched \ pic.masked :
     /\ Rank(i) \notin pic.masked
     /\ \A s \in pic.service : Rank(i) < Rank(s)
     /\ \A j \in pic.latched \ pic.masked : Rank(j) \notin pic.masked => Rank(i) <= Rank(j)}

\* pic_send_eoi: irq is a vector, so always 8 or more, and both chips are told;
\* each drops the highest ranking line it has in service.
PicEoi(service, irq) ==
  LET Drop(chip) == LET s == {i \in service : i \in chip .. chip + 7} IN IF s = {} THEN {} ELSE {Min(s)}
  IN  service \ (Drop(0) \cup IF irq >= 8 THEN Drop(8) ELSE {})
-----------------------------------------------------------------------------
(* apic.c                                                                  *)

\* ioapic_register: the line's vector; its mask bit stays as it is.
Register(irq) == [ioapic EXCEPT !.vector[irq] = Vector(irq)]

LapicGives == {v \in lapic.irr : \A s \in lapic.isr : v \div 16 > s \div 16}

\* apic_send_eoi
LapicEoi(isr) == IF isr = {} THEN {} ELSE isr \ {Max(isr)}

\* Mutated form of ClearMask: the PIC's, whichever controller is in charge.
ClearMaskPic(irq) == pic' = PicClear(irq) /\ UNCHANGED ioapic

\* clear_mask of whichever controller is in charge.
ClearMask(irq) ==
  IF interrupt_controller = "APIC"
    THEN ioapic' = [ioapic EXCEPT !.open = @ \cup {irq}] /\ UNCHANGED pic
    ELSE pic' = PicClear(irq) /\ UNCHANGED ioapic
-----------------------------------------------------------------------------
(* isr_interrupt_handler.                                                  *)

\* The vectors the processor may be given by a controller.
Pending(from) == IF from = "PIC" THEN {Vector(i) : i \in PicGives} ELSE LapicGives

\* Mutated form of Acknowledge: the timer's early one takes the place of the last.
AcknowledgeTimer(v, from) ==
  LET service == IF from = "PIC" THEN pic.service \cup {v - 32} ELSE pic.service
      isr == IF from = "APIC" THEN lapic.isr \cup {v} ELSE lapic.isr
  IN  IF v # TimerVector THEN [service |-> service, isr |-> isr]
      ELSE IF interrupt_controller = "PIC" THEN [service |-> PicEoi(service, v), isr |-> isr]
      ELSE [service |-> service, isr |-> LapicEoi(isr)]

\* What is left in service when the handler of v returns: the end of interrupt goes
\* to the controller in charge, whoever gave the interrupt; twice for the timer.
Acknowledge(v, from) ==
  LET service == IF from = "PIC" THEN pic.service \cup {v - 32} ELSE pic.service
      isr == IF from = "APIC" THEN lapic.isr \cup {v} ELSE lapic.isr
      twice == v = TimerVector
  IN  IF interrupt_controller = "PIC"
        THEN [service |-> IF twice THEN PicEoi(PicEoi(service, v), v) ELSE PicEoi(service, v),
              isr |-> isr]
        ELSE [service |-> service, isr |-> IF twice THEN LapicEoi(LapicEoi(isr)) ELSE LapicEoi(isr)]

\* The controllers once v has been given, served and acknowledged, while lines rose
\* (and fell again) or fell.
Served(v, from, rising, falling) ==
  LET left == Acknowledge(v, from)
      given == IF from = "PIC" THEN {v - 32} ELSE {}
      raised == {ioapic.vector[i] : i \in rising \cap ioapic.open}
  IN  /\ pic' = [pic EXCEPT !.latched = @ \ (falling \cup given), !.service = left.service]
      /\ lapic' = [lapic EXCEPT !.irr = (IF from = "APIC" THEN @ \ {v} ELSE @) \cup raised,
                                !.isr = left.isr]
      /\ UNCHANGED <<int_on, interrupt_controller, ioapic>>
=============================================================================
