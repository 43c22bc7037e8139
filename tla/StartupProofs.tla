---------------------------- MODULE StartupProofs ----------------------------
(* Proofs about Startup: every interrupt is acknowledged, the events are    *)
(* the keys typed and the movements made, and what usually happens brings   *)
(* kmain to its loop with both devices working, whatever the keys and       *)
(* packets, however long the sleep, and with no bound on what is unusual.   *)
EXTENDS Startup, TLAPS

\* Where kmain is until the local APIC is in charge, and from then on.
Setting == {"idt_init", "reset pics", "mask pic 1", "mask pic 2", "use pic", "pit_init",
            "pit_sleep", "sleeping", "disable pic 1", "disable pic 2", "register 1",
            "register 12", "use apic"}
Polling == Questions \cup {"drain", "unmask 1", "kbd cap", "kbd buf", "unmask 12", "mse cap",
                           "mse buf", "loop"}

Types ==
  /\ pc \in Setting \cup Polling
  /\ interrupt_controller \in {"none", "PIC", "APIC"}
  /\ pic \in [masked : SUBSET Int, latched : SUBSET Irq, service : SUBSET Irq]
  /\ ioapic \in [open : SUBSET Irq, vector : [Irq -> {0, 33, 44}]]
  /\ lapic \in [irr : SUBSET {32, 33, 44}, isr : SUBSET {32, 33, 44}, timer : BOOLEAN]

\* The PIC is silent once its lines are masked again, so that nothing it gives is
\* acknowledged to the other controller.
PicSilent ==
  /\ pc = "disable pic 2" => 0 .. 7 \subseteq pic.masked
  /\ interrupt_controller = "APIC" \/ pc \in {"register 1", "register 12", "use apic"} =>
       0 .. 15 \subseteq pic.masked

\* The I/O APIC passes nothing on before it is in charge, and has its vectors then.
IoapicSilent ==
  /\ interrupt_controller # "APIC" => ioapic.open = {} /\ lapic.irr \subseteq {TimerVector}
  /\ pc \in {"register 12", "use apic"} => ioapic.vector[1] = 33
  /\ pc = "use apic" => ioapic.vector[12] = 44
  /\ interrupt_controller = "APIC" =>
       /\ ioapic.vector[1] = 33 /\ ioapic.vector[12] = 44
       /\ ioapic.open \subseteq {1, 12}

Inv ==
  /\ Types
  /\ pc \in Setting => interrupt_controller # "APIC"
  /\ PicSilent /\ IoapicSilent
  /\ pic.service = {} /\ (lapic.isr # {} => "early tick" \in odd)

-----------------------------------------------------------------------------
\* The least and the greatest of a set of one.
LEMMA OfOne == ASSUME NEW i \in Int PROVE Min({i}) = i /\ Max({i}) = i
BY DEF Min, Max

\* The keyboard's and the mouse's lines are all the PS/2 controller holds up.
LEMMA Lines == ASSUME NEW h PROVE Line(h) \subseteq {1, 12}
BY DEF Line, IrqOf

\* What the PIC may give: nothing with its lines masked.
LEMMA PicGivesFacts ==
  ASSUME Types
  PROVE  /\ PicGives \subseteq Irq
         /\ 0 .. 15 \subseteq pic.masked => PicGives = {}
BY DEF Types, PicGives, Irq

\* The PIC's acknowledgement leaves nothing of what it has just given.
LEMMA PicEoiFacts ==
  /\ \A i \in Irq : PicEoi({i}, Vector(i)) = {}
  /\ \A i \in Irq : PicEoi({}, Vector(i)) = {}
<1>1. \A i \in Irq : PicEoi({}, Vector(i)) = {}
  BY DEF PicEoi
<1>2. ASSUME NEW i \in Irq PROVE PicEoi({i}, Vector(i)) = {}
  <2>0. i \in {0, 1, 12} /\ Vector(i) >= 8 /\ Min({i}) = i
    BY OfOne DEF Irq, Vector
  <2>1. CASE i \in {0, 1}
    <3>1. {j \in {i} : j \in 0 .. 0 + 7} = {i}
      BY <2>1
    <3> QED BY <2>0, <3>1 DEF PicEoi
  <2>2. CASE i = 12
    <3>1. {j \in {i} : j \in 8 .. 8 + 7} = {i}
      BY <2>2
    <3> QED BY <2>0, <3>1 DEF PicEoi
  <2> QED BY <2>0, <2>1, <2>2
<1> QED BY <1>1, <1>2

\* The LAPIC's acknowledgement drops what it has just given, if that was all.
LEMMA LapicEoiFacts ==
  /\ \A s : LapicEoi(s) \subseteq s
  /\ \A i \in Int : LapicEoi({i}) = {}
BY OfOne DEF LapicEoi

\* An answer leads on among the questions and the set-up of the drivers.
LEMMA AfterFacts == ASSUME NEW l \in Questions, NEW byte PROVE After(l, byte) \in Polling
BY DEF Questions, Polling, After

-----------------------------------------------------------------------------
\* What a step leaves, part by part, when it changes less than all.

\* The controllers do not change.
LEMMA SameControllers ==
  ASSUME Inv, pc' \in Setting \cup Polling, UNCHANGED intVars,
         pc' = pc \/ (pc \in Polling /\ pc' \in Polling),
         "early tick" \in odd => "early tick" \in odd'
  PROVE  Inv'
<1>0. /\ pic' = pic /\ ioapic' = ioapic /\ lapic' = lapic
      /\ interrupt_controller' = interrupt_controller
  BY DEF intVars
<1>1. Types' /\ (pic'.service = {}) /\ (lapic'.isr # {} => "early tick" \in odd')
  BY <1>0 DEF Inv, Types
<1>2. pc' \in Setting => interrupt_controller' # "APIC"
  BY <1>0 DEF Inv, Setting, Polling, Questions
<1>3. PicSilent' /\ IoapicSilent'
  BY <1>0 DEF Inv, PicSilent, IoapicSilent, Setting, Polling, Questions
<1> QED BY <1>1, <1>2, <1>3 DEF Inv

\* Lines of the PS/2 controller rise or fall while kmain polls, or anywhere.
LEMMA WireStep ==
  ASSUME Inv, NEW h, Becomes(h) \/ BecomesRead(h),
         UNCHANGED <<interrupt_controller, ioapic>>,
         pc' = pc \/ (pc \in Polling /\ pc' \in Polling)
  PROVE  Inv'
<1> DEFINE rising == Line(h) \ Line(hw)
           raised == {ioapic.vector[i] : i \in rising \cap ioapic.open}
<1>1. /\ pic' = [pic EXCEPT !.latched = (@ \ (Line(hw) \ Line(h))) \cup rising]
      /\ lapic' = [lapic EXCEPT !.irr = @ \cup raised]
      /\ \E what : odd' = Kept(h) \cup what \cup Lost(rising)
  BY DEF Becomes, BecomesRead, BecomesNoting, Wire
<1>2. rising \subseteq {1, 12}
  BY Lines
<1>3. /\ raised \subseteq {33, 44}
      /\ interrupt_controller # "APIC" => raised = {}
  <2>1. CASE interrupt_controller = "APIC"
    BY <1>2, <2>1, ZenonT(60) DEF Inv, IoapicSilent
  <2>2. CASE interrupt_controller # "APIC"
    <3>1. ioapic.open = {}
      BY <2>2 DEF Inv, IoapicSilent
    <3> QED BY <2>2, <3>1
  <2> QED BY <2>1, <2>2
<1>4. "early tick" \in odd => "early tick" \in odd'
  BY <1>1 DEF Kept
<1>5. /\ pic'.masked = pic.masked /\ pic'.service = pic.service
      /\ lapic'.isr = lapic.isr /\ lapic'.irr = lapic.irr \cup raised
  BY <1>1 DEF Inv, Types
<1>6. Types'
  BY <1>1, <1>2, <1>3, ZenonT(60) DEF Inv, Types, Irq
<1>7. PicSilent' /\ IoapicSilent'
  BY <1>3, <1>5 DEF Inv, PicSilent, IoapicSilent, Setting, Polling, Questions
<1>8. pc' \in Setting => interrupt_controller' # "APIC"
  BY DEF Inv, Setting, Polling, Questions
<1> QED BY <1>4, <1>5, <1>6, <1>7, <1>8 DEF Inv

-----------------------------------------------------------------------------
\* idt_init, pic_init and apic_init.
LEMMA SettingStep ==
  ASSUME Inv, IdtInit \/ PicInit \/ UsePic \/ PitInit \/ SleepStart \/ StartTimer
                \/ PicDisable \/ Registers \/ UseApic
  PROVE  Inv'
<1>1. ASSUME IdtInit PROVE Inv'
  BY <1>1 DEF IdtInit, At, Go, Quiet, Inv, Types, PicSilent, IoapicSilent, Setting
<1>2. ASSUME PicInit PROVE Inv'
  <2>0. /\ interrupt_controller' = interrupt_controller /\ ioapic' = ioapic
        /\ lapic' = lapic /\ odd' = odd
        /\ pc \in {"reset pics", "mask pic 1", "mask pic 2"}
        /\ pc' \in {"mask pic 1", "mask pic 2", "use pic"}
    BY <1>2 DEF PicInit, PicStep, At, Go
  <2>1. \/ pic' = PicReset \/ pic' = PicMaskAll(0) \/ pic' = PicMaskAll(8)
    BY <1>2 DEF PicInit, PicStep
  <2>2. pic' \in [masked : SUBSET Int, latched : SUBSET Irq, service : SUBSET Irq]
        /\ pic'.service = {}
    <3>1. CASE pic' = PicReset
      BY <3>1 DEF PicReset
    <3>2. ASSUME NEW chip \in {0, 8}, pic' = PicMaskAll(chip)
          PROVE  /\ pic' \in [masked : SUBSET Int, latched : SUBSET Irq, service : SUBSET Irq]
                 /\ pic'.service = {}
      <4>1. chip .. chip + 7 \subseteq Int
        OBVIOUS
      <4> QED BY <3>2, <4>1 DEF PicMaskAll, Inv, Types
    <3> QED BY <2>1, <3>1, <3>2
  <2>3. Types' /\ interrupt_controller' # "APIC"
    BY <2>0, <2>2 DEF Inv, Types, Setting
  <2>4. PicSilent' /\ IoapicSilent'
    BY <2>0, <2>3 DEF Inv, PicSilent, IoapicSilent
  <2> QED BY <2>0, <2>2, <2>3, <2>4 DEF Inv
<1>3. ASSUME UsePic PROVE Inv'
  BY <1>3 DEF UsePic, UseController, At, Go, Quiet, Inv, Types, PicSilent, IoapicSilent,
              Setting, Polling, Questions
<1>4. ASSUME PitInit PROVE Inv'
  BY <1>4 DEF PitInit, PicStep, PicClear, At, Go, Quiet, Inv, Types, PicSilent, IoapicSilent,
              Setting
<1>5. ASSUME SleepStart \/ StartTimer PROVE Inv'
  BY <1>5, ZenonT(60) DEF SleepStart, StartTimer, At, Go, Quiet, Inv, Types, PicSilent, IoapicSilent, Setting
<1>6. ASSUME PicDisable PROVE Inv'
  <2>0. /\ interrupt_controller' = interrupt_controller /\ ioapic' = ioapic
        /\ lapic' = lapic /\ odd' = odd
        /\ interrupt_controller # "APIC"
    BY <1>6 DEF PicDisable, PicStep, At, Go, Inv, Setting
  <2>1. \/ pc' = "disable pic 2" /\ pic' = [pic EXCEPT !.masked = @ \cup 0 .. 7]
        \/ /\ pc = "disable pic 2" /\ pc' = "register 1"
           /\ pic' = [pic EXCEPT !.masked = @ \cup 8 .. 15]
    <3>1. 0 + 7 = 7 /\ 8 + 7 = 15
      OBVIOUS
    <3> QED BY <1>6, <3>1 DEF PicDisable, PicStep, PicMaskAll, At, Go
  <2>2. Types' /\ pic'.service = {}
    <3>1. 0 .. 7 \subseteq Int /\ 8 .. 15 \subseteq Int
      OBVIOUS
    <3>2. ASSUME NEW s \in SUBSET Int, pic' = [pic EXCEPT !.masked = @ \cup s]
          PROVE  /\ pic' \in [masked : SUBSET Int, latched : SUBSET Irq, service : SUBSET Irq]
                 /\ pic'.service = {}
      BY <3>2 DEF Inv, Types
    <3>3. /\ pic' \in [masked : SUBSET Int, latched : SUBSET Irq, service : SUBSET Irq]
          /\ pic'.service = {}
      BY <2>1, <3>1, <3>2
    <3> QED BY <2>0, <2>1, <3>3 DEF Inv, Types, Setting
  <2>3. PicSilent'
    <3>1. CASE pc' = "disable pic 2" /\ pic' = [pic EXCEPT !.masked = @ \cup 0 .. 7]
      BY <2>0, <3>1 DEF PicSilent, Inv, Types
    <3>2. CASE /\ pc = "disable pic 2" /\ pc' = "register 1"
               /\ pic' = [pic EXCEPT !.masked = @ \cup 8 .. 15]
      <4>1. pic'.masked = pic.masked \cup 8 .. 15 /\ 0 .. 7 \subseteq pic.masked
        BY <3>2 DEF PicSilent, Inv, Types
      <4>2. \A i \in 0 .. 15 : i \in 0 .. 7 \/ i \in 8 .. 15
        OBVIOUS
      <4> QED BY <3>2, <4>1, <4>2 DEF PicSilent
    <3> QED BY <2>1, <3>1, <3>2
  <2>4. IoapicSilent'
    BY <2>0, <2>1 DEF Inv, IoapicSilent
  <2> QED BY <2>0, <2>2, <2>3, <2>4 DEF Inv
<1>7. ASSUME Registers PROVE Inv'
  <2>0. /\ interrupt_controller' = interrupt_controller /\ pic' = pic
        /\ lapic' = lapic /\ odd' = odd
        /\ interrupt_controller # "APIC"
        /\ pc \in {"register 1", "register 12"}
    BY <1>7 DEF Registers, RegisterLine, At, Go, Inv, Setting
  <2>1. \/ pc' = "register 12" /\ ioapic' = [ioapic EXCEPT !.vector[1] = 33]
        \/ /\ pc = "register 12" /\ pc' = "use apic"
           /\ ioapic' = [ioapic EXCEPT !.vector[12] = 44]
    <3>1. Vector(1) = 33 /\ Vector(12) = 44
      BY DEF Vector
    <3> QED BY <1>7, <3>1 DEF Registers, RegisterLine, Register, At, Go
  <2>2. Types' /\ ioapic'.open = ioapic.open
    <3>1. ASSUME NEW i \in {1, 12}, NEW v \in {33, 44}, ioapic' = [ioapic EXCEPT !.vector[i] = v]
          PROVE  /\ ioapic' \in [open : SUBSET Irq, vector : [Irq -> {0, 33, 44}]]
                 /\ ioapic'.open = ioapic.open
      BY <3>1 DEF Inv, Types, Irq
    <3>2. /\ ioapic' \in [open : SUBSET Irq, vector : [Irq -> {0, 33, 44}]]
          /\ ioapic'.open = ioapic.open
      BY <2>1, <3>1
    <3> QED BY <2>0, <2>1, <3>2 DEF Inv, Types, Setting
  <2>3. /\ pc' = "register 12" => ioapic'.vector[1] = 33
        /\ pc' = "use apic" => ioapic'.vector[1] = 33 /\ ioapic'.vector[12] = 44
    <3>1. CASE pc' = "register 12" /\ ioapic' = [ioapic EXCEPT !.vector[1] = 33]
      BY <3>1 DEF Inv, Types, Irq
    <3>2. CASE /\ pc = "register 12" /\ pc' = "use apic"
               /\ ioapic' = [ioapic EXCEPT !.vector[12] = 44]
      BY <3>2 DEF Inv, Types, Irq, IoapicSilent
    <3> QED BY <2>1, <3>1, <3>2
  <2>4. PicSilent' /\ IoapicSilent'
    BY <2>0, <2>1, <2>2, <2>3 DEF Inv, PicSilent, IoapicSilent
  <2> QED BY <2>0, <2>2, <2>4 DEF Inv
<1>8. ASSUME UseApic PROVE Inv'
  BY <1>8 DEF UseApic, UseController, At, Go, Quiet, Inv, Types, PicSilent, IoapicSilent,
              Setting, Polling, Questions
<1> QED BY <1>1, <1>2, <1>3, <1>4, <1>5, <1>6, <1>7, <1>8

\* clear_mask, by whichever controller is in charge.
LEMMA UnmaskStep ==
  ASSUME Inv, NEW l, NEW irq \in {1, 12}, NEW next \in Polling, l \in Polling,
         Unmask(l, irq, next)
  PROVE  Inv'
<1>0. /\ pc = l /\ pc' = next /\ odd' = odd /\ lapic' = lapic
      /\ interrupt_controller' = interrupt_controller
  BY DEF Unmask, At, Go
<1>1. CASE interrupt_controller = "APIC"
  <2>1. ioapic' = [ioapic EXCEPT !.open = @ \cup {irq}] /\ pic' = pic
    BY <1>1 DEF Unmask, ClearMask
  <2> QED BY <1>0, <1>1, <2>1
          DEF Inv, Types, PicSilent, IoapicSilent, Setting, Polling, Questions, Irq
<1>2. CASE interrupt_controller # "APIC"
  <2>1. pic' = [pic EXCEPT !.masked = @ \ {irq}] /\ ioapic' = ioapic
    BY <1>2 DEF Unmask, ClearMask, PicClear
  <2> QED BY <1>0, <1>2, <2>1
          DEF Inv, Types, PicSilent, IoapicSilent, Setting, Polling, Questions
<1> QED BY <1>1, <1>2

\* Ticks of the PIT and of the LAPIC's timer.
LEMMA TickStep == ASSUME Inv, Ticks PROVE Inv'
<1>1. CASE PitTick
  BY <1>1 DEF Ticks, PitTick, Rest, Inv, Types, PicSilent, IoapicSilent, Irq
<1>2. CASE LapicTick
  BY <1>2 DEF Ticks, LapicTick, TimerVector, Rest, Inv, Types, PicSilent, IoapicSilent
<1> QED BY <1>1, <1>2 DEF Ticks

-----------------------------------------------------------------------------
\* What an interrupt may be: the timer's from either controller, the keyboard's or
\* the mouse's from the one in charge.
LEMMA GivenFacts ==
  ASSUME Inv, interrupt_controller # "none",
         NEW from \in {"PIC", "APIC"}, NEW v \in Pending(from)
  PROVE  \/ from = "PIC" /\ interrupt_controller # "APIC" /\ \E i \in Irq : v = Vector(i)
         \/ /\ from = "APIC" /\ v \in {32, 33, 44}
            /\ interrupt_controller # "APIC" => v = TimerVector
<1>1. CASE from = "PIC"
  <2>1. PicGives \subseteq Irq /\ (0 .. 15 \subseteq pic.masked => PicGives = {})
    BY PicGivesFacts DEF Inv
  <2>2. v \in {Vector(i) : i \in PicGives}
    BY <1>1 DEF Pending
  <2> QED BY <1>1, <2>1, <2>2 DEF Inv, PicSilent
<1>2. CASE from = "APIC"
  <2>1. v \in lapic.irr
    BY <1>2 DEF Pending, LapicGives
  <2> QED BY <1>2, <2>1 DEF Inv, Types, IoapicSilent
<1> QED BY <1>1, <1>2

\* What is in service after an interrupt: nothing that was not there before, but for
\* the LAPIC's tick that the PIC is told of.
LEMMA AcknowledgeFacts ==
  ASSUME Inv, interrupt_controller # "none",
         NEW from \in {"PIC", "APIC"}, NEW v \in Pending(from)
  PROVE  LET left == Acknowledge(v, from)
         IN  /\ left.service = {}
             /\ left.isr \subseteq lapic.isr \cup {v}
             /\ from = "PIC" => left.isr \subseteq lapic.isr
             /\ lapic.isr = {} /\ left.isr # {} =>
                  from = "APIC" /\ interrupt_controller # "APIC" /\ v = TimerVector
<1> DEFINE left == Acknowledge(v, from)
<1>0. pic.service = {} /\ interrupt_controller \in {"PIC", "APIC"}
  BY DEF Inv, Types
<1>1. CASE from = "PIC"
  <2>1. PICK i \in Irq : v = Vector(i)
    BY <1>1, GivenFacts
  <2>2. interrupt_controller = "PIC"
    BY <1>0, <1>1, GivenFacts
  <2>3. pic.service \cup {v - 32} = {i}
    BY <1>0, <2>1 DEF Vector, Irq
  <2>4. left = [service |-> {}, isr |-> lapic.isr]
    BY <1>1, <2>1, <2>2, <2>3, PicEoiFacts DEF Acknowledge
  <2> QED BY <1>1, <2>4
<1>2. CASE from = "APIC" /\ interrupt_controller = "PIC"
  <2>1. v = TimerVector /\ v = Vector(0) /\ 0 \in Irq
    BY <1>2, GivenFacts DEF TimerVector, Vector, Irq
  <2>2. left = [service |-> {}, isr |-> lapic.isr \cup {v}]
    BY <1>0, <1>2, <2>1, PicEoiFacts DEF Acknowledge
  <2> QED BY <1>2, <2>1, <2>2
<1>3. CASE from = "APIC" /\ interrupt_controller = "APIC"
  <2> DEFINE isr == lapic.isr \cup {v}
  <2>1. v \in Int
    BY <1>3, GivenFacts
  <2>2. \/ left = [service |-> {}, isr |-> LapicEoi(isr)]
        \/ left = [service |-> {}, isr |-> LapicEoi(LapicEoi(isr))]
    BY <1>0, <1>3 DEF Acknowledge
  <2>3. left.service = {} /\ left.isr \subseteq LapicEoi(isr)
    BY <2>2, LapicEoiFacts
  <2>4. LapicEoi(isr) \subseteq isr
    BY LapicEoiFacts
  <2>5. lapic.isr = {} => LapicEoi(isr) = {}
    <3>1. lapic.isr = {} => isr = {v}
      OBVIOUS
    <3> QED BY <2>1, <3>1, LapicEoiFacts
  <2> QED BY <1>3, <2>3, <2>4, <2>5
<1> QED BY <1>0, <1>1, <1>2, <1>3

\* The controllers after an interrupt.
LEMMA ServedStep ==
  ASSUME Inv, interrupt_controller # "none", UNCHANGED pc,
         NEW from \in {"PIC", "APIC"}, NEW v \in Pending(from),
         NEW rising \in SUBSET {1, 12}, NEW falling, Served(v, from, rising, falling),
         "early tick" \in odd => "early tick" \in odd',
         from = "APIC" /\ interrupt_controller # "APIC" /\ v = TimerVector =>
           "early tick" \in odd'
  PROVE  Inv'
<1> DEFINE left == Acknowledge(v, from)
           raised == {ioapic.vector[i] : i \in rising \cap ioapic.open}
           given == IF from = "PIC" THEN {v - 32} ELSE {}
           irr == (IF from = "APIC" THEN lapic.irr \ {v} ELSE lapic.irr) \cup raised
<1>0. /\ pic' = [pic EXCEPT !.latched = @ \ (falling \cup given), !.service = left.service]
      /\ lapic' = [lapic EXCEPT !.irr = irr, !.isr = left.isr]
      /\ interrupt_controller' = interrupt_controller /\ ioapic' = ioapic /\ pc' = pc
  BY DEF Served, Inv, Types
<1>1. /\ raised \subseteq {33, 44}
      /\ interrupt_controller # "APIC" => raised = {}
  <2>1. CASE interrupt_controller = "APIC"
    BY <2>1, ZenonT(60) DEF Inv, IoapicSilent
  <2>2. CASE interrupt_controller # "APIC"
    <3>1. ioapic.open = {}
      BY <2>2 DEF Inv, IoapicSilent
    <3> QED BY <2>2, <3>1
  <2> QED BY <2>1, <2>2
<1>2. /\ left.service = {}
      /\ left.isr \subseteq {32, 33, 44}
      /\ lapic.isr = {} /\ left.isr # {} =>
           from = "APIC" /\ interrupt_controller # "APIC" /\ v = TimerVector
  <2>1. /\ left.service = {}
        /\ left.isr \subseteq lapic.isr \cup {v}
        /\ from = "PIC" => left.isr \subseteq lapic.isr
        /\ lapic.isr = {} /\ left.isr # {} =>
             from = "APIC" /\ interrupt_controller # "APIC" /\ v = TimerVector
    BY AcknowledgeFacts
  <2>2. lapic.isr \subseteq {32, 33, 44} /\ (from = "APIC" => v \in {32, 33, 44})
    BY GivenFacts DEF Inv, Types
  <2> QED BY <2>1, <2>2
<1>3. /\ pic'.masked = pic.masked /\ pic'.service = {}
      /\ lapic'.irr = irr /\ lapic'.isr = left.isr
  BY <1>0, <1>2 DEF Inv, Types
<1>4. irr \subseteq lapic.irr \cup raised
  OBVIOUS
<1>5. Types'
  <2>1. pic' \in [masked : SUBSET Int, latched : SUBSET Irq, service : SUBSET Irq]
    <3>1. pic.latched \ (falling \cup given) \in SUBSET Irq
      BY DEF Inv, Types
    <3> QED BY <1>0, <1>2, <3>1 DEF Inv, Types
  <2>2. irr \subseteq {32, 33, 44}
    BY <1>1, <1>4 DEF Inv, Types
  <2>3. lapic' \in [irr : SUBSET {32, 33, 44}, isr : SUBSET {32, 33, 44}, timer : BOOLEAN]
    BY <1>0, <1>2, <2>2 DEF Inv, Types
  <2> QED BY <1>0, <2>1, <2>3 DEF Inv, Types
<1>6. PicSilent' /\ IoapicSilent'
  BY <1>0, <1>1, <1>3, <1>4 DEF Inv, PicSilent, IoapicSilent
<1>7. lapic'.isr # {} => "early tick" \in odd'
  BY <1>2, <1>3 DEF Inv
<1> QED BY <1>0, <1>3, <1>5, <1>6, <1>7 DEF Inv

\* isr_interrupt_handler
LEMMA InterruptStep == ASSUME Inv, Interrupt PROVE Inv'
<1>0. interrupt_controller # "none" /\ UNCHANGED pc
  BY DEF Interrupt
<1>1. ASSUME NEW from \in {"PIC", "APIC"}, TimerVector \in Pending(from), Timer(from)
      PROVE  Inv'
  <2>1. /\ "early tick" \in odd => "early tick" \in odd'
        /\ from = "APIC" /\ interrupt_controller # "APIC" => "early tick" \in odd'
    BY <1>0, <1>1 DEF Timer, Inv, Types
  <2>2. Served(TimerVector, from, {}, {})
    BY <1>1 DEF Timer
  <2> QED BY <1>0, <1>1, <2>1, <2>2, ServedStep
<1>2. ASSUME NEW from \in {"PIC", "APIC"}, NEW d, NEW irq \in {1, 12},
             Vector(irq) \in Pending(from), Callback(d, Vector(irq), from)
      PROVE  Inv'
  <2>1. PICK h : /\ Served(Vector(irq), from, Line(h) \ Line(hw), Line(hw))
                 /\ \E what : odd' = Kept(Emptied(h)) \cup what
    BY <1>2 DEF Callback
  <2>2. "early tick" \in odd => "early tick" \in odd'
    BY <2>1 DEF Kept
  <2>3. Line(h) \ Line(hw) \in SUBSET {1, 12}
    BY Lines
  <2>4. Vector(irq) # TimerVector
    BY DEF Vector, TimerVector
  <2> QED BY <1>0, <1>2, <2>1, <2>2, <2>3, <2>4, ServedStep
<1> QED BY <1>1, <1>2 DEF Interrupt

-----------------------------------------------------------------------------
LEMMA InitInv == Init => Inv
BY DEF Init, IntInit, Inv, Types, PicSilent, IoapicSilent, Setting, Irq, TimerVector

\* No step breaks the invariant.
LEMMA NextInv == Inv /\ [Next]_<<vars, machine>> => Inv'
<1> SUFFICES ASSUME Inv, [Next]_<<vars, machine>> PROVE Inv'
  OBVIOUS
<1>1. ASSUME UNCHANGED vars PROVE Inv'
  <2>1. UNCHANGED <<intVars, pc, odd>>
    BY <1>1 DEF vars
  <2> QED BY <2>1, SameControllers DEF Inv, Types
<1>2. ASSUME IdtInit \/ PicInit \/ UsePic \/ PitInit \/ SleepStart \/ StartTimer
               \/ PicDisable \/ Registers \/ UseApic
      PROVE  Inv'
  BY <1>2, SettingStep
<1>3. ASSUME Drain PROVE Inv'
  <2>1. UNCHANGED <<interrupt_controller, ioapic>> /\ pc = "drain" /\ pc' \in {"drain", "config"}
    BY <1>3 DEF Drain, At
  <2>2. \E h : Becomes(h) \/ BecomesRead(h)
    BY <1>3 DEF Drain
  <2> QED BY <2>1, <2>2, WireStep DEF Polling, Questions
<1>4. ASSUME NEW l \in Questions, Send(l) PROVE Inv'
  <2>1. UNCHANGED <<interrupt_controller, ioapic, pc>> /\ Becomes(Sent(l))
    BY <1>4 DEF Send
  <2> QED BY <2>1, WireStep
<1>5. ASSUME NEW l \in Questions, Wait(l) PROVE Inv'
  <2>1. UNCHANGED <<intVars, pc, odd>>
    BY <1>5 DEF Wait
  <2> QED BY <2>1, SameControllers DEF Inv, Types
<1>6. ASSUME NEW l \in Questions, Read(l) PROVE Inv'
  <2>1. /\ UNCHANGED <<interrupt_controller, ioapic>> /\ BecomesRead(Emptied(hw))
        /\ pc = l /\ pc' = After(l, hw.obf.byte)
    BY <1>6 DEF Read, At, Answered
  <2>2. pc \in Polling /\ pc' \in Polling
    BY <2>1, AfterFacts DEF Polling
  <2> QED BY <2>1, <2>2, WireStep
<1>7. ASSUME NEW l \in Questions, GiveUp(l) PROVE Inv'
  <2>1. /\ UNCHANGED intVars /\ pc = l /\ pc' = After(l, Timeout)
        /\ "early tick" \in odd => "early tick" \in odd'
    BY <1>7 DEF GiveUp, At, Answered
  <2>2. pc \in Polling /\ pc' \in Polling
    BY <2>1, AfterFacts DEF Polling
  <2> QED BY <2>1, <2>2, SameControllers
<1>8. ASSUME DriverInit PROVE Inv'
  <2>1. ASSUME NEW l \in Polling, NEW irq \in {1, 12}, NEW next \in Polling,
               Unmask(l, irq, next)
        PROVE  Inv'
    BY <2>1, UnmaskStep
  <2>2. ASSUME NEW l \in Polling, NEW d, NEW how, NEW next \in Polling,
               Buffer(l, d, how, next)
        PROVE  Inv'
    <3>1. UNCHANGED <<intVars, odd>> /\ pc = l /\ pc' = next
      BY <2>2 DEF Buffer, At, Go
    <3> QED BY <3>1, SameControllers
  <2>3. {"unmask 1", "kbd cap", "kbd buf", "mouse", "unmask 12", "mse cap", "mse buf", "loop"}
          \subseteq Polling
    BY DEF Polling, Questions
  <2> QED BY <1>8, <2>1, <2>2, <2>3 DEF DriverInit
<1>9. ASSUME LoopFaults \/ Type \/ Move \/ HandlerFaults PROVE Inv'
  <2>1. UNCHANGED <<intVars, pc>> /\ ("early tick" \in odd => "early tick" \in odd')
    BY <1>9 DEF LoopFaults, Type, Move, HandlerFaults, Happened
  <2> QED BY <2>1, SameControllers DEF Inv, Types
<1>10. ASSUME Interrupt PROVE Inv'
  BY <1>10, InterruptStep
<1>11. ASSUME Ticks PROVE Inv'
  BY <1>11, TickStep
<1>12. ASSUME Fill PROVE Inv'
  <2>1. UNCHANGED <<interrupt_controller, ioapic, pc>> /\ \E h : Becomes(h)
    BY <1>12 DEF Fill
  <2> QED BY <2>1, WireStep
<1> QED BY <1>1, <1>2, <1>3, <1>4, <1>5, <1>6, <1>7, <1>8, <1>9, <1>10, <1>11, <1>12
        DEF Next, Kmain, vars

\* Nothing a handler serves stays in service (apic_send_eoi, pic_send_eoi), whatever
\* is typed or moved and whenever the controller is changed, but for the LAPIC's
\* early tick.
THEOREM EveryInterruptAcknowledged == Spec => []Acknowledged
<1>1. Inv => Acknowledged
  BY DEF Inv, Acknowledged
<1> QED BY <1>1, InitInv, NextInv, PTL DEF Spec


-----------------------------------------------------------------------------
(* The bytes on their way.                                                  *)

\* Sequence s is what is left of the sequences all once those before c and o bytes of
\* all[c] are read: starts[i] is where in s all[i] begins, or would have begun.
Starts(s, all, c, o, starts) ==
  /\ starts \in [c .. Len(all) + 1 -> Int]
  /\ starts[c] = 1 - o /\ starts[Len(all) + 1] = Len(s) + 1
  /\ \A i \in c .. Len(all) : starts[i + 1] = starts[i] + Len(all[i]) /\ starts[i + 1] <= Len(s) + 1
  /\ \A i \in c .. Len(all) : \A x \in 1 .. Len(all[i]) :
       starts[i] + x >= 2 => s[starts[i] + x - 1] = all[i][x]

Ahead(s, all, c, o) ==
  /\ c \in 1 .. Len(all) + 1 /\ o \in Nat
  /\ IF c > Len(all) THEN o = 0 ELSE o < Len(all[c])
  /\ \E starts : Starts(s, all, c, o, starts)

\* Sequences of bytes, none of them empty.
Parts(B) == Seq(Seq(B) \ {<<>>})

LEMMA AheadNone ==
  ASSUME NEW B, NEW all \in Parts(B)
  PROVE  Ahead(<<>>, all, Len(all) + 1, 0)
<1> DEFINE starts == [i \in Len(all) + 1 .. Len(all) + 1 |-> 1]
<1>0. Len(all) \in Nat /\ Len(<<>>) = 0
  BY DEF Parts
<1>1. Starts(<<>>, all, Len(all) + 1, 0, starts)
  BY <1>0 DEF Starts
<1> QED BY <1>0, <1>1 DEF Ahead

\* More to come, after what is ahead.
LEMMA AheadMore ==
  ASSUME NEW B, NEW all \in Parts(B), NEW s \in Seq(B), NEW c, NEW o, Ahead(s, all, c, o),
         NEW e \in Seq(B) \ {<<>>}
  PROVE  Ahead(s \o e, Append(all, e), c, o)
<1> DEFINE t == s \o e
           more == Append(all, e)
           n == Len(all)
<1>0. /\ c \in 1 .. n + 1 /\ c \in Int /\ o \in Nat
      /\ IF c > n THEN o = 0 ELSE o < Len(all[c])
      /\ n \in Nat /\ Len(s) \in Nat /\ Len(e) \in Nat /\ Len(e) > 0
      /\ Len(t) = Len(s) + Len(e) /\ Len(more) = n + 1
      /\ more[n + 1] = e /\ \A i \in 1 .. n : more[i] = all[i] /\ Len(all[i]) \in Nat
      /\ \A x \in 1 .. Len(s) : t[x] = s[x]
      /\ \A x \in 1 .. Len(e) : t[Len(s) + x] = e[x]
  BY DEF Ahead, Parts
<1>1. PICK starts : Starts(s, all, c, o, starts)
  BY DEF Ahead
<1> DEFINE after == [i \in c .. n + 2 |-> IF i = n + 2 THEN Len(t) + 1 ELSE starts[i]]
<1>2. /\ starts \in [c .. n + 1 -> Int] /\ starts[c] = 1 - o /\ starts[n + 1] = Len(s) + 1
      /\ \A i \in c .. n : starts[i + 1] = starts[i] + Len(all[i]) /\ starts[i + 1] <= Len(s) + 1
      /\ \A i \in c .. n : \A x \in 1 .. Len(all[i]) :
           starts[i] + x >= 2 => s[starts[i] + x - 1] = all[i][x]
  BY <1>1 DEF Starts
<1> HIDE DEF t, more, n
<1>3. /\ after \in [c .. n + 2 -> Int] /\ after[c] = 1 - o /\ after[n + 2] = Len(t) + 1
      /\ \A i \in c .. n + 1 : after[i] = starts[i]
  BY <1>0, <1>2
<1> HIDE DEF after
<1>4. ASSUME NEW i \in c .. n + 1
      PROVE  after[i + 1] = after[i] + Len(more[i]) /\ after[i + 1] <= Len(t) + 1
  <2>1. CASE i = n + 1
    BY <2>1, <1>0, <1>2, <1>3
  <2>2. CASE i # n + 1
    <3>1. i \in c .. n /\ i + 1 \in c .. n + 1 /\ i \in 1 .. n
      BY <2>2, <1>0
    <3>2. starts[i + 1] = starts[i] + Len(all[i]) /\ starts[i + 1] <= Len(s) + 1
      BY <3>1, <1>2
    <3>3. after[i] = starts[i] /\ after[i + 1] = starts[i + 1] /\ more[i] = all[i]
      BY <3>1, <1>0, <1>3
    <3>4. starts[i + 1] \in Int /\ Len(t) >= Len(s) /\ Len(t) \in Int
      BY <3>1, <1>0, <1>2
    <3> HIDE DEF t, more
    <3> QED BY <3>2, <3>3, <3>4, <1>0
  <2> QED BY <2>1, <2>2
<1>5. ASSUME NEW i \in c .. n + 1, NEW x \in 1 .. Len(more[i]), after[i] + x >= 2
      PROVE  t[after[i] + x - 1] = more[i][x]
  <2>1. CASE i = n + 1
    <3>1. after[i] + x - 1 = Len(s) + x /\ x \in 1 .. Len(e)
      BY <2>1, <1>0, <1>2, <1>3
    <3> QED BY <2>1, <3>1, <1>0
  <2>2. CASE i # n + 1
    <3>1. i \in c .. n /\ i \in 1 .. n /\ more[i] = all[i] /\ after[i] = starts[i]
      BY <2>2, <1>0, <1>3
    <3>2. starts[i] \in Int /\ starts[i] + Len(all[i]) <= Len(s) + 1 /\ x \in 1 .. Len(all[i])
      <4>1. starts[i + 1] = starts[i] + Len(all[i]) /\ starts[i + 1] <= Len(s) + 1
        BY <3>1, <1>2
      <4>2. i \in c .. n + 1
        BY <3>1, <1>0
      <4> QED BY <3>1, <4>1, <4>2, <1>2
    <3>3. starts[i] + x - 1 \in 1 .. Len(s)
      <4>1. starts[i] + x >= 2 /\ Len(all[i]) \in Nat /\ Len(s) \in Nat
        BY <1>5, <3>1, <1>0
      <4>2. x \in Int /\ x <= Len(all[i])
        BY <3>2, <4>1
      <4> QED BY <3>2, <4>1, <4>2, SMTT(30)
    <3>4. s[starts[i] + x - 1] = all[i][x]
      BY <1>5, <3>1, <3>2, <1>2
    <3> QED BY <3>1, <3>3, <3>4, <1>0
  <2> QED BY <2>1, <2>2
<1>6. Starts(t, more, c, o, after)
  <2>1. Len(more) + 1 = n + 2 /\ Len(more) = n + 1
    BY <1>0
  <2> QED BY <2>1, <1>3, <1>4, <1>5 DEF Starts
<1>7. IF c > Len(more) THEN o = 0 ELSE o < Len(more[c])
  BY <1>0
<1>8. c \in 1 .. Len(more) + 1
  BY <1>0
<1> QED BY <1>0, <1>6, <1>7, <1>8 DEF Ahead, t, more

\* The first byte ahead, and what is ahead after it.
LEMMA AheadHead ==
  ASSUME NEW B, NEW all \in Parts(B), NEW s \in Seq(B), NEW c, NEW o, Ahead(s, all, c, o),
         s # <<>>
  PROVE  /\ c \in 1 .. Len(all) /\ o + 1 \in 1 .. Len(all[c]) /\ s[1] = all[c][o + 1]
         /\ IF o + 1 < Len(all[c]) THEN Ahead(Tail(s), all, c, o + 1)
            ELSE o + 1 = Len(all[c]) /\ Ahead(Tail(s), all, c + 1, 0)
<1> DEFINE n == Len(all)
           t == Tail(s)
<1>0. /\ c \in 1 .. n + 1 /\ c \in Int /\ o \in Nat
      /\ IF c > n THEN o = 0 ELSE o < Len(all[c])
      /\ n \in Nat /\ Len(s) \in Nat /\ Len(s) >= 1 /\ Len(t) = Len(s) - 1
      /\ \A i \in 1 .. n : Len(all[i]) \in Nat /\ Len(all[i]) > 0
      /\ \A x \in 1 .. Len(s) - 1 : t[x] = s[x + 1]
  BY DEF Ahead, Parts
<1>1. PICK starts : Starts(s, all, c, o, starts)
  BY DEF Ahead
<1>2. /\ starts \in [c .. n + 1 -> Int] /\ starts[c] = 1 - o /\ starts[n + 1] = Len(s) + 1
      /\ \A i \in c .. n : starts[i + 1] = starts[i] + Len(all[i]) /\ starts[i + 1] <= Len(s) + 1
      /\ \A i \in c .. n : \A x \in 1 .. Len(all[i]) :
           starts[i] + x >= 2 => s[starts[i] + x - 1] = all[i][x]
  BY <1>1 DEF Starts
<1> HIDE DEF n, t
<1>3. c \in 1 .. n
  BY <1>0, <1>2
<1>4. o + 1 \in 1 .. Len(all[c])
  BY <1>0, <1>3
<1>5. s[1] = all[c][o + 1]
  <2>1. starts[c] + (o + 1) >= 2 /\ starts[c] + (o + 1) - 1 = 1 /\ c \in c .. n
    BY <1>0, <1>2, <1>3
  <2>2. s[starts[c] + (o + 1) - 1] = all[c][o + 1]
    BY <2>1, <1>2, <1>4
  <2> QED BY <2>1, <2>2
<1>6. ASSUME NEW d \in {c, c + 1}, NEW p \in Nat, starts[d] - 1 = 1 - p, d \in 1 .. n + 1
      PROVE  \E after : Starts(t, all, d, p, after)
  <2> DEFINE after == [i \in d .. n + 1 |-> starts[i] - 1]
  <2>1. /\ after \in [d .. n + 1 -> Int] /\ after[d] = 1 - p /\ after[n + 1] = Len(t) + 1
        /\ \A i \in d .. n + 1 : after[i] = starts[i] - 1 /\ i \in c .. n + 1 /\ starts[i] \in Int
    BY <1>0, <1>2, <1>3, <1>6, SMTT(30)
  <2> HIDE DEF after
  <2>2. ASSUME NEW i \in d .. n
        PROVE  after[i + 1] = after[i] + Len(all[i]) /\ after[i + 1] <= Len(t) + 1
    <3>1. i \in d .. n + 1 /\ i + 1 \in d .. n + 1 /\ i \in c .. n /\ i \in 1 .. n
      BY <1>0, <1>3
    <3>2. starts[i + 1] = starts[i] + Len(all[i]) /\ starts[i + 1] <= Len(s) + 1
      BY <3>1, <1>2
    <3>3. /\ after[i] = starts[i] - 1 /\ after[i + 1] = starts[i + 1] - 1
          /\ starts[i] \in Int /\ starts[i + 1] \in Int /\ Len(all[i]) \in Nat
      BY <3>1, <1>0, <2>1
    <3>4. i \in Int /\ Len(s) \in Int /\ Len(t) = Len(s) - 1
      BY <1>0, <3>1
    <3> QED BY <3>2, <3>3, <3>4, SMTT(30)
  <2>3. ASSUME NEW i \in d .. n, NEW x \in 1 .. Len(all[i]), after[i] + x >= 2
        PROVE  t[after[i] + x - 1] = all[i][x]
    <3>1. i \in d .. n + 1 /\ i \in c .. n /\ i \in 1 .. n /\ after[i] = starts[i] - 1
      BY <1>0, <1>3, <2>1
    <3>2. starts[i] + Len(all[i]) <= Len(s) + 1 /\ starts[i] \in Int /\ Len(all[i]) \in Nat
      <4>1. starts[i + 1] = starts[i] + Len(all[i]) /\ starts[i + 1] <= Len(s) + 1
        BY <3>1, <1>2
      <4> QED BY <3>1, <4>1, <1>0, <2>1
    <3>3. starts[i] + x >= 2 /\ after[i] + x - 1 \in 1 .. Len(s) - 1
      <4>1. after[i] + x >= 2 /\ after[i] = starts[i] - 1 /\ Len(s) \in Nat
        BY <3>1, <2>3, <1>0
      <4>2. x \in Int /\ x <= Len(all[i])
        BY <3>2
      <4> QED BY <3>2, <4>1, <4>2, SMTT(30)
    <3>4. t[after[i] + x - 1] = s[(after[i] + x - 1) + 1] /\ s[starts[i] + x - 1] = all[i][x]
      BY <3>1, <3>3, <1>0, <1>2
    <3>5. (after[i] + x - 1) + 1 = starts[i] + x - 1
      BY <3>1, <3>2
    <3> QED BY <3>4, <3>5
  <2>4. Starts(t, all, d, p, after)
    BY <2>1, <2>2, <2>3 DEF Starts, n
  <2> QED BY <2>4
<1>7. CASE o + 1 < Len(all[c])
  <2>1. starts[c] - 1 = 1 - (o + 1) /\ o + 1 \in Nat /\ c \in 1 .. n + 1
    BY <1>0, <1>2, <1>3
  <2>2. \E after : Starts(t, all, c, o + 1, after)
    BY <1>6, <2>1
  <2>3. Ahead(t, all, c, o + 1)
    BY <1>0, <1>3, <1>7, <2>1, <2>2 DEF Ahead, n
  <2> QED BY <1>3, <1>4, <1>5, <1>7, <2>3 DEF n, t
<1>8. CASE ~(o + 1 < Len(all[c]))
  <2>1. o + 1 = Len(all[c])
    BY <1>0, <1>3, <1>8
  <2>2. starts[c + 1] = starts[c] + Len(all[c])
    BY <1>0, <1>2, <1>3
  <2>3. starts[c + 1] - 1 = 1 - 0 /\ c + 1 \in 1 .. n + 1
    BY <1>0, <1>2, <1>3, <2>1, <2>2, SMTT(30)
  <2>4. \E after : Starts(t, all, c + 1, 0, after)
    BY <1>6, <2>3
  <2>5. IF c + 1 > n THEN 0 = 0 ELSE 0 < Len(all[c + 1])
    BY <1>0, <2>3
  <2>6. Ahead(t, all, c + 1, 0)
    BY <2>3, <2>4, <2>5 DEF Ahead, n
  <2> QED BY <1>3, <1>4, <1>5, <1>8, <2>1, <2>6 DEF n, t
<1> QED BY <1>7, <1>8

\* Sequence w is s, or s without one ACK.
Woven(s, w) ==
  \/ s = w
  \/ /\ Len(w) = Len(s) - 1
     /\ \E a \in 1 .. Len(s) :
          s[a] = ACK /\ \A i \in 1 .. Len(w) : w[i] = IF i < a THEN s[i] ELSE s[i + 1]

LEMMA WovenMore ==
  ASSUME NEW B, NEW s \in Seq(B), NEW w \in Seq(B), Woven(s, w), NEW e \in Seq(B)
  PROVE  Woven(s \o e, w \o e)
<1>1. CASE s = w
  BY <1>1 DEF Woven
<1>2. CASE s # w
  <2>0. Len(w) = Len(s) - 1 /\ Len(s) \in Nat /\ Len(w) \in Nat /\ Len(e) \in Nat
    BY <1>2 DEF Woven
  <2>1. PICK a \in 1 .. Len(s) :
          s[a] = ACK /\ \A i \in 1 .. Len(w) : w[i] = IF i < a THEN s[i] ELSE s[i + 1]
    BY <1>2 DEF Woven
  <2> DEFINE t == s \o e
             v == w \o e
  <2>2. /\ Len(t) = Len(s) + Len(e) /\ Len(v) = Len(w) + Len(e)
        /\ \A i \in 1 .. Len(t) : t[i] = IF i <= Len(s) THEN s[i] ELSE e[i - Len(s)]
        /\ \A i \in 1 .. Len(v) : v[i] = IF i <= Len(w) THEN w[i] ELSE e[i - Len(w)]
    OBVIOUS
  <2> HIDE DEF t, v
  <2>3. ASSUME NEW i \in 1 .. Len(v) PROVE v[i] = IF i < a THEN t[i] ELSE t[i + 1]
    <3>1. CASE i <= Len(w)
      BY <3>1, <2>0, <2>1, <2>2
    <3>2. CASE i > Len(w)
      <4>1. ~(i < a) /\ ~(i <= Len(w)) /\ i + 1 \in 1 .. Len(t) /\ ~(i + 1 <= Len(s))
        BY <3>2, <2>0, <2>2
      <4>2. v[i] = e[i - Len(w)] /\ t[i + 1] = e[(i + 1) - Len(s)] /\ (i + 1) - Len(s) = i - Len(w)
        BY <4>1, <2>0, <2>2
      <4> QED BY <4>1, <4>2
    <3> QED BY <3>1, <3>2, <2>0
  <2>4. a \in 1 .. Len(t) /\ t[a] = ACK /\ Len(v) = Len(t) - 1
    BY <2>0, <2>1, <2>2
  <2> QED BY <2>3, <2>4 DEF Woven, t, v
<1> QED BY <1>1, <1>2

LEMMA WovenAck ==
  ASSUME NEW B, NEW s \in Seq(B), ACK \in B
  PROVE  Woven(s \o <<ACK>>, s)
<1>1. Len(s) + 1 \in 1 .. Len(s \o <<ACK>>)
  OBVIOUS
<1>2. (s \o <<ACK>>)[Len(s) + 1] = ACK /\ Len(s) = Len(s \o <<ACK>>) - 1
  OBVIOUS
<1>3. \A i \in 1 .. Len(s) : i < Len(s) + 1 /\ s[i] = (s \o <<ACK>>)[i]
  OBVIOUS
<1> QED BY <1>1, <1>2, <1>3 DEF Woven

LEMMA WovenHead ==
  ASSUME NEW B, NEW s \in Seq(B), NEW w \in Seq(B), Woven(s, w), s # <<>>
  PROVE  \/ s[1] = ACK /\ w = Tail(s)
         \/ w # <<>> /\ w[1] = s[1] /\ Woven(Tail(s), Tail(w))
<1>0. /\ Len(s) \in Nat /\ Len(w) \in Nat /\ Len(s) >= 1
      /\ Len(Tail(s)) = Len(s) - 1 /\ \A i \in 1 .. Len(s) - 1 : Tail(s)[i] = s[i + 1]
  OBVIOUS
<1>1. CASE s = w
  BY <1>1 DEF Woven
<1>2. CASE s # w
  <2>0. Len(w) = Len(s) - 1
    BY <1>2 DEF Woven
  <2>1. PICK a \in 1 .. Len(s) :
          s[a] = ACK /\ \A i \in 1 .. Len(w) : w[i] = IF i < a THEN s[i] ELSE s[i + 1]
    BY <1>2 DEF Woven
  <2>2. CASE a = 1
    <3>1. \A i \in 1 .. Len(w) : w[i] = Tail(s)[i]
      BY <2>0, <2>1, <2>2, <1>0
    <3>2. w = Tail(s)
      BY <3>1, <2>0, <1>0
    <3> QED BY <2>1, <2>2, <3>2
  <2>3. CASE a # 1
    <3>1. a - 1 \in 1 .. Len(s) - 1 /\ 1 \in 1 .. Len(w) /\ 1 < a
      BY <2>0, <2>1, <2>3, <1>0
    <3>2. w # <<>> /\ w[1] = s[1]
      BY <3>1, <2>1
    <3>3. Len(Tail(w)) = Len(w) - 1 /\ \A i \in 1 .. Len(w) - 1 : Tail(w)[i] = w[i + 1]
      BY <3>2
    <3>4. Tail(s)[a - 1] = ACK
      <4>1. (a - 1) + 1 = a
        BY <3>1
      <4> QED BY <3>1, <4>1, <2>1, <1>0
    <3>5. ASSUME NEW i \in 1 .. Len(Tail(w))
          PROVE  Tail(w)[i] = IF i < a - 1 THEN Tail(s)[i] ELSE Tail(s)[i + 1]
      <4>1. i \in 1 .. Len(w) - 1 /\ i + 1 \in 1 .. Len(w) /\ i + 1 \in 1 .. Len(s) - 1 /\ i \in 1 .. Len(s) - 1
        BY <3>3, <2>0, <1>0
      <4>2. Tail(w)[i] = w[i + 1] /\ Tail(s)[i] = s[i + 1] /\ Tail(s)[i + 1] = s[(i + 1) + 1]
        BY <4>1, <3>3, <1>0
      <4>3. w[i + 1] = IF i + 1 < a THEN s[i + 1] ELSE s[(i + 1) + 1]
        BY <4>1, <2>1
      <4>4. i + 1 < a <=> i < a - 1
        BY <4>1
      <4> QED BY <4>2, <4>3, <4>4
    <3>6. Len(Tail(w)) = Len(Tail(s)) - 1 /\ a - 1 \in 1 .. Len(Tail(s))
      BY <3>1, <3>3, <2>0, <1>0
    <3>7. Woven(Tail(s), Tail(w))
      BY <3>4, <3>5, <3>6 DEF Woven
    <3> QED BY <3>2, <3>7
  <2> QED BY <2>2, <2>3
<1> QED BY <1>1, <1>2


-----------------------------------------------------------------------------
(* The PS/2 controller's hardware.                                          *)

Answers == {ACK, "AA", "02", "00", "55", "FC", "port 2 on", "port 2 off"}
Byte == Input \cup Answers \cup {"none"}

Hardware ==
  [obf : [full : BOOLEAN, from : {"none", "ctrl", "kbd", "mse"}, byte : Byte],
   answers : Seq(Byte), kbd : Seq(Byte), mse : Seq(Byte),
   clock : [kbd : BOOLEAN, mse : BOOLEAN], int : [kbd : BOOLEAN, mse : BOOLEAN],
   reporting : BOOLEAN]

\* The output buffer holds a byte of device d; and the bytes of d that no one has read.
Holds(h, d) == h.obf.full /\ h.obf.from = d
Stream(h, d) == (IF Holds(h, d) THEN <<h.obf.byte>> ELSE <<>>) \o h[d]

\* The answer 02, the scancode set, comes from the keyboard and from no one else.
NoTwo(s) == \A i \in 1 .. Len(s) : s[i] # "02"
TwoIsKbds(h) == (h.obf.byte = "02" => h.obf.from = "kbd") /\ NoTwo(h.answers) /\ NoTwo(h.mse)

LEMMA LineFacts ==
  ASSUME NEW h
  PROVE  /\ 1 \in Line(h) <=> (Holds(h, "kbd") /\ h.int["kbd"])
         /\ 12 \in Line(h) <=> (Holds(h, "mse") /\ h.int["mse"])
         /\ Line(h) \subseteq {1, 12}
BY DEF Line, IrqOf, Holds

LEMMA SeqTwo ==
  ASSUME NEW B, NEW s \in Seq(B)
  PROVE  /\ <<>> \o s = s
         /\ \A b \in B : <<b>> \o s \in Seq(B) /\ <<b>> \o s # <<>> /\ (<<b>> \o s)[1] = b
                         /\ Tail(<<b>> \o s) = s
         /\ s # <<>> => /\ <<Head(s)>> \o Tail(s) = s /\ Head(s) = s[1] /\ Head(s) \in B
                        /\ Tail(s) \in Seq(B) /\ 1 \in 1 .. Len(s)
         /\ s \o <<>> = s
<1>1. <<>> \o s = s /\ s \o <<>> = s
  OBVIOUS
<1>2. ASSUME NEW b \in B
      PROVE  <<b>> \o s \in Seq(B) /\ <<b>> \o s # <<>> /\ (<<b>> \o s)[1] = b
             /\ Tail(<<b>> \o s) = s
  <2>1. <<b>> \o s \in Seq(B) /\ Len(<<b>> \o s) = 1 + Len(s) /\ (<<b>> \o s)[1] = b
    OBVIOUS
  <2>2. <<b>> \o s # <<>>
    BY <2>1
  <2>3. Tail(<<b>> \o s) \in Seq(B) /\ Len(Tail(<<b>> \o s)) = Len(s)
    BY <2>1, <2>2
  <2>4. \A i \in 1 .. Len(s) : Tail(<<b>> \o s)[i] = s[i]
    BY <2>1, <2>2
  <2>5. Tail(<<b>> \o s) = s
    BY <2>3, <2>4
  <2> QED BY <2>1, <2>2, <2>5
<1>3. ASSUME s # <<>>
      PROVE  /\ <<Head(s)>> \o Tail(s) = s /\ Head(s) = s[1] /\ Head(s) \in B
             /\ Tail(s) \in Seq(B) /\ 1 \in 1 .. Len(s)
  <2>1. Head(s) = s[1] /\ Head(s) \in B /\ Tail(s) \in Seq(B) /\ Len(s) >= 1
    BY <1>3
  <2>2. <<Head(s)>> \o Tail(s) \in Seq(B) /\ Len(<<Head(s)>> \o Tail(s)) = Len(s)
    BY <1>3, <2>1
  <2>3. \A i \in 1 .. Len(s) : (<<Head(s)>> \o Tail(s))[i] = s[i]
    BY <1>3, <2>1
  <2>4. <<Head(s)>> \o Tail(s) = s
    BY <2>2, <2>3
  <2> QED BY <2>1, <2>4
<1> QED BY <1>1, <1>2, <1>3

LEMMA StreamFacts ==
  ASSUME NEW h \in Hardware, NEW d \in {"kbd", "mse"}
  PROVE  /\ h[d] \in Seq(Byte) /\ Stream(h, d) \in Seq(Byte)
         /\ Holds(h, d) => /\ Stream(h, d) # <<>> /\ Stream(h, d)[1] = h.obf.byte
                           /\ Tail(Stream(h, d)) = h[d]
         /\ ~Holds(h, d) => Stream(h, d) = h[d]
<1>1. h[d] \in Seq(Byte) /\ h.obf.byte \in Byte
  BY DEF Hardware
<1>2. CASE Holds(h, d)
  <2>1. Stream(h, d) = <<h.obf.byte>> \o h[d]
    BY <1>2 DEF Stream
  <2> QED BY <1>1, <1>2, <2>1, SeqTwo
<1>3. CASE ~Holds(h, d)
  <2>1. Stream(h, d) = <<>> \o h[d]
    BY <1>3 DEF Stream
  <2> QED BY <1>1, <1>3, <2>1, SeqTwo
<1> QED BY <1>2, <1>3

\* The buffer is read.
LEMMA EmptiedFacts ==
  ASSUME NEW h \in Hardware
  PROVE  LET g == Emptied(h)
         IN  /\ g \in Hardware /\ ~g.obf.full
             /\ g.obf.byte = h.obf.byte /\ g.obf.from = h.obf.from /\ g.int = h.int
             /\ \A d \in {"kbd", "mse"} : g[d] = h[d] /\ Stream(g, d) = h[d] /\ ~Holds(g, d)
             /\ TwoIsKbds(h) => TwoIsKbds(g)
             /\ Line(g) = {}
<1> DEFINE g == Emptied(h)
<1>1. /\ g \in Hardware /\ ~g.obf.full
      /\ g.obf.byte = h.obf.byte /\ g.obf.from = h.obf.from /\ g.int = h.int
      /\ g.kbd = h.kbd /\ g.mse = h.mse /\ g.answers = h.answers
  BY DEF Emptied, Hardware
<1> HIDE DEF g
<1>2. \A d \in {"kbd", "mse"} : g[d] = h[d] /\ ~Holds(g, d)
  BY <1>1 DEF Holds
<1>3. \A d \in {"kbd", "mse"} : Stream(g, d) = h[d]
  BY <1>1, <1>2, StreamFacts
<1>4. TwoIsKbds(h) => TwoIsKbds(g)
  BY <1>1 DEF TwoIsKbds
<1>5. Line(g) = {}
  BY <1>2, LineFacts
<1> QED BY <1>1, <1>2, <1>3, <1>4, <1>5 DEF g

\* The buffer is filled: nothing is lost.
LEMMA FillFacts ==
  ASSUME NEW h \in Hardware, NEW g \in Fillings(h)
  PROVE  /\ g \in Hardware /\ ~h.obf.full /\ g.obf.full /\ g.int = h.int
         /\ \A d \in {"kbd", "mse"} : Stream(g, d) = Stream(h, d)
         /\ TwoIsKbds(h) => TwoIsKbds(g)
<1>0. ~h.obf.full
  BY DEF Fillings
<1>1. CASE h.answers # <<>>
  <2>1. g = [h EXCEPT !.obf = [full |-> TRUE, from |-> "ctrl", byte |-> Head(h.answers)],
                      !.answers = Tail(h.answers)]
    BY <1>0, <1>1 DEF Fillings, Hardware
  <2>2. h.answers \in Seq(Byte)
    BY DEF Hardware
  <2>3. Head(h.answers) \in Byte /\ Tail(h.answers) \in Seq(Byte) /\ Head(h.answers) = h.answers[1]
        /\ 1 \in 1 .. Len(h.answers)
    BY <2>2, <1>1, SeqTwo
  <2>4. /\ g \in Hardware /\ g.obf.full /\ g.int = h.int /\ g.kbd = h.kbd /\ g.mse = h.mse
        /\ g.obf.from = "ctrl" /\ g.obf.byte = Head(h.answers) /\ g.answers = Tail(h.answers)
    BY <2>1, <2>3 DEF Hardware
  <2>5. ASSUME NEW d \in {"kbd", "mse"} PROVE Stream(g, d) = Stream(h, d)
    <3>1. ~Holds(g, d) /\ ~Holds(h, d) /\ g[d] = h[d]
      BY <1>0, <2>4 DEF Holds
    <3> QED BY <3>1, <2>4, StreamFacts
  <2>6. ASSUME TwoIsKbds(h) PROVE TwoIsKbds(g)
    <3>1. Head(h.answers) # "02"
      BY <2>3, <2>6 DEF TwoIsKbds, NoTwo
    <3>2. NoTwo(Tail(h.answers))
      <4>1. \A i \in 1 .. Len(Tail(h.answers)) :
              Tail(h.answers)[i] = h.answers[i + 1] /\ i + 1 \in 1 .. Len(h.answers)
        BY <2>2, <1>1
      <4> QED BY <4>1, <2>6 DEF TwoIsKbds, NoTwo
    <3> QED BY <3>1, <3>2, <2>4, <2>6 DEF TwoIsKbds
  <2> QED BY <1>0, <2>4, <2>5, <2>6
<1>2. CASE h.answers = <<>>
  <2>1. PICK d \in {"kbd", "mse"} :
          /\ h[d] # <<>>
          /\ g = [h EXCEPT !.obf = [full |-> TRUE, from |-> d, byte |-> Head(h[d])],
                           ![d] = Tail(h[d])]
    <3>1. \E d \in {e \in {"kbd", "mse"} : h.clock[e] /\ h[e] # <<>>} :
            g = [h EXCEPT !.obf = [full |-> TRUE, from |-> d, byte |-> Head(h[d])], ![d] = Tail(@)]
      BY <1>0, <1>2 DEF Fillings
    <3>2. ASSUME NEW d \in {"kbd", "mse"}, NEW o
          PROVE  [h EXCEPT !.obf = o, ![d] = Tail(@)] = [h EXCEPT !.obf = o, ![d] = Tail(h[d])]
      <4>1. CASE d = "kbd"
        BY <4>1 DEF Hardware
      <4>2. CASE d = "mse"
        BY <4>2 DEF Hardware
      <4> QED BY <4>1, <4>2
    <3> QED BY <3>1, <3>2
  <2>2. h[d] \in Seq(Byte)
    BY StreamFacts
  <2>3. Head(h[d]) \in Byte /\ Tail(h[d]) \in Seq(Byte) /\ Head(h[d]) = h[d][1]
        /\ 1 \in 1 .. Len(h[d]) /\ <<Head(h[d])>> \o Tail(h[d]) = h[d]
    BY <2>1, <2>2, SeqTwo
  <2>4. /\ g \in Hardware /\ g.obf.full /\ g.int = h.int /\ g.answers = h.answers
        /\ g.obf.from = d /\ g.obf.byte = Head(h[d]) /\ g[d] = Tail(h[d])
        /\ \A e \in {"kbd", "mse"} \ {d} : g[e] = h[e]
    <3>1. CASE d = "kbd"
      BY <2>1, <2>3, <3>1 DEF Hardware
    <3>2. CASE d = "mse"
      BY <2>1, <2>3, <3>2 DEF Hardware
    <3> QED BY <3>1, <3>2
  <2>5. ASSUME NEW e \in {"kbd", "mse"} PROVE Stream(g, e) = Stream(h, e)
    <3>1. ~Holds(h, e) /\ Stream(h, e) = h[e]
      BY <1>0, StreamFacts DEF Holds
    <3>2. CASE e = d
      <4>1. Stream(g, e) = <<Head(h[d])>> \o Tail(h[d])
        BY <2>4, <3>2 DEF Stream, Holds
      <4> QED BY <4>1, <3>1, <3>2, <2>3
    <3>3. CASE e # d
      BY <3>1, <3>3, <2>4, StreamFacts DEF Holds
    <3> QED BY <3>2, <3>3
  <2>6. ASSUME TwoIsKbds(h) PROVE TwoIsKbds(g)
    <3>1. CASE d = "kbd"
      BY <2>4, <2>6, <3>1 DEF TwoIsKbds
    <3>2. CASE d = "mse"
      <4>1. Head(h.mse) # "02"
        BY <2>3, <2>6, <3>2 DEF TwoIsKbds, NoTwo
      <4>2. h.mse # <<>> /\ h.mse \in Seq(Byte)
        BY <2>2, <2>3, <3>2
      <4>3. NoTwo(Tail(h.mse))
        <5>1. \A i \in 1 .. Len(Tail(h.mse)) :
                Tail(h.mse)[i] = h.mse[i + 1] /\ i + 1 \in 1 .. Len(h.mse)
          BY <4>2
        <5> QED BY <5>1, <2>6 DEF TwoIsKbds, NoTwo
      <4> QED BY <4>1, <4>3, <2>4, <2>6, <3>2 DEF TwoIsKbds
    <3> QED BY <3>1, <3>2
  <2> QED BY <1>0, <2>4, <2>5, <2>6
<1> QED BY <1>1, <1>2


-----------------------------------------------------------------------------
(* Writes to the controller.                                                *)

Machine == [apic : BOOLEAN, works : BOOLEAN, dual : BOOLEAN, keeps : BOOLEAN, reports : BOOLEAN]

LEMMA MachineFacts == Machines \subseteq Machine
<1>1. Usual \in Machine
  BY DEF Usual, Machine
<1>2. ASSUME NEW f \in DOMAIN Usual PROVE [Usual EXCEPT ![f] = ~@] \in Machine
  <2>1. DOMAIN Usual = {"apic", "works", "dual", "keeps", "reports"}
    BY DEF Usual
  <2>3. \A b \in BOOLEAN : [Usual EXCEPT ![f] = b] \in Machine
    <3>1. ASSUME NEW b \in BOOLEAN PROVE [Usual EXCEPT ![f] = b] \in Machine
      <4>1. CASE f = "apic"
        BY <4>1 DEF Usual, Machine
      <4>2. CASE f = "works"
        BY <4>2 DEF Usual, Machine
      <4>3. CASE f = "dual"
        BY <4>3 DEF Usual, Machine
      <4>4. CASE f = "keeps"
        BY <4>4 DEF Usual, Machine
      <4>5. CASE f = "reports"
        BY <4>5 DEF Usual, Machine
      <4> QED BY <2>1, <4>1, <4>2, <4>3, <4>4, <4>5
    <3> QED BY <3>1
  <2>4. (~Usual[f]) \in BOOLEAN
    OBVIOUS
  <2> QED BY <2>3, <2>4
<1> QED BY <1>1, <1>2 DEF Machines

\* A write that leaves the buffer and the devices' bytes alone.
Plain(h, g) ==
  /\ g \in Hardware /\ g.obf = h.obf /\ g.kbd = h.kbd /\ g.mse = h.mse
  /\ NoTwo(h.answers) => NoTwo(g.answers)

LEMMA PlainAnswer ==
  ASSUME NEW h \in Hardware, NEW b \in Answers \ {"02"}
  PROVE  Plain(h, Answer(h, b))
<1> DEFINE g == Answer(h, b)
<1>1. h.answers \in Seq(Byte) /\ b \in Byte
  BY DEF Hardware, Byte
<1>2. Append(h.answers, b) \in Seq(Byte)
  BY <1>1
<1>3. /\ g \in Hardware /\ g.obf = h.obf /\ g.kbd = h.kbd /\ g.mse = h.mse
      /\ g.answers = Append(h.answers, b)
  BY <1>2 DEF Answer, Hardware
<1> HIDE DEF g
<1>4. NoTwo(h.answers) => NoTwo(g.answers)
  BY <1>1, <1>3 DEF NoTwo
<1> QED BY <1>3, <1>4 DEF Plain, g

LEMMA PlainWrites ==
  ASSUME NEW h \in Hardware, NEW b \in BOOLEAN, NEW c \in BOOLEAN
  PROVE  Plain(h, Clocks(h, b, c)) /\ Plain(h, Ints(h, b, c)) /\ Plain(h, ReadConfig(h)) /\ Plain(h, h)
<1>1. Plain(h, Clocks(h, b, c)) /\ Plain(h, Ints(h, b, c)) /\ Plain(h, h)
  BY DEF Plain, Clocks, Ints, Hardware
<1>2. Plain(h, ReadConfig(h))
  <2>1. \E a \in Answers \ {"02"} : ReadConfig(h) = Answer(h, a)
    <3> DEFINE a == IF h.clock.mse THEN "port 2 on" ELSE "port 2 off"
    <3>1. a \in Answers \ {"02"}
      BY DEF Answers
    <3>2. ReadConfig(h) = Answer(h, a)
      BY DEF ReadConfig
    <3> HIDE DEF a
    <3> QED BY <3>1, <3>2
  <2> QED BY <2>1, PlainAnswer
<1> QED BY <1>1, <1>2

LEMMA PlainTrans ==
  ASSUME NEW h, NEW g, NEW f, Plain(h, g), Plain(g, f)
  PROVE  Plain(h, f)
BY DEF Plain

\* A device has been asked something: it answers, after the rest or instead of it.
Replied(h, g, d, bytes) ==
  /\ g \in Hardware /\ g.obf = h.obf /\ (NoTwo(h.answers) => NoTwo(g.answers))
  /\ \A e \in {"kbd", "mse"} \ {d} : g[e] = h[e]
  /\ g[d] = bytes \/ g[d] = h[d] \o bytes

LEMMA ReplyFacts ==
  ASSUME NEW h \in Hardware, NEW d \in {"kbd", "mse"}, NEW bytes \in Seq(Byte), NEW keep \in BOOLEAN
  PROVE  Replied(h, Reply(h, d, bytes, keep), d, bytes) /\ Reply(h, d, bytes, keep).int = h.int
<1>0. h[d] \in Seq(Byte) /\ <<>> \o bytes = bytes /\ h[d] \o bytes \in Seq(Byte)
  BY StreamFacts, SeqTwo
<1>1. \E q \in {bytes, h[d] \o bytes} : Reply(h, d, bytes, keep) = [h EXCEPT ![d] = q]
  <2>1. CASE d = "kbd"
    BY <2>1, <1>0 DEF Reply, Hardware
  <2>2. CASE d = "mse"
    BY <2>2, <1>0 DEF Reply, Hardware
  <2> QED BY <2>1, <2>2
<1>2. PICK q \in {bytes, h[d] \o bytes} : Reply(h, d, bytes, keep) = [h EXCEPT ![d] = q]
  BY <1>1
<1> DEFINE g == Reply(h, d, bytes, keep)
<1>3. q \in Seq(Byte)
  BY <1>0, <1>2
<1>4. /\ g \in Hardware /\ g.obf = h.obf /\ g.answers = h.answers /\ g.int = h.int
      /\ g[d] = q /\ \A e \in {"kbd", "mse"} \ {d} : g[e] = h[e]
  <2>1. CASE d = "kbd"
    BY <2>1, <1>2, <1>3 DEF Hardware
  <2>2. CASE d = "mse"
    BY <2>2, <1>2, <1>3 DEF Hardware
  <2> QED BY <2>1, <2>2
<1> QED BY <1>2, <1>4 DEF Replied

\* What the questions write.
LEMMA SentFacts ==
  ASSUME hw \in Hardware, machine \in Machine, NEW l \in Questions
  PROVE  /\ l \notin {"reset", "F0", "00", "mouse"} => Plain(hw, Sent(l))
         /\ l = "reset" => Replied(hw, Sent(l), "kbd", <<ACK, "AA">>)
         /\ l = "F0" => Replied(hw, Sent(l), "kbd", <<ACK>>)
         /\ l = "00" => Replied(hw, Sent(l), "kbd", <<ACK, "02">>)
         /\ l = "mouse" => /\ Sent(l).int = hw.int
                           /\ Plain(hw, Sent(l)) \/ Replied(hw, Sent(l), "mse", <<ACK>>)
<1>0. /\ machine.keeps \in BOOLEAN /\ machine.dual \in BOOLEAN /\ machine.works \in BOOLEAN
      /\ <<ACK, "AA">> \in Seq(Byte) /\ <<ACK>> \in Seq(Byte) /\ <<ACK, "02">> \in Seq(Byte)
      /\ hw.clock.kbd \in BOOLEAN /\ hw.int.kbd \in BOOLEAN
  <2>1. ACK \in Byte /\ "AA" \in Byte /\ "02" \in Byte
    BY DEF Byte, Answers
  <2> QED BY <2>1 DEF Machine, Hardware
<1>1. \A h, g : Plain(h, g) => g \in Hardware
  BY DEF Plain
<1>2. ASSUME l \in {"config", "config 2"} PROVE Plain(hw, Sent(l))
  <2>1. Sent(l) = ReadConfig(hw)
    BY <1>2 DEF Sent
  <2> QED BY <2>1, PlainWrites
<1>3. ASSUME l = "test" PROVE Plain(hw, Sent(l))
  <2> DEFINE b == IF machine.works THEN "55" ELSE "FC"
  <2>1. Sent(l) = Answer(Ints(hw, FALSE, FALSE), b)
    BY <1>3 DEF Sent
  <2>2. Plain(hw, Ints(hw, FALSE, FALSE)) /\ b \in Answers \ {"02"}
    BY PlainWrites DEF Answers
  <2> HIDE DEF b
  <2> QED BY <2>1, <2>2, <1>1, PlainAnswer, PlainTrans
<1>4. ASSUME l = "dual" PROVE Plain(hw, Sent(l))
  <2>1. Sent(l) = ReadConfig(Clocks(hw, hw.clock.kbd, machine.dual))
    BY <1>4 DEF Sent
  <2>2. Plain(hw, Clocks(hw, hw.clock.kbd, machine.dual))
    BY <1>0, PlainWrites
  <2> QED BY <2>1, <2>2, <1>1, PlainWrites, PlainTrans
<1>5. ASSUME l = "test 1" PROVE Plain(hw, Sent(l))
  <2> DEFINE on == Clocks(hw, hw.clock.kbd, TRUE)
             h == IF data = "port 2 on" THEN Ints(on, hw.int.kbd, FALSE) ELSE hw
  <2>1. Sent(l) = Answer(h, "00")
    BY <1>5 DEF Sent
  <2>2. Plain(hw, on)
    BY <1>0, PlainWrites
  <2> HIDE DEF on
  <2>3. Plain(on, Ints(on, hw.int.kbd, FALSE))
    BY <1>0, <1>1, <2>2, PlainWrites
  <2>4. Plain(hw, h)
    <3>1. Plain(hw, Ints(on, hw.int.kbd, FALSE)) /\ Plain(hw, hw)
      BY <2>2, <2>3, PlainTrans, PlainWrites
    <3> QED BY <3>1
  <2> HIDE DEF h
  <2>5. "00" \in Answers \ {"02"}
    BY DEF Answers
  <2> QED BY <2>1, <2>4, <2>5, <1>1, PlainAnswer, PlainTrans
<1>6. ASSUME l = "test 2" PROVE Plain(hw, Sent(l))
  <2>1. Sent(l) = IF machine.dual THEN Answer(hw, "00") ELSE hw
    BY <1>6 DEF Sent
  <2>2. "00" \in Answers \ {"02"}
    BY DEF Answers
  <2>3. Plain(hw, hw) /\ Plain(hw, Answer(hw, "00"))
    BY <2>2, PlainAnswer, PlainWrites
  <2> QED BY <2>1, <2>3
<1>7. ASSUME l = "reset" PROVE Replied(hw, Sent(l), "kbd", <<ACK, "AA">>)
  <2> DEFINE h == Clocks(Ints(hw, TRUE, TRUE), TRUE, machine.dual)
  <2>1. Sent(l) = Reply(h, "kbd", <<ACK, "AA">>, machine.keeps)
    BY <1>7 DEF Sent
  <2>2. Plain(hw, h)
    <3>1. Plain(hw, Ints(hw, TRUE, TRUE))
      BY PlainWrites
    <3>2. Plain(Ints(hw, TRUE, TRUE), h)
      BY <3>1, <1>0, <1>1, PlainWrites
    <3> QED BY <3>1, <3>2, PlainTrans
  <2> HIDE DEF h
  <2>3. Replied(h, Sent(l), "kbd", <<ACK, "AA">>)
    BY <2>1, <2>2, <1>0, <1>1, ReplyFacts
  <2> QED BY <2>2, <2>3 DEF Plain, Replied
<1>8. ASSUME l = "F0" PROVE Replied(hw, Sent(l), "kbd", <<ACK>>)
  <2>1. Sent(l) = Reply(hw, "kbd", <<ACK>>, machine.keeps)
    BY <1>8 DEF Sent
  <2> QED BY <2>1, <1>0, ReplyFacts
<1>9. ASSUME l = "00" PROVE Replied(hw, Sent(l), "kbd", <<ACK, "02">>)
  <2>1. Sent(l) = Reply(hw, "kbd", <<ACK, "02">>, machine.keeps)
    BY <1>9 DEF Sent
  <2> QED BY <2>1, <1>0, ReplyFacts
<1>10. ASSUME l = "set" PROVE Plain(hw, Sent(l))
  <2>1. Sent(l) = hw
    BY <1>10 DEF Sent
  <2> QED BY <2>1, PlainWrites
<1>11. ASSUME l = "mouse"
       PROVE  /\ Sent(l).int = hw.int
              /\ Plain(hw, Sent(l)) \/ Replied(hw, Sent(l), "mse", <<ACK>>)
  <2> DEFINE h == Reply(hw, "mse", <<ACK>>, machine.keeps)
             g == [h EXCEPT !.reporting = TRUE]
  <2>1. Sent(l) = IF machine.dual THEN g ELSE hw
    BY <1>11 DEF Sent
  <2>2. Replied(hw, h, "mse", <<ACK>>) /\ h.int = hw.int
    BY <1>0, ReplyFacts
  <2> HIDE DEF h
  <2>3. /\ g \in Hardware /\ g.int = h.int /\ g.obf = h.obf
        /\ g.answers = h.answers /\ g.kbd = h.kbd /\ g.mse = h.mse
    BY <2>2 DEF Replied, Hardware
  <2> HIDE DEF g
  <2>4. Replied(hw, g, "mse", <<ACK>>)
    BY <2>2, <2>3 DEF Replied
  <2> QED BY <2>1, <2>2, <2>3, <2>4, PlainWrites
<1> QED BY <1>2, <1>3, <1>4, <1>5, <1>6, <1>7, <1>8, <1>9, <1>10, <1>11 DEF Questions


-----------------------------------------------------------------------------
(* The invariant: every byte gets to its reader.                            *)

\* Where kmain is: before a controller is known, once the keyboard has been asked for its
\* set, with its line unmasked, with the mouse's unmasked or given up.
Early == {"idt_init", "reset pics", "mask pic 1", "mask pic 2", "use pic"}
Late == {"unmask 1", "kbd cap", "kbd buf", "mouse", "unmask 12", "mse cap", "mse buf", "loop"}
KeysOn == Late \ {"unmask 1"}
KeysReady == KeysOn \ {"kbd cap", "kbd buf"}
MouseOn == {"mse cap", "mse buf", "loop"}

\* The keyboard has been asked for its set, and the answer not been read; the mouse has
\* been told to report.
Told == (pc = "00" /\ stage # "send") \/ pc = "set"
Asked == (pc = "mouse" /\ stage # "send") \/ pc = "unmask 12" \/ pc \in MouseOn

Kinds ==
  /\ hw \in Hardware /\ machine \in Machine /\ stage \in {"send", "wait", "read"}
  /\ typed \in Seq(Strokes) /\ moves \in 0 .. Len(Packets)
  /\ ring \in [kbd : {"zeroed", "cap", "ready"}, mse : {"zeroed", "cap", "ready"}]
  /\ decoder \in [released : BOOLEAN, extended : BOOLEAN]

\* No handler of the keyboard or the mouse runs before its line is unmasked: until then
\* kmain alone reads, and what it has seen in the buffer is there.
Masks ==
  /\ pc = "mask pic 2" => 0 .. 7 \subseteq pic.masked
  /\ pc = "use pic" => 0 .. 15 \subseteq pic.masked
  /\ interrupt_controller = "none" <=> pc \in Early
  /\ interrupt_controller = "PIC" => 2 \in pic.masked /\ (1 \in pic.masked \/ pc \in KeysOn)
  /\ 1 \in ioapic.open \/ 33 \in lapic.irr => pc \in KeysOn
  /\ 12 \in ioapic.open \/ 44 \in lapic.irr => pc \in MouseOn

Reading ==
  /\ pc \notin Questions => stage = "send"
  /\ pc \in Questions \ {"mouse"} /\ stage = "read" => hw.obf.full
  /\ ring.kbd = "ready" => pc \in KeysReady
  /\ ring.mse = "ready" => pc = "loop"

\* A request the PIC keeps is for a byte that is there, and so is one the LAPIC keeps
\* once the keyboard's set is known.
Latched == pic.latched \cap {1, 12} \subseteq Line(hw)
Edge == "stray" \notin odd /\ scancode_set = "02" /\ 33 \in lapic.irr => 1 \in Line(hw)

\* The keyboard: no 02 before it is asked for its set; after it whole strokes; and once
\* it is read, what is ahead goes on where the decoder and the events end.
Past(s, i) == SubSeq(s, i + 1, Len(s))
TwoThenKeys(s, all) ==
  \A i \in 1 .. Len(s) : s[i] = "02" => \E c : Ahead(Past(s, i), all, c, 0)

SetAnswer ==
  /\ pc \notin Late /\ ~Told => NoTwo(Stream(hw, "kbd"))
  /\ Told => TwoThenKeys(Stream(hw, "kbd"), typed)
  /\ scancode_set = "02" => pc \in Late

Meanings == [i \in DOMAIN typed |-> Meant(typed[i])]

Decoded(c, o) ==
  /\ decoder.released <=> \E x \in 1 .. o : typed[c][x] = "F0"
  /\ decoder.extended <=> o > 0 /\ typed[c][1] = "E0"

KeyOrder ==
  "stray" \notin odd =>
    /\ ring.kbd # "ready" \/ scancode_set # "02" => kbd_events = <<>>
    /\ scancode_set # "02" => ~decoder.released /\ ~decoder.extended
    /\ scancode_set = "02" =>
         \E c, o, f : /\ Ahead(Stream(hw, "kbd"), typed, c, o) /\ Decoded(c, o)
                      /\ f \in 1 .. c /\ kbd_events = SubSeq(Meanings, f, c - 1)

\* The mouse: the bytes of whole packets, but for one ACK among them; unless the rest of a
\* packet was dropped whose first bytes kmain is about to take for the answer.
Emitted(m) == SubSeq(Packets, 1, m)
Doomed == /\ pc = "mouse" /\ stage # "send"
          /\ Holds(hw, "mse") /\ hw.obf.byte \in Input

MouseOrder ==
  "stray" \notin odd =>
    /\ pc \notin MouseOn => packet = <<>>
    /\ ring.mse # "ready" => mse_events = <<>>
    /\ \/ Doomed /\ mse_events = <<>>
       \/ \E w \in Seq(Byte) : \E c, k :
            /\ Woven(Stream(hw, "mse"), w) /\ (~Asked => w = Stream(hw, "mse"))
            /\ packet \in Seq(Byte) /\ Ahead(w, Emitted(moves), c, Len(packet))
            /\ \A x \in 1 .. Len(packet) : packet[x] = Packets[c][x]
            /\ k \in 1 .. c /\ mse_events = SubSeq(Packets, k, c - 1)

BytesInv ==
  /\ Inv /\ Kinds /\ Masks /\ Reading /\ Latched /\ TwoIsKbds(hw)
  /\ Edge /\ SetAnswer /\ KeyOrder /\ MouseOrder

-----------------------------------------------------------------------------
\* Where answers lead.
LEMMA AfterOrder ==
  ASSUME NEW l \in Questions, NEW byte
  PROVE  /\ l = "mouse" => After(l, byte) \in {"unmask 12", "loop"}
         /\ l = "set" => After(l, byte) = "unmask 1"
         /\ l = "00" => After(l, byte) \in {"set", "unmask 1"} /\ (byte # ACK => After(l, byte) = "unmask 1")
         /\ l = "F0" => After(l, byte) \in {"00", "unmask 1"} /\ (byte # ACK => After(l, byte) = "unmask 1")
         /\ l \notin {"mouse", "set", "00", "F0"} => After(l, byte) \in Questions \ {"mouse", "set", "00"}
<1>1. l = "mouse" => After(l, byte) \in {"unmask 12", "loop"}
  BY DEF After
<1>2. l = "set" => After(l, byte) = "unmask 1"
  BY DEF After
<1>3. l = "00" => After(l, byte) \in {"set", "unmask 1"} /\ (byte # ACK => After(l, byte) = "unmask 1")
  BY DEF After
<1>4. l = "F0" => After(l, byte) \in {"00", "unmask 1"} /\ (byte # ACK => After(l, byte) = "unmask 1")
  BY DEF After
<1>5. ASSUME l \notin {"mouse", "set", "00", "F0"}
      PROVE  After(l, byte) \in Questions \ {"mouse", "set", "00"}
  <2>1. After(l, byte) \in {"test", "dual", "test 1", "test 2", "config 2", "reset", "F0"}
    BY <1>5 DEF After, Questions
  <2> QED BY <2>1 DEF Questions
<1> QED BY <1>1, <1>2, <1>3, <1>4, <1>5

\* kmain goes from one phase to the next and never back.
Onward ==
  /\ pc \in Late => pc' \in Late
  /\ pc \in KeysOn => pc' \in KeysOn
  /\ pc \in KeysReady => pc' \in KeysReady
  /\ pc \in MouseOn => pc' \in MouseOn
  /\ pc = "loop" => pc' = "loop"
  /\ pc \notin Early => pc' \notin Early
  /\ Told => Told' \/ pc' \in Late
  /\ Asked => Asked'
  /\ stage' \in {"send", "wait", "read"}
  /\ pc' \notin Questions => stage' = "send"

LEMMA OnwardStill ==
  ASSUME Kinds, Reading, UNCHANGED <<pc, stage>>
  PROVE  Onward
BY DEF Onward, Kinds, Reading, Told, Asked

LEMMA OnwardSet ==
  ASSUME Kinds, Reading,
         IdtInit \/ PicInit \/ UsePic \/ PitInit \/ SleepStart \/ StartTimer \/ PicDisable
           \/ Registers \/ UseApic \/ Drain \/ DriverInit
  PROVE  Onward
<1> DEFINE Up == {"idt_init", "reset pics", "mask pic 1", "mask pic 2", "use pic", "pit_init",
                  "pit_sleep", "sleeping", "disable pic 1", "disable pic 2", "register 1",
                  "register 12", "use apic", "drain"}
<1>1. \/ pc \in Up /\ pc' \in Up \cup {"config"}
      \/ pc = "unmask 1" /\ pc' = "kbd cap"
      \/ pc = "kbd cap" /\ pc' = "kbd buf"
      \/ pc = "kbd buf" /\ pc' = "mouse"
      \/ pc = "unmask 12" /\ pc' = "mse cap"
      \/ pc = "mse cap" /\ pc' = "mse buf"
      \/ pc = "mse buf" /\ pc' = "loop"
  <2>1. CASE IdtInit \/ PicInit \/ UsePic
    BY <2>1 DEF IdtInit, PicInit, PicStep, UsePic, UseController, At, Go
  <2>2. CASE PitInit \/ SleepStart \/ StartTimer \/ PicDisable
    BY <2>2 DEF PitInit, PicStep, SleepStart, StartTimer, PicDisable, At, Go
  <2>3. CASE Registers \/ UseApic
    BY <2>3 DEF Registers, RegisterLine, UseApic, UseController, At, Go
  <2>4. CASE Drain
    BY <2>4 DEF Drain, At
  <2>5. CASE DriverInit
    BY <2>5 DEF DriverInit, Unmask, Buffer, At, Go
  <2> QED BY <2>1, <2>2, <2>3, <2>4, <2>5
<1>2. pc \in Up /\ pc \notin Early => pc' \notin Early
  <2>1. CASE IdtInit \/ PicInit \/ UsePic
    BY <2>1 DEF IdtInit, PicInit, PicStep, UsePic, UseController, At, Early
  <2>2. CASE PitInit \/ SleepStart \/ StartTimer \/ PicDisable
    BY <2>2 DEF PitInit, PicStep, SleepStart, StartTimer, PicDisable, At, Go, Early
  <2>3. CASE Registers \/ UseApic
    BY <2>3 DEF Registers, RegisterLine, UseApic, UseController, At, Go, Early
  <2>4. CASE Drain
    BY <2>4 DEF Drain, At, Early
  <2>5. CASE DriverInit
    BY <2>5 DEF DriverInit, Unmask, Buffer, At, Go, Early
  <2> QED BY <2>1, <2>2, <2>3, <2>4, <2>5
<1>3. stage' = stage
  <2>1. CASE IdtInit \/ PicInit \/ UsePic
    BY <2>1 DEF IdtInit, PicInit, PicStep, UsePic, UseController, Quiet
  <2>2. CASE PitInit \/ SleepStart \/ StartTimer \/ PicDisable
    BY <2>2 DEF PitInit, PicStep, SleepStart, StartTimer, PicDisable, Quiet
  <2>3. CASE Registers \/ UseApic
    BY <2>3 DEF Registers, RegisterLine, UseApic, UseController, Quiet
  <2>4. CASE Drain
    BY <2>4 DEF Drain
  <2>5. CASE DriverInit
    BY <2>5 DEF DriverInit, Unmask, Buffer, Quiet
  <2> QED BY <2>1, <2>2, <2>3, <2>4, <2>5
<1>4. pc \notin Questions /\ stage = "send"
  BY <1>1 DEF Reading, Questions, Up, Kinds
<1>5. ~Told /\ (Asked <=> pc = "unmask 12" \/ pc \in MouseOn) /\ stage' = "send"
  BY <1>3, <1>4 DEF Told, Asked, Questions
<1>6. CASE pc \in Up /\ pc' \in Up \cup {"config"}
  <2>1. /\ pc \notin Late /\ ~Asked
        /\ pc \notin Early => pc' \notin Early
    <3>1. pc \notin Late /\ ~Asked
      BY <1>5, <1>6 DEF Late, MouseOn
    <3>2. pc \notin Early => pc' \notin Early
      BY <1>1, <1>2 DEF Early, Late
    <3> QED BY <3>1, <3>2
  <2> QED BY <1>5, <2>1 DEF Onward, KeysOn, KeysReady, MouseOn, Late
<1>7. CASE pc \in Late
  <2>1. pc' \notin Early
    BY <1>1, <1>7 DEF Up, Late, Early
  <2>2. ~(pc \in Up)
    BY <1>7 DEF Late
  <2> QED BY <1>1, <1>5, <2>1, <2>2 DEF Onward, Late, KeysOn, KeysReady, MouseOn, Asked
<1> QED BY <1>1, <1>6, <1>7 DEF Late

LEMMA OnwardAsk ==
  ASSUME Kinds, Reading, NEW l \in Questions, Send(l) \/ Wait(l) \/ Read(l) \/ GiveUp(l)
  PROVE  Onward
<1>1. CASE Send(l) \/ Wait(l)
  BY <1>1 DEF Send, Wait, At, Onward, Told, Asked
<1>2. CASE Read(l) \/ GiveUp(l)
  <2>1. PICK byte : /\ pc = l /\ stage # "send" /\ stage' = "send" /\ pc' = After(l, byte)
    BY <1>2 DEF Read, GiveUp, Answered, At
  <2>2. CASE l = "mouse"
    BY <2>1, <2>2, AfterOrder
       DEF Onward, Told, Asked, Late, KeysOn, KeysReady, MouseOn, Questions, Early
  <2>3. CASE l # "mouse"
    <3>1. pc \notin Late /\ ~Asked
      BY <2>1, <2>3 DEF Questions, Late, Asked, MouseOn
    <3>2. Told => pc' = "set" \/ pc' \in Late
      BY <2>1, AfterOrder DEF Told, Late
    <3>3. pc' \notin Early
      BY <2>1, AfterOrder, ZenonT(60) DEF Early, Questions
    <3> QED BY <2>1, <3>1, <3>2, <3>3 DEF Onward, KeysOn, KeysReady, MouseOn, Told, Late
  <2> QED BY <2>2, <2>3
<1> QED BY <1>1, <1>2

LEMMA OnwardStep ==
  ASSUME Kinds, Reading, [Next]_<<vars, machine>>
  PROVE  Onward
<1>1. CASE LoopFaults \/ HandlerFaults \/ Interrupt \/ Ticks \/ Fill \/ Type \/ Move \/ UNCHANGED vars
  <2>1. UNCHANGED <<pc, stage>>
    BY <1>1 DEF LoopFaults, HandlerFaults, Interrupt, Ticks, Fill, Type, Move, vars
  <2> QED BY <2>1, OnwardStill
<1>2. CASE Kmain /\ ~LoopFaults
  BY <1>2, OnwardSet, OnwardAsk DEF Kmain
<1> QED BY <1>1, <1>2 DEF Next, vars

\* What went other than usual stays so, but for a lost edge.
LEMMA OddKept ==
  ASSUME [Next]_<<vars, machine>>
  PROVE  "stray" \in odd => "stray" \in odd'
<1>0. \A h, what : BecomesNoting(h, what) => ("stray" \in odd => "stray" \in odd')
  BY DEF BecomesNoting, Kept
<1>1. CASE IdtInit \/ PicInit \/ UsePic \/ PitInit \/ SleepStart \/ StartTimer \/ PicDisable
             \/ Registers \/ UseApic
  <2>1. odd' = odd
    BY <1>1 DEF IdtInit, PicInit, PicStep, UsePic, UseController, PitInit, SleepStart, StartTimer,
                PicDisable, Registers, RegisterLine, UseApic
  <2> QED BY <2>1
<1>2. CASE Drain \/ Fill \/ \E l \in Questions : Send(l) \/ Read(l)
  BY <1>0, <1>2 DEF Drain, Fill, Send, Read, Becomes, BecomesRead
<1>3. CASE (\E l \in Questions : Wait(l) \/ GiveUp(l)) \/ DriverInit \/ LoopFaults
  BY <1>3 DEF Wait, GiveUp, DriverInit, Unmask, Buffer, LoopFaults
<1>4. CASE HandlerFaults \/ Ticks \/ Type \/ Move \/ UNCHANGED vars
  BY <1>4 DEF HandlerFaults, Ticks, Type, Move, Happened, vars
<1>5. CASE Interrupt
  BY <1>5 DEF Interrupt, Timer, Callback, Kept
<1> QED BY <1>1, <1>2, <1>3, <1>4, <1>5 DEF Next, Kmain, vars


-----------------------------------------------------------------------------
(* What is typed and moved.                                                 *)

LEMMA SeqWider ==
  ASSUME NEW A, NEW B, A \subseteq B, NEW s \in Seq(A)
  PROVE  s \in Seq(B)
<1>1. Len(s) \in Nat /\ \A i \in 1 .. Len(s) : s[i] \in B
  OBVIOUS
<1> QED BY <1>1

LEMMA StrokeFacts ==
  ASSUME NEW s \in Strokes
  PROVE  /\ s \in Seq(Input) /\ s # <<>> /\ s \in Seq(Byte) /\ Len(s) \in Nat /\ Len(s) > 0
         /\ \A i \in 1 .. Len(s) : s[i] \in Input /\ s[i] \notin {ACK, "02", Timeout}
<1>1. s \in Seq(STRING) /\ s # <<>>
  BY StrokesAssumption
<1>2. \A i \in 1 .. Len(s) : s[i] \in Range(s)
  BY <1>1 DEF Range
<1>3. Range(s) \subseteq Input
  BY DEF Input
<1>4. s \in Seq(Input)
  BY <1>1, <1>2, <1>3
<1>5. s \in Seq(Byte)
  BY <1>4, SeqWider DEF Byte
<1>6. \A i \in 1 .. Len(s) : s[i] \in Input /\ s[i] \notin {ACK, "02", Timeout}
  BY <1>2, <1>3, NamesAssumption
<1> QED BY <1>1, <1>4, <1>5, <1>6

LEMMA PacketFacts ==
  /\ Packets \in Parts(Byte)
  /\ \A m \in 1 .. Len(Packets) :
       LET s == Packets[m]
       IN  /\ s \in Seq(Input) /\ s # <<>> /\ s \in Seq(Byte) /\ Len(s) = 3
           /\ \A i \in 1 .. Len(s) : s[i] \in Input /\ s[i] \notin {ACK, "02", Timeout}
<1>1. ASSUME NEW m \in 1 .. Len(Packets)
      PROVE  LET s == Packets[m]
             IN  /\ s \in Seq(Input) /\ s # <<>> /\ s \in Seq(Byte) /\ Len(s) = 3
                 /\ \A i \in 1 .. Len(s) : s[i] \in Input /\ s[i] \notin {ACK, "02", Timeout}
  <2> DEFINE s == Packets[m]
  <2>1. s \in Range(Packets) /\ s \in Seq(STRING)
    BY PacketsAssumption DEF Range
  <2>2. Len(s) = 3
    BY <2>1, PacketsAssumption
  <2> HIDE DEF s
  <2>3. s # <<>>
    BY <2>2
  <2>4. \A i \in 1 .. Len(s) : s[i] \in Range(s)
    BY <2>1 DEF Range
  <2>5. Range(s) \subseteq Input
    BY <2>1 DEF Input
  <2>6. s \in Seq(Input)
    BY <2>1, <2>4, <2>5
  <2>7. s \in Seq(Byte)
    BY <2>6, SeqWider DEF Byte
  <2>8. \A i \in 1 .. Len(s) : s[i] \in Input /\ s[i] \notin {ACK, "02", Timeout}
    BY <2>4, <2>5, NamesAssumption
  <2> QED BY <2>2, <2>3, <2>6, <2>7, <2>8 DEF s
<1>2. Packets \in Parts(Byte)
  <2>1. Packets \in Seq(Seq(STRING))
    BY PacketsAssumption
  <2>2. \A m \in 1 .. Len(Packets) : Packets[m] \in Seq(Byte) \ {<<>>}
    BY <1>1
  <2> QED BY <2>1, <2>2 DEF Parts
<1> QED BY <1>1, <1>2

LEMMA TypedFacts == ASSUME Kinds PROVE typed \in Parts(Byte)
<1>1. \A i \in 1 .. Len(typed) : typed[i] \in Seq(Byte) \ {<<>>}
  BY StrokeFacts DEF Kinds
<1>2. typed \in Seq(Strokes)
  BY DEF Kinds
<1> QED BY <1>1, <1>2 DEF Parts

LEMMA ConcatAssoc ==
  ASSUME NEW B, NEW r \in Seq(B), NEW s \in Seq(B), NEW t \in Seq(B)
  PROVE  (r \o s) \o t = r \o (s \o t)
OBVIOUS

\* A device has more to send.
Longer(h, g, d, s) == g = [h EXCEPT ![d] = @ \o s]

LEMMA SentMore ==
  ASSUME NEW h \in Hardware, NEW d \in {"kbd", "mse"}, NEW s \in Seq(Byte),
         NEW g, Longer(h, g, d, s)
  PROVE  /\ g \in Hardware /\ g.obf = h.obf /\ g.int = h.int /\ g.answers = h.answers
         /\ g[d] = h[d] \o s /\ Stream(g, d) = Stream(h, d) \o s
         /\ \A e \in {"kbd", "mse"} \ {d} : g[e] = h[e] /\ Stream(g, e) = Stream(h, e)
         /\ Line(g) = Line(h)
         /\ d = "kbd" \/ NoTwo(s) => (TwoIsKbds(h) => TwoIsKbds(g))
<1>0. h[d] \in Seq(Byte) /\ h[d] \o s \in Seq(Byte) /\ h.obf.byte \in Byte
  BY StreamFacts DEF Hardware
<1>1. /\ g \in Hardware /\ g.obf = h.obf /\ g.int = h.int /\ g.answers = h.answers
      /\ g[d] = h[d] \o s /\ \A e \in {"kbd", "mse"} \ {d} : g[e] = h[e]
  <2>1. CASE d = "kbd"
    BY <1>0, <2>1 DEF Hardware, Longer
  <2>2. CASE d = "mse"
    BY <1>0, <2>2 DEF Hardware, Longer
  <2> QED BY <2>1, <2>2
<1>2. Line(g) = Line(h) /\ \A e : Holds(g, e) <=> Holds(h, e)
  BY <1>1 DEF Line, Holds
<1>3. ASSUME NEW e \in {"kbd", "mse"} \ {d} PROVE Stream(g, e) = Stream(h, e)
  <2>1. g.obf = h.obf /\ g[e] = h[e] /\ (Holds(g, e) <=> Holds(h, e))
    BY <1>1, <1>2
  <2> QED BY <2>1, Zenon DEF Stream
<1>4. Stream(g, d) = Stream(h, d) \o s
  <2> DEFINE r == IF Holds(h, d) THEN <<h.obf.byte>> ELSE <<>>
  <2>1. r \in Seq(Byte)
    BY <1>0
  <2>2. g.obf = h.obf /\ g[d] = h[d] \o s /\ (Holds(g, d) <=> Holds(h, d))
    BY <1>1, <1>2
  <2>3. Stream(h, d) = r \o h[d] /\ Stream(g, d) = r \o (h[d] \o s)
    <3>1. CASE Holds(h, d)
      BY <2>2, <3>1 DEF Stream
    <3>2. CASE ~Holds(h, d)
      BY <2>2, <3>2 DEF Stream
    <3> QED BY <3>1, <3>2
  <2> HIDE DEF r
  <2>4. (r \o h[d]) \o s = r \o (h[d] \o s)
    <3>1. ASSUME NEW t \in Seq(Byte) PROVE (r \o t) \o s = r \o (t \o s)
      BY <2>1, ConcatAssoc
    <3>2. h[d] \in Seq(Byte)
      BY <1>0
    <3> QED BY <3>1, <3>2
  <2> QED BY <2>3, <2>4
<1>5. d = "kbd" \/ NoTwo(s) => (TwoIsKbds(h) => TwoIsKbds(g))
  <2>1. CASE d = "kbd"
    BY <1>1, <2>1 DEF TwoIsKbds
  <2>2. CASE d = "mse"
    <3>1. ASSUME NoTwo(h.mse), NoTwo(s) PROVE NoTwo(h.mse \o s)
      <4>1. h.mse \in Seq(Byte)
        BY <1>0, <2>2
      <4> QED BY <3>1, <4>1 DEF NoTwo
    <3> QED BY <1>1, <2>2, <3>1 DEF TwoIsKbds
  <2> QED BY <2>1, <2>2
<1> QED BY <1>1, <1>2, <1>3, <1>4, <1>5

\* Answers leave the byte in the buffer where it is.
AnswerAhead(h, g, d, s) ==
  \/ Stream(g, d) = Stream(h, d) \o s
  \/ Holds(h, d) /\ Stream(g, d) = <<h.obf.byte>> \o s
  \/ ~Holds(h, d) /\ Stream(g, d) = s

LEMMA RepliedStream ==
  ASSUME NEW h \in Hardware, NEW g, NEW d \in {"kbd", "mse"}, NEW s \in Seq(Byte), Replied(h, g, d, s)
  PROVE  /\ g \in Hardware /\ g.obf = h.obf
         /\ \A e \in {"kbd", "mse"} \ {d} : Stream(g, e) = Stream(h, e)
         /\ AnswerAhead(h, g, d, s)
         /\ d = "kbd" \/ NoTwo(s) => (TwoIsKbds(h) => TwoIsKbds(g))
<1>0. /\ h[d] \in Seq(Byte) /\ h.obf.byte \in Byte /\ g \in Hardware /\ g.obf = h.obf
      /\ \A e : Holds(g, e) <=> Holds(h, e)
      /\ \A e \in {"kbd", "mse"} \ {d} : g[e] = h[e]
  BY StreamFacts DEF Hardware, Replied, Holds
<1>1. \A e \in {"kbd", "mse"} \ {d} : Stream(g, e) = Stream(h, e)
  BY <1>0 DEF Stream
<1>2. CASE g[d] = s
  <2>1. Stream(g, d) = (IF Holds(h, d) THEN <<h.obf.byte>> ELSE <<>>) \o s /\ <<>> \o s = s
    BY <1>0, <1>2, SeqTwo DEF Stream
  <2>2. d = "kbd" \/ NoTwo(s) => (TwoIsKbds(h) => TwoIsKbds(g))
    BY <1>0, <1>2 DEF TwoIsKbds, Replied
  <2> QED BY <1>0, <1>1, <2>1, <2>2 DEF AnswerAhead
<1>3. CASE g[d] = h[d] \o s
  <2> DEFINE r == IF Holds(h, d) THEN <<h.obf.byte>> ELSE <<>>
  <2>1. r \in Seq(Byte)
    BY <1>0
  <2>2. Stream(h, d) = r \o h[d] /\ Stream(g, d) = r \o (h[d] \o s)
    BY <1>0, <1>3 DEF Stream
  <2> HIDE DEF r
  <2>3. Stream(g, d) = Stream(h, d) \o s
    <3>1. ASSUME NEW t \in Seq(Byte) PROVE (r \o t) \o s = r \o (t \o s)
      BY <2>1, ConcatAssoc
    <3>2. h[d] \in Seq(Byte)
      BY <1>0
    <3> HIDE DEF Replied
    <3>3. (r \o h[d]) \o s = r \o (h[d] \o s)
      BY <3>1, <3>2
    <3> QED BY <2>2, <3>3
  <2>4. d = "kbd" \/ NoTwo(s) => (TwoIsKbds(h) => TwoIsKbds(g))
    <3>1. CASE d = "kbd"
      BY <1>0, <3>1 DEF TwoIsKbds, Replied
    <3>2. CASE d = "mse"
      <4>1. ASSUME NoTwo(h.mse), NoTwo(s) PROVE NoTwo(h.mse \o s)
        <5>1. h.mse \in Seq(Byte)
          BY <1>0, <3>2
        <5> QED BY <4>1, <5>1 DEF NoTwo
      <4> QED BY <1>0, <1>3, <3>2, <4>1 DEF TwoIsKbds, Replied
    <3> QED BY <3>1, <3>2
  <2> QED BY <1>0, <1>1, <2>3, <2>4 DEF AnswerAhead
<1> QED BY <1>2, <1>3 DEF Replied

LEMMA PlainStream ==
  ASSUME NEW h, NEW g, Plain(h, g)
  PROVE  /\ g \in Hardware /\ g.obf = h.obf
         /\ \A e \in {"kbd", "mse"} : Stream(g, e) = Stream(h, e) /\ (Holds(g, e) <=> Holds(h, e))
         /\ TwoIsKbds(h) => TwoIsKbds(g)
BY DEF Plain, Stream, Holds, TwoIsKbds


-----------------------------------------------------------------------------
(* What the steps do to the hardware.                                       *)

\* The hardware, the drivers and the outside stay as they are.
Calm == UNCHANGED <<machine, hw, drvVars, typed, moves>>

\* The steps that change none of them.
Aside == IdtInit \/ PicInit \/ UsePic \/ PitInit \/ SleepStart \/ StartTimer \/ PicDisable
           \/ Registers \/ UseApic \/ LoopFaults \/ HandlerFaults \/ Ticks \/ UNCHANGED <<vars, machine>>
           \/ (\E l \in Questions : Wait(l))
           \/ Unmask("unmask 1", 1, "kbd cap") \/ Unmask("unmask 12", 12, "mse cap")
           \/ (\E from \in {"PIC", "APIC"} : Interrupt /\ TimerVector \in Pending(from) /\ Timer(from))

Buffers ==
  \/ Buffer("kbd cap", "kbd", "cap", "kbd buf") \/ Buffer("kbd buf", "kbd", "ready", "mouse")
  \/ Buffer("mse cap", "mse", "cap", "mse buf") \/ Buffer("mse buf", "mse", "ready", "loop")

\* A driver's callback, called by the processor.
Called(d, irq, from) ==
  /\ Interrupt /\ from \in {"PIC", "APIC"} /\ <<d, irq>> \in {<<"kbd", 1>>, <<"mse", 12>>}
  /\ Vector(irq) \in Pending(from) /\ Callback(d, Vector(irq), from)

LEMMA Shapes ==
  ASSUME [Next]_<<vars, machine>>
  PROVE  \/ Aside \/ Buffers \/ Drain \/ Fill \/ Type \/ Move
         \/ (\E l \in Questions : Send(l) \/ Read(l) \/ GiveUp(l))
         \/ (\E d, irq, from : Called(d, irq, from))
<1>1. DriverInit => Aside \/ Buffers
  BY DEF DriverInit, Aside, Buffers
<1>2. ASSUME Interrupt PROVE Aside \/ \E d, irq, from : Called(d, irq, from)
  <2>1. PICK from \in {"PIC", "APIC"} :
          \/ TimerVector \in Pending(from) /\ Timer(from)
          \/ Vector(1) \in Pending(from) /\ Callback("kbd", Vector(1), from)
          \/ Vector(12) \in Pending(from) /\ Callback("mse", Vector(12), from)
    BY <1>2 DEF Interrupt
  <2>2. CASE TimerVector \in Pending(from) /\ Timer(from)
    BY <1>2, <2>2 DEF Aside
  <2>3. CASE Vector(1) \in Pending(from) /\ Callback("kbd", Vector(1), from)
    <3>1. Called("kbd", 1, from)
      BY <1>2, <2>3 DEF Called
    <3> QED BY <3>1
  <2>4. CASE Vector(12) \in Pending(from) /\ Callback("mse", Vector(12), from)
    <3>1. Called("mse", 12, from)
      BY <1>2, <2>4 DEF Called
    <3> QED BY <3>1
  <2> QED BY <2>1, <2>2, <2>3, <2>4
<1> QED BY <1>1, <1>2 DEF Next, Kmain, Aside

LEMMA AsideCalm == ASSUME Aside PROVE Calm
<1>1. CASE IdtInit \/ PicInit \/ UsePic \/ PitInit \/ SleepStart \/ StartTimer
  BY <1>1 DEF IdtInit, PicInit, PicStep, UsePic, UseController, PitInit, SleepStart, StartTimer,
              Go, Quiet, Calm
<1>2. CASE PicDisable \/ Registers \/ UseApic \/ LoopFaults
  BY <1>2 DEF PicDisable, PicStep, Registers, RegisterLine, UseApic, UseController, LoopFaults,
              Go, Quiet, Rest, Calm
<1>3. CASE HandlerFaults \/ Ticks \/ UNCHANGED <<vars, machine>>
  BY <1>3 DEF HandlerFaults, Ticks, vars, Rest, Calm
<1>4. CASE \E l \in Questions : Wait(l)
  BY <1>4 DEF Wait, Rest, Calm
<1>5. CASE Unmask("unmask 1", 1, "kbd cap") \/ Unmask("unmask 12", 12, "mse cap")
  BY <1>5 DEF Unmask, Go, Quiet, Calm
<1>6. CASE \E from \in {"PIC", "APIC"} : Interrupt /\ TimerVector \in Pending(from) /\ Timer(from)
  BY <1>6 DEF Interrupt, Timer, Rest, Calm
<1> QED BY <1>1, <1>2, <1>3, <1>4, <1>5, <1>6 DEF Aside

\* What a callback reads.
LEMMA CallbackRead ==
  ASSUME Kinds, TwoIsKbds(hw), NEW d, NEW v, NEW from, Callback(d, v, from)
  PROVE  \E h \in Hardware : \E byte :
           /\ h = hw \/ (~hw.obf.full /\ h \in Fillings(hw))
           /\ TwoIsKbds(h) /\ h.int = hw.int
           /\ \A e \in {"kbd", "mse"} : Stream(h, e) = Stream(hw, e)
           /\ byte = IF h.obf.full THEN h.obf.byte ELSE Timeout
           /\ IF d = "kbd" THEN KeyboardCallback(byte) ELSE MouseCallback(byte)
           /\ hw' = Emptied(h) /\ Served(v, from, Line(h) \ Line(hw), Line(hw))
           /\ "stray" \notin odd' => "stray" \notin odd /\ ~Strays(d, h, byte)
<1>1. PICK h \in IF hw.obf.full THEN {hw} ELSE {hw} \cup Fillings(hw) :
        LET byte == IF h.obf.full THEN h.obf.byte ELSE Timeout
        IN  /\ IF d = "kbd" THEN KeyboardCallback(byte) ELSE MouseCallback(byte)
            /\ hw' = Emptied(h)
            /\ Served(v, from, Line(h) \ Line(hw), Line(hw))
            /\ odd' = Kept(Emptied(h)) \cup (IF Strays(d, h, byte) THEN {"stray"} ELSE {})
  BY DEF Callback
<1> DEFINE byte == IF h.obf.full THEN h.obf.byte ELSE Timeout
<1>2. h = hw \/ (~hw.obf.full /\ h \in Fillings(hw))
  BY <1>1
<1>3. /\ h \in Hardware /\ TwoIsKbds(h) /\ h.int = hw.int
      /\ \A e \in {"kbd", "mse"} : Stream(h, e) = Stream(hw, e)
  BY <1>2, FillFacts DEF Kinds
<1>4. "stray" \notin odd' => "stray" \notin odd /\ ~Strays(d, h, byte)
  BY <1>1 DEF Kept
<1> HIDE DEF byte
<1>5. /\ IF d = "kbd" THEN KeyboardCallback(byte) ELSE MouseCallback(byte)
      /\ hw' = Emptied(h) /\ Served(v, from, Line(h) \ Line(hw), Line(hw))
  BY <1>1 DEF byte
<1>6. byte = IF h.obf.full THEN h.obf.byte ELSE Timeout
  BY DEF byte
<1> QED BY <1>2, <1>3, <1>4, <1>5, <1>6

LEMMA NoTwoShort == NoTwo(<<ACK>>) /\ \A m \in 1 .. Len(Packets) : NoTwo(Packets[m])
BY PacketFacts DEF NoTwo, ACK

LEMMA TypeFacts ==
  ASSUME Kinds, Type
  PROVE  /\ \E s \in Strokes : Longer(hw, hw', "kbd", s) /\ typed' = Append(typed, s)
         /\ UNCHANGED <<drvVars, machine, moves>>
<1>1. PICK s \in Strokes : typed' = Append(typed, s) /\ hw' = [hw EXCEPT !.kbd = @ \o s]
  BY DEF Type
<1>2. Longer(hw, hw', "kbd", s)
  BY <1>1 DEF Longer
<1> QED BY <1>1, <1>2 DEF Type

LEMMA MoveFacts ==
  ASSUME Kinds, Move
  PROVE  /\ Longer(hw, hw', "mse", Packets[moves + 1])
         /\ moves' = moves + 1 /\ moves + 1 \in 1 .. Len(Packets)
         /\ UNCHANGED <<drvVars, machine, typed>>
<1>1. moves' = moves + 1 /\ moves < Len(Packets) /\ hw' = [hw EXCEPT !.mse = @ \o Packets[moves']]
  BY DEF Move
<1>2. Longer(hw, hw', "mse", Packets[moves + 1])
  BY <1>1 DEF Longer
<1>3. Len(Packets) \in Nat
  BY PacketsAssumption
<1>4. moves + 1 \in 1 .. Len(Packets)
  BY <1>1, <1>3 DEF Kinds
<1> QED BY <1>1, <1>2, <1>4 DEF Move

\* The hardware stays hardware.
LEMMA HardwareStep ==
  ASSUME Kinds, TwoIsKbds(hw), [Next]_<<vars, machine>>
  PROVE  hw' \in Hardware /\ TwoIsKbds(hw')
<1>0. hw \in Hardware /\ machine \in Machine
  BY DEF Kinds
<1>1. CASE Aside \/ Buffers \/ \E l \in Questions : GiveUp(l)
  <2>1. hw' = hw
    BY <1>1, AsideCalm DEF Calm, Buffers, Buffer, GiveUp
  <2> QED BY <2>1, <1>0
<1>2. CASE Drain
  <2> DEFINE h == Clocks(hw, FALSE, FALSE)
  <2>1. hw' = Emptied(h) \/ hw' = h
    BY <1>2 DEF Drain, BecomesRead, Becomes, BecomesNoting
  <2>2. h \in Hardware /\ TwoIsKbds(h)
    BY <1>0, PlainWrites, PlainStream
  <2> HIDE DEF h
  <2> QED BY <2>1, <2>2, EmptiedFacts
<1>3. ASSUME NEW l \in Questions, Send(l) PROVE hw' \in Hardware /\ TwoIsKbds(hw')
  <2>1. hw' = Sent(l)
    BY <1>3 DEF Send, Becomes, BecomesNoting
  <2> DEFINE g == Sent(l)
  <2>2. CASE Plain(hw, g)
    BY <2>1, <2>2, PlainStream
  <2>3. ASSUME NEW d \in {"kbd", "mse"}, NEW s, s \in Seq(Byte), d = "kbd" \/ NoTwo(s), Replied(hw, g, d, s)
        PROVE  g \in Hardware /\ TwoIsKbds(g)
    BY <1>0, <2>3, RepliedStream
  <2>4. <<ACK>> \in Seq(Byte) /\ <<ACK, "AA">> \in Seq(Byte) /\ <<ACK, "02">> \in Seq(Byte)
    <3>1. ACK \in Byte /\ "AA" \in Byte /\ "02" \in Byte
      BY DEF Byte, Answers
    <3> QED BY <3>1
  <2>5. \/ Plain(hw, g) \/ Replied(hw, g, "kbd", <<ACK, "AA">>) \/ Replied(hw, g, "kbd", <<ACK>>)
        \/ Replied(hw, g, "kbd", <<ACK, "02">>) \/ Replied(hw, g, "mse", <<ACK>>)
    BY <1>0, SentFacts
  <2> HIDE DEF g
  <2> QED BY <2>1, <2>2, <2>3, <2>4, <2>5, NoTwoShort DEF g
<1>4. ASSUME NEW l \in Questions, Read(l) PROVE hw' \in Hardware /\ TwoIsKbds(hw')
  <2>1. hw' = Emptied(hw)
    BY <1>4 DEF Read, BecomesRead, BecomesNoting
  <2> QED BY <2>1, <1>0, EmptiedFacts
<1>5. CASE Fill
  <2>1. hw' \in Fillings(hw)
    BY <1>5 DEF Fill, Becomes, BecomesNoting
  <2> QED BY <2>1, <1>0, FillFacts
<1>6. CASE Type
  <2>1. PICK s \in Strokes : Longer(hw, hw', "kbd", s)
    BY <1>6, TypeFacts
  <2>2. s \in Seq(Byte)
    BY StrokeFacts
  <2> QED BY <2>1, <2>2, <1>0, SentMore
<1>7. CASE Move
  <2>1. Longer(hw, hw', "mse", Packets[moves + 1]) /\ moves + 1 \in 1 .. Len(Packets)
    BY <1>7, MoveFacts
  <2>2. Packets[moves + 1] \in Seq(Byte) /\ NoTwo(Packets[moves + 1])
    BY <2>1, PacketFacts, NoTwoShort
  <2> QED BY <2>1, <2>2, <1>0, SentMore
<1>8. ASSUME NEW d, NEW irq, NEW from, Called(d, irq, from) PROVE hw' \in Hardware /\ TwoIsKbds(hw')
  <2>1. PICK h \in Hardware : TwoIsKbds(h) /\ hw' = Emptied(h)
    BY <1>8, CallbackRead DEF Called
  <2> QED BY <2>1, EmptiedFacts
<1> QED BY <1>1, <1>2, <1>3, <1>4, <1>5, <1>6, <1>7, <1>8, Shapes

\* What the decoder makes of a byte.
LEMMA DecodeFacts ==
  ASSUME NEW d, NEW byte, NEW key
  PROVE  LET r == Decode(d, byte, key)
         IN  /\ scancode_set # "02" => r.d = d /\ r.ev = <<>>
             /\ scancode_set = "02" /\ byte = "E0" => r.d = [d EXCEPT !.extended = TRUE] /\ r.ev = <<>>
             /\ scancode_set = "02" /\ byte = "F0" => r.d = [d EXCEPT !.released = TRUE] /\ r.ev = <<>>
             /\ scancode_set = "02" /\ byte # "E0" /\ byte # "F0" =>
                  /\ r.d = [released |-> FALSE, extended |-> FALSE]
                  /\ key[1] # NoKey => r.ev = <<<<key, d.released>>>>
<1> DEFINE r == Decode(d, byte, key)
           Result(e, f) == [d |-> e, ev |-> f]
<1>0. \A e, f : Result(e, f).d = e /\ Result(e, f).ev = f
  OBVIOUS
<1>1. scancode_set # "02" => r = Result(d, <<>>)
  BY DEF Decode
<1>2. scancode_set = "02" /\ byte = "E0" => r = Result([d EXCEPT !.extended = TRUE], <<>>)
  BY DEF Decode
<1>3. scancode_set = "02" /\ byte = "F0" => r = Result([d EXCEPT !.released = TRUE], <<>>)
  BY DEF Decode
<1>4. scancode_set = "02" /\ byte # "E0" /\ byte # "F0" =>
        \E ev : /\ r = Result([released |-> FALSE, extended |-> FALSE], ev)
                /\ key[1] # NoKey => ev = <<<<key, d.released>>>>
  BY DEF Decode
<1> HIDE DEF r, Result
<1>5. /\ scancode_set # "02" => r.d = d /\ r.ev = <<>>
      /\ scancode_set = "02" /\ byte = "E0" => r.d = [d EXCEPT !.extended = TRUE] /\ r.ev = <<>>
  BY <1>0, <1>1, <1>2, ZenonT(60)
<1>6. /\ scancode_set = "02" /\ byte = "F0" => r.d = [d EXCEPT !.released = TRUE] /\ r.ev = <<>>
  BY <1>0, <1>3, ZenonT(60)
<1>7. scancode_set = "02" /\ byte # "E0" /\ byte # "F0" =>
                  /\ r.d = [released |-> FALSE, extended |-> FALSE]
                  /\ key[1] # NoKey => r.ev = <<<<key, d.released>>>>
  <2> SUFFICES ASSUME scancode_set = "02" /\ byte # "E0" /\ byte # "F0"
               PROVE  /\ r.d = [released |-> FALSE, extended |-> FALSE]
                      /\ key[1] # NoKey => r.ev = <<<<key, d.released>>>>
    OBVIOUS
  <2>1. PICK ev : /\ r = Result([released |-> FALSE, extended |-> FALSE], ev)
                  /\ key[1] # NoKey => ev = <<<<key, d.released>>>>
    BY <1>4
  <2>2. r.d = [released |-> FALSE, extended |-> FALSE] /\ r.ev = ev
    BY <1>0, <2>1, Zenon
  <2> QED BY <2>1, <2>2
<1> QED BY <1>5, <1>6, <1>7 DEF r

LEMMA KindsStep ==
  ASSUME Kinds, Reading, TwoIsKbds(hw), [Next]_<<vars, machine>>
  PROVE  Kinds'
<1>0. hw' \in Hardware /\ stage' \in {"send", "wait", "read"}
  BY HardwareStep, OnwardStep DEF Onward
<1>1. CASE Aside
  BY <1>0, <1>1, AsideCalm DEF Calm, Kinds, drvVars
<1>2. CASE Buffers
  <2>1. PICK d \in {"kbd", "mse"}, how \in {"cap", "ready"} : ring' = [ring EXCEPT ![d] = how]
    BY <1>2 DEF Buffers, Buffer
  <2>2. ring' \in [kbd : {"zeroed", "cap", "ready"}, mse : {"zeroed", "cap", "ready"}]
    BY <2>1 DEF Kinds
  <2>3. UNCHANGED <<machine, typed, moves, decoder>>
    BY <1>2 DEF Buffers, Buffer, Go
  <2> QED BY <1>0, <2>2, <2>3 DEF Kinds
<1>3. CASE Drain \/ Fill \/ \E l \in Questions : Send(l)
  <2>1. UNCHANGED <<machine, typed, moves, decoder, ring>>
    BY <1>3 DEF Drain, Fill, Send, Rest, drvVars
  <2> QED BY <1>0, <2>1 DEF Kinds
<1>4. CASE \E l \in Questions : Read(l) \/ GiveUp(l)
  <2>1. UNCHANGED <<machine, typed, moves, decoder, ring>>
    BY <1>4 DEF Read, GiveUp, Answered, Rest
  <2> QED BY <1>0, <2>1 DEF Kinds
<1>5. CASE Type
  <2>1. typed' \in Seq(Strokes) /\ UNCHANGED <<machine, moves, decoder, ring>>
    BY <1>5, TypeFacts DEF Kinds, drvVars
  <2> QED BY <1>0, <2>1 DEF Kinds
<1>6. CASE Move
  <2>1. moves' \in 0 .. Len(Packets) /\ UNCHANGED <<machine, typed, decoder, ring>>
    BY <1>6, MoveFacts DEF drvVars
  <2> QED BY <1>0, <2>1 DEF Kinds
<1>7. ASSUME NEW d, NEW irq, NEW from, Called(d, irq, from) PROVE Kinds'
  <2>1. UNCHANGED <<machine, typed, moves>>
    BY <1>7 DEF Called, Interrupt, Rest
  <2>2. PICK byte : IF d = "kbd" THEN KeyboardCallback(byte) ELSE MouseCallback(byte)
    BY <1>7, CallbackRead DEF Called
  <2>3. ring' = ring
    BY <2>2 DEF KeyboardCallback, MouseCallback
  <2>4. decoder' \in [released : BOOLEAN, extended : BOOLEAN]
    <3>1. ASSUME NEW key PROVE Decode(decoder, byte, key).d \in [released : BOOLEAN, extended : BOOLEAN]
      <4>1. decoder \in [released : BOOLEAN, extended : BOOLEAN]
        BY DEF Kinds
      <4>2. /\ [decoder EXCEPT !.extended = TRUE] \in [released : BOOLEAN, extended : BOOLEAN]
            /\ [decoder EXCEPT !.released = TRUE] \in [released : BOOLEAN, extended : BOOLEAN]
            /\ [released |-> FALSE, extended |-> FALSE] \in [released : BOOLEAN, extended : BOOLEAN]
        BY <4>1
      <4> DEFINE e == Decode(decoder, byte, key).d
      <4>3. /\ scancode_set # "02" => e = decoder
            /\ scancode_set = "02" /\ byte = "E0" => e = [decoder EXCEPT !.extended = TRUE]
            /\ scancode_set = "02" /\ byte = "F0" => e = [decoder EXCEPT !.released = TRUE]
            /\ scancode_set = "02" /\ byte # "E0" /\ byte # "F0" => e = [released |-> FALSE, extended |-> FALSE]
        BY DecodeFacts
      <4> HIDE DEF e
      <4> QED BY <4>1, <4>2, <4>3, Zenon DEF e
    <3>2. CASE d = "kbd"
      <4>1. \E key : decoder' = Decode(decoder, byte, key).d
        BY <2>2, <3>2 DEF KeyboardCallback
      <4> QED BY <3>1, <4>1
    <3>3. CASE d # "kbd"
      BY <2>2, <3>3 DEF MouseCallback, Kinds
    <3> QED BY <3>2, <3>3
  <2> QED BY <1>0, <2>1, <2>3, <2>4 DEF Kinds
<1> QED BY <1>1, <1>2, <1>3, <1>4, <1>5, <1>6, <1>7, Shapes


-----------------------------------------------------------------------------
(* Lines, masks and requests.                                               *)

\* What rises and falls at the PS/2 controller, at the PIC and at the LAPIC: one
\* interrupt may have been served meanwhile.
Wired(g, h) ==
  /\ pic'.masked = pic.masked /\ ioapic' = ioapic /\ interrupt_controller' = interrupt_controller
  /\ pic'.latched \subseteq (pic.latched \ (Line(g) \ Line(h))) \cup Line(h)
  /\ 33 \in lapic'.irr => 33 \in lapic.irr \/ (1 \in ioapic.open /\ 1 \in Line(h))
  /\ 44 \in lapic'.irr => 44 \in lapic.irr \/ 12 \in ioapic.open

LEMMA Raises ==
  ASSUME Inv, NEW rising \in SUBSET {1, 12}
  PROVE  LET raised == {ioapic.vector[i] : i \in rising \cap ioapic.open}
         IN  /\ 33 \in raised <=> 1 \in rising \cap ioapic.open
             /\ 44 \in raised <=> 12 \in rising \cap ioapic.open
<1>1. CASE interrupt_controller = "APIC"
  <2>1. /\ ioapic.open \subseteq {1, 12} /\ ioapic.vector[1] = 33 /\ ioapic.vector[12] = 44
    BY <1>1 DEF Inv, IoapicSilent
  <2>2. \A i \in rising \cap ioapic.open : (ioapic.vector[i] = 33 <=> i = 1) /\ (ioapic.vector[i] = 44 <=> i = 12)
    BY <2>1
  <2>3. \A v : v \in {ioapic.vector[i] : i \in rising \cap ioapic.open}
                 <=> \E i \in rising \cap ioapic.open : v = ioapic.vector[i]
    OBVIOUS
  <2> QED BY <2>1, <2>2, <2>3
<1>2. CASE interrupt_controller # "APIC"
  <2>1. ioapic.open = {}
    BY <1>2 DEF Inv, IoapicSilent
  <2> QED BY <2>1
<1> QED BY <1>1, <1>2

LEMMA BecomesWired ==
  ASSUME Inv, NEW h, NEW what, BecomesNoting(h, what), UNCHANGED <<ioapic, interrupt_controller>>
  PROVE  Wired(hw, h) /\ hw' = h /\ ("stray" \notin odd' => "stray" \notin odd /\ "stray" \notin what)
<1> DEFINE rising == Line(h) \ Line(hw)
           raised == {ioapic.vector[i] : i \in rising \cap ioapic.open}
<1>1. /\ pic' = [pic EXCEPT !.latched = (@ \ (Line(hw) \ Line(h))) \cup rising]
      /\ lapic' = [lapic EXCEPT !.irr = @ \cup raised]
      /\ hw' = h /\ odd' = Kept(h) \cup what \cup Lost(rising)
  BY DEF BecomesNoting, Wire
<1>2. /\ pic'.masked = pic.masked /\ lapic'.irr = lapic.irr \cup raised
      /\ pic'.latched = (pic.latched \ (Line(hw) \ Line(h))) \cup rising
  BY <1>1 DEF Inv, Types
<1>3. rising \in SUBSET {1, 12}
  BY Lines
<1>4. /\ 33 \in raised => 1 \in rising \cap ioapic.open
      /\ 44 \in raised => 12 \in rising \cap ioapic.open
  BY <1>3, Raises
<1>5. "stray" \notin odd' => "stray" \notin odd /\ "stray" \notin what
  BY <1>1 DEF Kept
<1> HIDE DEF raised
<1> QED BY <1>1, <1>2, <1>4, <1>5 DEF Wired

LEMMA ServedWired ==
  ASSUME Inv, NEW v, NEW from, NEW h, Served(v, from, Line(h) \ Line(hw), Line(hw))
  PROVE  /\ pic'.masked = pic.masked /\ ioapic' = ioapic /\ interrupt_controller' = interrupt_controller
         /\ pic'.latched \subseteq pic.latched \ Line(hw)
         /\ 33 \in lapic'.irr => \/ 33 \in lapic.irr /\ ~(from = "APIC" /\ v = 33)
                                 \/ 1 \in ioapic.open /\ 1 \in Line(h) \ Line(hw)
         /\ 44 \in lapic'.irr => 44 \in lapic.irr \/ 12 \in ioapic.open
<1> DEFINE rising == Line(h) \ Line(hw)
           raised == {ioapic.vector[i] : i \in rising \cap ioapic.open}
           kept == IF from = "APIC" THEN lapic.irr \ {v} ELSE lapic.irr
<1>1. \E given, service, isr :
        /\ pic' = [pic EXCEPT !.latched = @ \ (Line(hw) \cup given), !.service = service]
        /\ lapic' = [lapic EXCEPT !.irr = kept \cup raised, !.isr = isr]
        /\ UNCHANGED <<interrupt_controller, ioapic>>
  BY DEF Served, Inv, Types
<1>2. /\ pic'.masked = pic.masked /\ lapic'.irr = kept \cup raised
      /\ pic'.latched \subseteq pic.latched \ Line(hw)
      /\ UNCHANGED <<interrupt_controller, ioapic>>
  <2>1. PICK given, service, isr :
          /\ pic' = [pic EXCEPT !.latched = @ \ (Line(hw) \cup given), !.service = service]
          /\ lapic' = [lapic EXCEPT !.irr = kept \cup raised, !.isr = isr]
          /\ UNCHANGED <<interrupt_controller, ioapic>>
    BY <1>1
  <2> HIDE DEF kept, raised
  <2>2. lapic'.irr = kept \cup raised
    BY <2>1 DEF Inv, Types
  <2>3. pic'.masked = pic.masked /\ pic'.latched = pic.latched \ (Line(hw) \cup given)
    BY <2>1 DEF Inv, Types
  <2> QED BY <2>1, <2>2, <2>3
<1>3. rising \in SUBSET {1, 12}
  BY Lines
<1>4. /\ 33 \in raised => 1 \in rising \cap ioapic.open
      /\ 44 \in raised => 12 \in rising \cap ioapic.open
  BY <1>3, Raises
<1> HIDE DEF raised
<1> QED BY <1>2, <1>4

LEMMA TimerWired ==
  ASSUME Inv, NEW from, Served(TimerVector, from, {}, {})
  PROVE  Wired(hw, hw) /\ lapic'.irr \subseteq lapic.irr /\ pic'.latched \subseteq pic.latched
<1> DEFINE raised == {ioapic.vector[i] : i \in {} \cap ioapic.open}
           kept == IF from = "APIC" THEN lapic.irr \ {TimerVector} ELSE lapic.irr
           given == IF from = "PIC" THEN {TimerVector - 32} ELSE {}
           left == Acknowledge(TimerVector, from)
<1>1. raised = {}
  OBVIOUS
<1>2. /\ pic' = [pic EXCEPT !.latched = @ \ ({} \cup given), !.service = left.service]
      /\ lapic' = [lapic EXCEPT !.irr = (IF from = "APIC" THEN @ \ {TimerVector} ELSE @) \cup raised,
                               !.isr = left.isr]
      /\ UNCHANGED <<interrupt_controller, ioapic>>
  BY DEF Served
<1> HIDE DEF raised, given, left
<1>3. pic'.masked = pic.masked /\ pic'.latched \subseteq pic.latched
  BY <1>2 DEF Inv, Types
<1>4. lapic'.irr \subseteq lapic.irr
  BY <1>1, <1>2 DEF Inv, Types
<1> QED BY <1>2, <1>3, <1>4 DEF Wired

\* Which step puts what through to the controllers.
LEMMA WiredStep ==
  ASSUME Inv, Kinds, TwoIsKbds(hw), [Next]_<<vars, machine>>
  PROVE  \/ Aside
         \/ /\ UNCHANGED <<pic, ioapic, lapic, interrupt_controller>> /\ Line(hw') = Line(hw)
            /\ Buffers \/ Type \/ Move \/ \E l \in Questions : GiveUp(l)
         \/ /\ Wired(hw, hw')
            /\ Drain \/ Fill \/ \E l \in Questions : Send(l) \/ Read(l)
         \/ /\ pic'.masked = pic.masked /\ ioapic' = ioapic /\ interrupt_controller' = interrupt_controller
            /\ pic'.latched \subseteq pic.latched \ Line(hw)
            /\ 33 \in lapic'.irr => 33 \in lapic.irr \/ 1 \in ioapic.open
            /\ 44 \in lapic'.irr => 44 \in lapic.irr \/ 12 \in ioapic.open
            /\ \E d, irq, from : Called(d, irq, from)
<1>1. CASE Buffers \/ \E l \in Questions : GiveUp(l)
  BY <1>1 DEF Buffers, Buffer, GiveUp, intVars
<1>2. CASE Type
  <2>1. PICK s \in Strokes : Longer(hw, hw', "kbd", s)
    BY <1>2, TypeFacts
  <2>2. Line(hw') = Line(hw)
    BY <2>1, SentMore, StrokeFacts DEF Kinds
  <2> QED BY <1>2, <2>2 DEF Type, intVars
<1>3. CASE Move
  <2>1. Packets[moves + 1] \in Seq(Byte) /\ Longer(hw, hw', "mse", Packets[moves + 1])
    BY <1>3, MoveFacts, PacketFacts
  <2>2. Line(hw') = Line(hw)
    BY <2>1, SentMore DEF Kinds
  <2> QED BY <1>3, <2>2 DEF Move, intVars
<1>4. CASE Drain \/ Fill \/ \E l \in Questions : Send(l) \/ Read(l)
  <2>1. UNCHANGED <<interrupt_controller, ioapic>>
    BY <1>4 DEF Drain, Fill, Send, Read
  <2>2. \E h, what : BecomesNoting(h, what)
    BY <1>4 DEF Drain, Fill, Send, Read, Becomes, BecomesRead
  <2>3. Wired(hw, hw')
    BY <2>1, <2>2, BecomesWired
  <2> QED BY <1>4, <2>3
<1>5. ASSUME NEW d, NEW irq, NEW from, Called(d, irq, from)
      PROVE  /\ pic'.masked = pic.masked /\ ioapic' = ioapic
             /\ interrupt_controller' = interrupt_controller
             /\ pic'.latched \subseteq pic.latched \ Line(hw)
             /\ 33 \in lapic'.irr => 33 \in lapic.irr \/ 1 \in ioapic.open
             /\ 44 \in lapic'.irr => 44 \in lapic.irr \/ 12 \in ioapic.open
  <2>1. \E h : Served(Vector(irq), from, Line(h) \ Line(hw), Line(hw))
    BY <1>5, CallbackRead DEF Called
  <2> QED BY <2>1, ServedWired
<1> QED BY <1>1, <1>2, <1>3, <1>4, <1>5, Shapes


\* Parts of the controllers, one changed.
LEMMA Changed ==
  ASSUME Inv, NEW s
  PROVE  /\ [pic EXCEPT !.masked = s].masked = s /\ [pic EXCEPT !.masked = s].latched = pic.latched
         /\ [ioapic EXCEPT !.open = s].open = s
         /\ [lapic EXCEPT !.irr = s].irr = s /\ [lapic EXCEPT !.timer = s].irr = lapic.irr
         /\ [pic EXCEPT !.latched = s].masked = pic.masked /\ [pic EXCEPT !.latched = s].latched = s
<1>1. /\ pic \in [masked : SUBSET Int, latched : SUBSET Irq, service : SUBSET Irq]
      /\ ioapic \in [open : SUBSET Irq, vector : [Irq -> {0, 33, 44}]]
      /\ lapic \in [irr : SUBSET {32, 33, 44}, isr : SUBSET {32, 33, 44}, timer : BOOLEAN]
  BY DEF Inv, Types
<1>2. [pic EXCEPT !.masked = s].masked = s /\ [pic EXCEPT !.masked = s].latched = pic.latched
  BY <1>1
<1>3. [pic EXCEPT !.latched = s].masked = pic.masked /\ [pic EXCEPT !.latched = s].latched = s
  BY <1>1
<1>4. [ioapic EXCEPT !.open = s].open = s
  BY <1>1
<1>5. [lapic EXCEPT !.irr = s].irr = s /\ [lapic EXCEPT !.timer = s].irr = lapic.irr
  BY <1>1
<1> QED BY <1>2, <1>3, <1>4, <1>5

LEMMA MasksSame ==
  ASSUME Masks, Onward,
         pic.masked \subseteq pic'.masked, ioapic'.open = ioapic.open,
         interrupt_controller' = interrupt_controller,
         pc' = pc \/ (pc \notin Early /\ pc' \notin Early),
         33 \in lapic'.irr => 33 \in lapic.irr \/ 1 \in ioapic.open,
         44 \in lapic'.irr => 44 \in lapic.irr \/ 12 \in ioapic.open
  PROVE  Masks'
<1>1. /\ pc' = "mask pic 2" => pc = "mask pic 2"
      /\ pc' = "use pic" => pc = "use pic"
  BY DEF Early
<1>2. interrupt_controller' = "none" <=> pc' \in Early
  BY DEF Masks
<1>3. /\ pc \in KeysOn => pc' \in KeysOn
      /\ pc \in MouseOn => pc' \in MouseOn
  BY DEF Onward
<1>4. /\ pc' = "mask pic 2" => 0 .. 7 \subseteq pic'.masked
      /\ pc' = "use pic" => 0 .. 15 \subseteq pic'.masked
      /\ interrupt_controller' = "PIC" => 2 \in pic'.masked /\ (1 \in pic'.masked \/ pc' \in KeysOn)
  BY <1>1, <1>3 DEF Masks
<1>5. /\ 1 \in ioapic'.open \/ 33 \in lapic'.irr => pc' \in KeysOn
      /\ 12 \in ioapic'.open \/ 44 \in lapic'.irr => pc' \in MouseOn
  BY <1>3 DEF Masks
<1> QED BY <1>2, <1>4, <1>5 DEF Masks

LEMMA MasksAside == ASSUME Inv, Inv', Masks, Onward, Aside PROVE Masks'
<1>0. interrupt_controller \in {"none", "PIC", "APIC"}
  BY DEF Inv, Types
<1>1. CASE IdtInit
  <2>1. UNCHANGED <<pic, ioapic, lapic, interrupt_controller>> /\ pc = "idt_init" /\ pc' = "reset pics"
    BY <1>1 DEF IdtInit, At, Go
  <2> QED BY <2>1 DEF Masks, Early, KeysOn, MouseOn, Late
<1>2. CASE PicInit
  <2>1. /\ UNCHANGED <<ioapic, lapic, interrupt_controller>> /\ pc \in Early /\ pc' \in Early
        /\ pc' = "mask pic 2" => pic' = [pic EXCEPT !.masked = pic.masked \cup 0 .. 7]
        /\ pc' = "use pic" => pc = "mask pic 2" /\ pic' = [pic EXCEPT !.masked = pic.masked \cup 8 .. 15]
    <3>1. 0 + 7 = 7 /\ 8 + 7 = 15
      OBVIOUS
    <3> QED BY <1>2, <3>1 DEF PicInit, PicStep, At, Go, PicMaskAll, Early
  <2>2. interrupt_controller = "none"
    BY <2>1 DEF Masks
  <2>3. pc' = "mask pic 2" => 0 .. 7 \subseteq pic'.masked
    <3>1. pc' = "mask pic 2" => pic'.masked = pic.masked \cup 0 .. 7
      BY <2>1, Changed
    <3> QED BY <3>1
  <2>4. pc' = "use pic" => 0 .. 15 \subseteq pic'.masked
    <3>1. pc' = "use pic" => 0 .. 7 \subseteq pic.masked /\ pic'.masked = pic.masked \cup 8 .. 15
      <4>1. pc' = "use pic" => pic'.masked = pic.masked \cup 8 .. 15
        BY <2>1, Changed
      <4> QED BY <2>1, <4>1 DEF Masks
    <3>2. \A i \in 0 .. 15 : i \in 0 .. 7 \/ i \in 8 .. 15
      OBVIOUS
    <3> QED BY <3>1, <3>2
  <2>5. /\ ~(1 \in ioapic.open \/ 33 \in lapic.irr) /\ ~(12 \in ioapic.open \/ 44 \in lapic.irr)
    BY <2>1 DEF Masks, Early, KeysOn, MouseOn, Late
  <2> QED BY <2>1, <2>2, <2>3, <2>4, <2>5 DEF Masks
<1>3. CASE UsePic
  <2>1. /\ UNCHANGED <<pic, ioapic, lapic>> /\ pc = "use pic" /\ pc' \in {"pit_init", "drain"}
        /\ interrupt_controller' = "PIC"
    BY <1>3 DEF UsePic, UseController, At, Go
  <2>2. 2 \in pic.masked /\ 1 \in pic.masked
    <3>1. 0 .. 15 \subseteq pic.masked
      BY <2>1 DEF Masks
    <3>2. 1 \in 0 .. 15 /\ 2 \in 0 .. 15
      OBVIOUS
    <3> QED BY <3>1, <3>2
  <2>3. /\ ~(1 \in ioapic.open \/ 33 \in lapic.irr) /\ ~(12 \in ioapic.open \/ 44 \in lapic.irr)
    BY <2>1 DEF Masks, KeysOn, MouseOn, Late
  <2> QED BY <2>1, <2>2, <2>3 DEF Masks, Early
<1>4. CASE PitInit
  <2>1. /\ UNCHANGED <<ioapic, lapic, interrupt_controller>> /\ pc = "pit_init" /\ pc' = "pit_sleep"
        /\ pic' = [pic EXCEPT !.masked = @ \ {0}]
    BY <1>4 DEF PitInit, PicStep, PicClear, At, Go
  <2>2. pic'.masked = pic.masked \ {0}
    BY <2>1 DEF Inv, Types
  <2> QED BY <2>1, <2>2 DEF Masks, Early, KeysOn, MouseOn, Late
<1>5. CASE PicDisable
  <2>1. /\ UNCHANGED <<ioapic, lapic, interrupt_controller>> /\ pc \notin Early /\ pc' \notin Early
        /\ \E s : pic' = [pic EXCEPT !.masked = pic.masked \cup s]
    BY <1>5 DEF PicDisable, PicStep, PicMaskAll, At, Go, Early
  <2>2. pic.masked \subseteq pic'.masked
    <3>1. \E s : pic'.masked = pic.masked \cup s
      BY <2>1, Changed
    <3> QED BY <3>1
  <2> QED BY <2>1, <2>2, MasksSame
<1>6. CASE SleepStart \/ StartTimer \/ Registers
  <2>1. /\ UNCHANGED <<pic, interrupt_controller>> /\ pc \notin Early /\ pc' \notin Early
    BY <1>6 DEF SleepStart, StartTimer, Registers, RegisterLine, At, Go, Early
  <2>2. ioapic'.open = ioapic.open
    <3>1. ioapic' = ioapic \/ \E irq, v : ioapic' = [ioapic EXCEPT !.vector[irq] = v]
      BY <1>6 DEF SleepStart, StartTimer, Registers, RegisterLine, Register
    <3>2. ioapic \in [open : SUBSET Irq, vector : [Irq -> {0, 33, 44}]]
      BY DEF Inv, Types
    <3> QED BY <3>1, <3>2
  <2>3. lapic'.irr = lapic.irr
    <3>1. lapic' = lapic \/ lapic' = [lapic EXCEPT !.timer = TRUE]
      BY <1>6 DEF SleepStart, StartTimer, Registers, RegisterLine
    <3>2. CASE lapic' = [lapic EXCEPT !.timer = TRUE]
      BY <3>2 DEF Inv, Types
    <3> QED BY <3>1, <3>2
  <2> QED BY <2>1, <2>2, <2>3, MasksSame
<1>7. CASE UseApic
  <2>1. /\ UNCHANGED <<pic, ioapic, lapic>> /\ pc = "use apic" /\ pc' = "drain"
        /\ interrupt_controller' = "APIC"
    BY <1>7 DEF UseApic, UseController, At, Go
  <2> QED BY <2>1 DEF Masks, Early, KeysOn, MouseOn, Late
<1>8. CASE LoopFaults \/ HandlerFaults \/ UNCHANGED <<vars, machine>> \/ \E l \in Questions : Wait(l)
  <2>1. UNCHANGED <<pic, ioapic, lapic, interrupt_controller, pc>>
    BY <1>8 DEF LoopFaults, HandlerFaults, vars, Wait, intVars
  <2> QED BY <2>1 DEF Masks
<1>9. CASE Ticks
  <2>1. UNCHANGED <<ioapic, interrupt_controller, pc>>
    BY <1>9 DEF Ticks, PitTick, LapicTick
  <2>2. pic'.masked = pic.masked
    <3>1. pic' = pic \/ \E s : pic' = [pic EXCEPT !.latched = s]
      BY <1>9 DEF Ticks, PitTick, LapicTick
    <3>2. ASSUME NEW s, pic' = [pic EXCEPT !.latched = s] PROVE pic'.masked = pic.masked
      BY <3>2, Changed
    <3> QED BY <3>1, <3>2
  <2>3. lapic'.irr \subseteq lapic.irr \cup {32}
    <3>1. lapic' = lapic \/ lapic' = [lapic EXCEPT !.irr = lapic.irr \cup {32}]
      BY <1>9 DEF Ticks, PitTick, LapicTick, TimerVector
    <3>2. lapic'.irr = lapic.irr \/ lapic'.irr = lapic.irr \cup {32}
      BY <3>1, Changed
    <3> QED BY <3>2
  <2> QED BY <2>1, <2>2, <2>3, MasksSame
<1>10. CASE Unmask("unmask 1", 1, "kbd cap")
  <2>1. /\ pc = "unmask 1" /\ pc' = "kbd cap" /\ UNCHANGED <<lapic, interrupt_controller>> /\ ClearMask(1)
    BY <1>10 DEF Unmask, At, Go
  <2>2. /\ pic' = [pic EXCEPT !.masked = pic.masked \ {1}] \/ pic' = pic
        /\ ioapic' = [ioapic EXCEPT !.open = ioapic.open \cup {1}] \/ ioapic' = ioapic
    BY <2>1 DEF ClearMask, PicClear
  <2>3. pic.masked \ {1} \subseteq pic'.masked /\ ioapic'.open \subseteq ioapic.open \cup {1}
    <3>1. /\ pic'.masked = pic.masked \ {1} \/ pic' = pic
          /\ ioapic'.open = ioapic.open \cup {1} \/ ioapic' = ioapic
      BY <2>2, Changed
    <3> QED BY <3>1
  <2>4. /\ pc' \in KeysOn /\ pc \notin KeysOn /\ pc \notin MouseOn /\ pc \notin Early /\ pc' \notin Early
        /\ pc' # "mask pic 2" /\ pc' # "use pic"
    BY <2>1 DEF Early, KeysOn, MouseOn, Late
  <2>5. interrupt_controller' = "PIC" => 2 \in pic'.masked
    <3>1. interrupt_controller = "PIC" => 2 \in pic.masked
      BY DEF Masks
    <3>2. 2 \in pic.masked => 2 \in pic'.masked
      BY <2>3
    <3>3. interrupt_controller' = interrupt_controller
      BY <2>1
    <3> QED BY <3>1, <3>2, <3>3
  <2>6. ~(12 \in ioapic'.open \/ 44 \in lapic'.irr)
    <3>1. ~(12 \in ioapic.open \/ 44 \in lapic.irr)
      BY <2>4 DEF Masks
    <3>2. 12 \in ioapic'.open => 12 \in ioapic.open
      BY <2>3
    <3>3. lapic' = lapic
      BY <2>1
    <3> QED BY <3>1, <3>2, <3>3
  <2>7. interrupt_controller' # "none"
    BY <2>1, <2>4 DEF Masks
  <2> QED BY <2>4, <2>5, <2>6, <2>7 DEF Masks
<1>11. CASE Unmask("unmask 12", 12, "mse cap")
  <2>1. /\ pc = "unmask 12" /\ pc' = "mse cap" /\ UNCHANGED <<lapic, interrupt_controller>> /\ ClearMask(12)
    BY <1>11 DEF Unmask, At, Go
  <2>2. /\ pic' = [pic EXCEPT !.masked = pic.masked \ {12}] \/ pic' = pic
        /\ ioapic' = [ioapic EXCEPT !.open = ioapic.open \cup {12}] \/ ioapic' = ioapic
    BY <2>1 DEF ClearMask, PicClear
  <2>3. pic.masked \ {12} \subseteq pic'.masked /\ ioapic'.open \subseteq ioapic.open \cup {12}
    <3>1. /\ pic'.masked = pic.masked \ {12} \/ pic' = pic
          /\ ioapic'.open = ioapic.open \cup {12} \/ ioapic' = ioapic
      BY <2>2, Changed
    <3> QED BY <3>1
  <2>4. /\ pc' \in KeysOn /\ pc' \in MouseOn /\ pc \notin Early /\ pc' \notin Early
        /\ pc' # "mask pic 2" /\ pc' # "use pic"
    BY <2>1 DEF Early, KeysOn, MouseOn, Late
  <2>5. interrupt_controller' = "PIC" => 2 \in pic'.masked
    <3>1. interrupt_controller = "PIC" => 2 \in pic.masked
      BY DEF Masks
    <3>2. 2 \in pic.masked => 2 \in pic'.masked
      BY <2>3
    <3>3. interrupt_controller' = interrupt_controller
      BY <2>1
    <3> QED BY <3>1, <3>2, <3>3
  <2>7. interrupt_controller' # "none"
    BY <2>1, <2>4 DEF Masks
  <2> QED BY <2>4, <2>5, <2>7 DEF Masks
<1>12. ASSUME NEW from \in {"PIC", "APIC"}, Interrupt, Timer(from) PROVE Masks'
  <2>1. Wired(hw, hw) /\ lapic'.irr \subseteq lapic.irr /\ pc' = pc
    BY <1>12, TimerWired DEF Timer, Interrupt
  <2> QED BY <2>1, MasksSame DEF Wired
<1> QED BY <1>1, <1>2, <1>3, <1>4, <1>5, <1>6, <1>7, <1>8, <1>9, <1>10, <1>11, <1>12 DEF Aside

LEMMA QuestionsLater == Questions \cap Early = {}
BY DEF Questions, Early

LEMMA MasksStep ==
  ASSUME Inv, Inv', Kinds, Masks, TwoIsKbds(hw), Onward, [Next]_<<vars, machine>>
  PROVE  Masks'
<1>1. CASE Aside
  BY <1>1, MasksAside
<1>2. CASE Buffers \/ Type \/ Move \/ Drain \/ Fill \/ (\E l \in Questions : Send(l) \/ Read(l) \/ GiveUp(l))
             \/ \E d, irq, from : Called(d, irq, from)
  <2>1. pc' = pc \/ pc \notin Early
    BY <1>2, QuestionsLater
       DEF Buffers, Buffer, Type, Move, Drain, Fill, Send, Read, GiveUp, Called, Interrupt, At, Early
  <2>2. pc' = pc \/ (pc \notin Early /\ pc' \notin Early)
    BY <2>1 DEF Onward
  <2>3. CASE UNCHANGED <<pic, ioapic, lapic, interrupt_controller>>
    BY <2>2, <2>3, MasksSame
  <2>4. CASE /\ pic'.masked = pic.masked /\ ioapic' = ioapic
             /\ interrupt_controller' = interrupt_controller
             /\ 33 \in lapic'.irr => 33 \in lapic.irr \/ 1 \in ioapic.open
             /\ 44 \in lapic'.irr => 44 \in lapic.irr \/ 12 \in ioapic.open
    BY <2>2, <2>4, MasksSame
  <2>5. CASE Aside
    BY <2>5, MasksAside
  <2> QED BY <2>3, <2>4, <2>5, WiredStep DEF Wired
<1> QED BY <1>1, <1>2, Shapes

\* When the drivers are called.
LEMMA CalledFacts ==
  ASSUME Inv, Masks, NEW d, NEW irq, NEW from, Called(d, irq, from)
  PROVE  \/ /\ d = "kbd" /\ irq = 1 /\ Vector(irq) = 33 /\ pc \in KeysOn
            /\ from = "APIC" => 33 \in lapic.irr
            /\ from = "PIC" => 1 \in pic.latched /\ interrupt_controller # "APIC"
            /\ from \in {"PIC", "APIC"}
         \/ d = "mse" /\ irq = 12 /\ Vector(irq) = 44 /\ pc \in MouseOn
<1>0. /\ interrupt_controller # "none" /\ from \in {"PIC", "APIC"} /\ Vector(irq) \in Pending(from)
      /\ <<d, irq>> = <<"kbd", 1>> \/ <<d, irq>> = <<"mse", 12>>
  BY DEF Called, Interrupt
<1>1. Vector(1) = 33 /\ Vector(12) = 44
  BY DEF Vector
<1>2. CASE from = "PIC"
  <2>1. interrupt_controller = "PIC"
    BY <1>0, <1>2, GivenFacts DEF Inv, Types
  <2>2. PICK i \in PicGives : Vector(irq) = Vector(i)
    BY <1>0, <1>2 DEF Pending
  <2>3. i = irq
    <3>1. i \in Irq /\ irq \in {1, 12}
      BY <1>0, <2>2, PicGivesFacts DEF Inv
    <3> QED BY <3>1, <2>2 DEF Vector, Irq
  <2>4. irq \in pic.latched /\ irq \notin pic.masked /\ Rank(irq) \notin pic.masked
    BY <2>2, <2>3 DEF PicGives
  <2>5. irq # 12
    <3>1. Rank(12) = 2
      BY DEF Rank
    <3> QED BY <2>1, <2>4, <3>1 DEF Masks
  <2>6. irq = 1 /\ d = "kbd"
    BY <1>0, <2>5
  <2> QED BY <1>1, <1>2, <2>1, <2>4, <2>6 DEF Masks
<1>3. CASE from = "APIC"
  <2>1. Vector(irq) \in lapic.irr
    BY <1>0, <1>3 DEF Pending, LapicGives
  <2> QED BY <1>0, <1>1, <1>3, <2>1, ZenonT(60) DEF Masks
<1> QED BY <1>0, <1>2, <1>3

LEMMA LatchedStep ==
  ASSUME Inv, Kinds, Latched, TwoIsKbds(hw), [Next]_<<vars, machine>>
  PROVE  Latched'
<1>1. CASE Aside
  <2>0. hw' = hw
    BY <1>1, AsideCalm DEF Calm
  <2>1. pic'.latched \subseteq pic.latched \cup {0}
    <3>1. CASE IdtInit \/ UsePic \/ SleepStart \/ StartTimer \/ Registers \/ UseApic \/ LoopFaults
                 \/ HandlerFaults \/ UNCHANGED <<vars, machine>> \/ \E l \in Questions : Wait(l)
      BY <3>1 DEF IdtInit, UsePic, UseController, SleepStart, StartTimer, Registers, RegisterLine,
                  UseApic, LoopFaults, HandlerFaults, vars, Wait, intVars
    <3>2. CASE PicInit \/ PitInit \/ PicDisable
      <4>1. pic' = PicReset \/ \E s : pic' = [pic EXCEPT !.masked = s]
        BY <3>2 DEF PicInit, PitInit, PicDisable, PicStep, PicMaskAll, PicClear
      <4>2. PicReset.latched = {}
        BY DEF PicReset
      <4>3. CASE pic' = PicReset
        BY <4>2, <4>3
      <4>4. ASSUME NEW s, pic' = [pic EXCEPT !.masked = s] PROVE pic'.latched = pic.latched
        BY <4>4, Changed
      <4> QED BY <4>1, <4>3, <4>4
    <3>3. CASE Ticks
      BY <3>3, ZenonT(60) DEF Ticks, PitTick, LapicTick, Inv, Types
    <3>4. CASE Unmask("unmask 1", 1, "kbd cap") \/ Unmask("unmask 12", 12, "mse cap")
      <4>1. pic' = pic \/ \E s : pic' = [pic EXCEPT !.masked = s]
        BY <3>4 DEF Unmask, ClearMask, PicClear
      <4> QED BY <4>1, Changed, ZenonT(60)
    <3>5. ASSUME NEW from, Timer(from) PROVE pic'.latched \subseteq pic.latched
      BY <3>5, TimerWired DEF Timer
    <3> QED BY <1>1, <3>1, <3>2, <3>3, <3>4, <3>5 DEF Aside
  <2> QED BY <2>0, <2>1 DEF Latched
<1>2. CASE UNCHANGED pic /\ Line(hw') = Line(hw)
  BY <1>2 DEF Latched
<1>3. CASE Wired(hw, hw')
  BY <1>3 DEF Latched, Wired
<1>4. CASE pic'.latched \subseteq pic.latched \ Line(hw)
  BY <1>4 DEF Latched
<1> QED BY <1>1, <1>2, <1>3, <1>4, WiredStep

LEMMA ReadingStep ==
  ASSUME Inv, Kinds, Masks, Reading, TwoIsKbds(hw), Onward, [Next]_<<vars, machine>>
  PROVE  Reading'
<1>1. pc' \notin Questions => stage' = "send"
  BY DEF Onward
<1>2. ASSUME pc' \in Questions \ {"mouse"}, stage' = "read" PROVE hw'.obf.full
  <2>1. CASE stage = "read" /\ pc \in Questions \ {"mouse"}
    <3>0. hw.obf.full /\ pc \notin KeysOn /\ pc \notin MouseOn
      BY <2>1 DEF Reading, Questions, KeysOn, MouseOn, Late
    <3>1. CASE Aside \/ Buffers \/ \E l \in Questions : GiveUp(l)
      <4>1. hw' = hw
        BY <3>1, AsideCalm DEF Calm, Buffers, Buffer, GiveUp
      <4> QED BY <4>1, <3>0
    <3>2. CASE Drain \/ \E l \in Questions : Send(l) \/ Read(l)
      BY <1>2, <2>1, <3>2 DEF Drain, Send, Read, Answered, At, Questions
    <3>3. CASE Fill
      BY <3>0, <3>3, FillFacts DEF Fill, Kinds
    <3>4. CASE Type
      BY <3>0, <3>4, TypeFacts, StrokeFacts, SentMore DEF Kinds
    <3>5. CASE Move
      BY <3>0, <3>5, MoveFacts, PacketFacts, SentMore DEF Kinds
    <3>6. ASSUME NEW d, NEW irq, NEW from, Called(d, irq, from) PROVE FALSE
      BY <3>0, <3>6, CalledFacts
    <3> QED BY <3>1, <3>2, <3>3, <3>4, <3>5, <3>6, Shapes
  <2>2. CASE ~(stage = "read" /\ pc \in Questions \ {"mouse"})
    <3>1. CASE \E l \in Questions : Wait(l)
      BY <3>1 DEF Wait
    <3>2. CASE Aside /\ ~\E l \in Questions : Wait(l)
      <4>1. (pc' = pc /\ stage' = stage) \/ stage' # "read" \/ pc' \notin Questions
        <5>1. CASE IdtInit \/ PicInit \/ UsePic \/ PitInit \/ SleepStart \/ StartTimer
          BY <5>1 DEF IdtInit, PicInit, PicStep, UsePic, UseController, PitInit, SleepStart,
                      StartTimer, At, Go, Questions
        <5>2. CASE PicDisable \/ Registers \/ UseApic
          BY <5>2 DEF PicDisable, PicStep, Registers, RegisterLine, UseApic, UseController, At, Go,
                      Questions
        <5>3. CASE LoopFaults \/ HandlerFaults \/ Ticks \/ UNCHANGED <<vars, machine>>
          BY <5>3 DEF LoopFaults, HandlerFaults, Ticks, vars
        <5>4. CASE Unmask("unmask 1", 1, "kbd cap") \/ Unmask("unmask 12", 12, "mse cap")
          BY <5>4 DEF Unmask, Go, Questions
        <5>5. CASE Interrupt
          BY <5>5 DEF Interrupt
        <5> QED BY <3>2, <5>1, <5>2, <5>3, <5>4, <5>5 DEF Aside
      <4> QED BY <1>2, <2>2, <4>1
    <3>3. CASE Buffers \/ Drain \/ Fill \/ Type \/ Move
                 \/ (\E l \in Questions : Send(l) \/ Read(l) \/ GiveUp(l))
                 \/ \E d, irq, from : Called(d, irq, from)
      <4>1. (pc' = pc /\ stage' = stage) \/ stage' # "read" \/ (stage' = stage /\ pc \notin Questions)
                \/ pc' = "mouse"
        BY <3>3 DEF Buffers, Buffer, Drain, Fill, Type, Move, Send, Read, GiveUp, Answered, Called,
                    Interrupt, At, Go, Questions
      <4> QED BY <1>2, <2>2, <4>1 DEF Reading
    <3> QED BY <3>1, <3>2, <3>3, Shapes
  <2> QED BY <2>1, <2>2
<1>3. /\ ring'.kbd = "ready" => pc' \in KeysReady
      /\ ring'.mse = "ready" => pc' = "loop"
  <2>1. CASE ring' = ring
    BY <2>1 DEF Reading, Onward
  <2>2. CASE Buffers
    <3>1. ring \in [kbd : {"zeroed", "cap", "ready"}, mse : {"zeroed", "cap", "ready"}]
      BY DEF Kinds
    <3>2. CASE Buffer("kbd cap", "kbd", "cap", "kbd buf")
      BY <3>1, <3>2 DEF Buffer, At, Go, Reading, KeysReady
    <3>3. CASE Buffer("kbd buf", "kbd", "ready", "mouse")
      BY <3>1, <3>3 DEF Buffer, At, Go, Reading, KeysReady, KeysOn, Late
    <3>4. CASE Buffer("mse cap", "mse", "cap", "mse buf")
      BY <3>1, <3>4 DEF Buffer, At, Go, Reading, KeysReady, KeysOn, Late
    <3>5. CASE Buffer("mse buf", "mse", "ready", "loop")
      BY <3>1, <3>5 DEF Buffer, At, Go, Reading, KeysReady, KeysOn, Late
    <3> QED BY <2>2, <3>2, <3>3, <3>4, <3>5 DEF Buffers
  <2>3. ASSUME NEW d, NEW irq, NEW from, Called(d, irq, from) PROVE ring' = ring
    <3>1. \E byte : KeyboardCallback(byte) \/ MouseCallback(byte)
      BY <2>3, CallbackRead DEF Called
    <3> QED BY <3>1 DEF KeyboardCallback, MouseCallback
  <2>4. CASE Aside \/ Drain \/ Fill \/ Type \/ Move \/ \E l \in Questions : Send(l) \/ Read(l) \/ GiveUp(l)
    BY <2>1, <2>4, AsideCalm DEF Calm, Drain, Fill, Type, Move, Send, Read, GiveUp, Answered, drvVars
  <2> QED BY <2>1, <2>2, <2>3, <2>4, Shapes
<1> QED BY <1>1, <1>2, <1>3 DEF Reading


-----------------------------------------------------------------------------
(* The request the LAPIC keeps for the keyboard.                            *)

LEMMA TimeoutNoByte == Timeout \notin Byte /\ Timeout # "02" /\ ACK # "02" /\ "02" \notin Input
BY NamesAssumption DEF Byte, Answers, Timeout, ACK

\* The scancode set is learnt in one place.
LEMMA SetLearnt ==
  ASSUME [Next]_<<vars, machine>>, SetAnswer, scancode_set' = "02", scancode_set # "02"
  PROVE  pc = "set" /\ stage = "read" /\ Read("set") /\ hw.obf.byte = "02"
<1>1. CASE \E l \in Questions : Read(l)
  <2>1. PICK l \in Questions : Read(l)
    BY <1>1
  <2>2. pc = l /\ stage = "read"
        /\ scancode_set' = IF l = "set" THEN hw.obf.byte
                           ELSE IF l \in {"F0", "00"} /\ hw.obf.byte # ACK THEN Timeout ELSE scancode_set
    BY <2>1 DEF Read, Answered, At
  <2> QED BY <2>1, <2>2, TimeoutNoByte
<1>2. CASE \E l \in Questions : GiveUp(l)
  <2>1. scancode_set' \in {Timeout, scancode_set}
    BY <1>2 DEF GiveUp, Answered
  <2> QED BY <2>1, TimeoutNoByte
<1>3. CASE Aside \/ Buffers \/ Drain \/ Fill \/ Type \/ Move \/ \E l \in Questions : Send(l)
  <2>1. scancode_set' = scancode_set
    BY <1>3, AsideCalm DEF Calm, Buffers, Buffer, Drain, Fill, Type, Move, Send, drvVars
  <2> QED BY <2>1
<1>4. ASSUME NEW d, NEW irq, NEW from, Called(d, irq, from) PROVE scancode_set' = scancode_set
  BY <1>4 DEF Called, Callback, KeyboardCallback, MouseCallback
<1> QED BY <1>1, <1>2, <1>3, <1>4, Shapes

\* Once the set is known, what the keyboard has sent are keys.
LEMMA KeyHead ==
  ASSUME Kinds, KeyOrder, "stray" \notin odd, scancode_set = "02",
         NEW h \in Hardware, Stream(h, "kbd") = Stream(hw, "kbd"), Holds(h, "kbd")
  PROVE  h.obf.byte \in Input
<1>1. PICK c, o : Ahead(Stream(hw, "kbd"), typed, c, o)
  BY DEF KeyOrder
<1>2. /\ Stream(hw, "kbd") \in Seq(Byte) /\ Stream(hw, "kbd") # <<>>
      /\ Stream(hw, "kbd")[1] = h.obf.byte
  BY StreamFacts DEF Kinds
<1>3. c \in 1 .. Len(typed) /\ o + 1 \in 1 .. Len(typed[c]) /\ h.obf.byte = typed[c][o + 1]
  BY <1>1, <1>2, TypedFacts, AheadHead
<1>4. typed[c] \in Strokes
  BY <1>3 DEF Kinds
<1> QED BY <1>3, <1>4, StrokeFacts

\* kmain has read a byte that is no key and no movement.
LEMMA ReadFacts ==
  ASSUME Inv, Kinds, NEW l \in Questions, Read(l), "stray" \notin odd'
  PROVE  hw.obf.byte \notin Input /\ Wired(hw, hw') /\ hw' = Emptied(hw)
<1>1. BecomesRead(Emptied(hw)) /\ UNCHANGED <<ioapic, interrupt_controller>>
  BY DEF Read
<1>2. Emptied(hw).obf.byte = hw.obf.byte
  BY EmptiedFacts DEF Kinds
<1>3. PICK what : BecomesNoting(Emptied(hw), what) /\ (hw.obf.byte \in Input => "stray" \in what)
  BY <1>1, <1>2 DEF BecomesRead
<1> QED BY <1>1, <1>3, BecomesWired

LEMMA LineSame ==
  ASSUME NEW g, NEW h, g.obf = h.obf, g.int = h.int
  PROVE  Line(g) = Line(h)
BY DEF Line

\* With no byte of the keyboard waiting, no request for it is left.
LEMMA EdgeCalled ==
  ASSUME Inv, Kinds, Masks, TwoIsKbds(hw), Edge, KeyOrder, "stray" \notin odd', scancode_set = "02",
         NEW d, NEW irq, NEW from, Called(d, irq, from)
  PROVE  33 \notin lapic'.irr
<1>0. Callback(d, Vector(irq), from)
  BY DEF Called
<1>1. PICK h, byte :
           /\ h \in Hardware
           /\ h = hw \/ (~hw.obf.full /\ h \in Fillings(hw))
           /\ h.int = hw.int
           /\ \A e \in {"kbd", "mse"} : Stream(h, e) = Stream(hw, e)
           /\ byte = IF h.obf.full THEN h.obf.byte ELSE Timeout
           /\ Served(Vector(irq), from, Line(h) \ Line(hw), Line(hw))
           /\ "stray" \notin odd' => "stray" \notin odd /\ ~Strays(d, h, byte)
  BY <1>0, CallbackRead
<1>2. "stray" \notin odd /\ ~Strays(d, h, byte)
  BY <1>1
<1>3. 33 \in lapic'.irr => \/ 33 \in lapic.irr /\ ~(from = "APIC" /\ Vector(irq) = 33)
                           \/ 1 \in ioapic.open /\ 1 \in Line(h) \ Line(hw)
  BY <1>1, ServedWired
<1>4. CASE interrupt_controller # "APIC"
  <2>1. ioapic.open = {} /\ 33 \notin lapic.irr
    <3>1. ioapic.open = {} /\ lapic.irr \subseteq {TimerVector}
      BY <1>4 DEF Inv, IoapicSilent
    <3>2. TimerVector # 33
      BY DEF TimerVector
    <3> QED BY <3>1, <3>2
  <2> QED BY <1>3, <2>1
<1>5. CASE interrupt_controller = "APIC" /\ d = "kbd"
  <2>1. irq = 1 /\ Vector(irq) = 33 /\ from = "APIC" /\ 33 \in lapic.irr
    BY <1>5, CalledFacts
  <2>2. 1 \in Line(hw)
    BY <2>1, <1>2 DEF Edge
  <2>3. h = hw
    BY <2>2, <1>1, LineFacts DEF Holds
  <2> QED BY <1>3, <2>1, <2>3
<1>6. CASE d # "kbd"
  <2>0. d = "mse"
    BY <1>6, CalledFacts
  <2>1. 1 \notin Line(h)
    <3>1. SUFFICES ASSUME Holds(h, "kbd") PROVE FALSE
      BY LineFacts
    <3>2. byte = h.obf.byte /\ h.obf.from = "kbd"
      BY <1>1, <3>1 DEF Holds
    <3>3. byte # Timeout
      <4>1. h \in Hardware
        BY <1>1
      <4>2. h.obf.byte \in Byte
        BY <4>1 DEF Hardware
      <4> QED BY <3>2, <4>2, TimeoutNoByte
    <3> QED BY <2>0, <1>2, <3>2, <3>3 DEF Strays
  <2>2. 1 \notin Line(hw)
    BY <1>1, <2>1, LineFacts DEF Holds
  <2>3. 33 \notin lapic.irr
    BY <2>2, <1>2 DEF Edge
  <2> QED BY <1>3, <2>1, <2>3
<1> QED BY <1>4, <1>5, <1>6

LEMMA EdgeStep ==
  ASSUME Inv, Kinds, Masks, Reading, TwoIsKbds(hw), Edge, SetAnswer, KeyOrder, Onward,
         [Next]_<<vars, machine>>
  PROVE  Edge'
<1> SUFFICES ASSUME "stray" \notin odd', scancode_set' = "02", 33 \in lapic'.irr
             PROVE  1 \in Line(hw')
  BY DEF Edge
<1>0. "stray" \notin odd
  BY OddKept
<1>1. CASE scancode_set # "02"
  <2>1. pc = "set" /\ Read("set")
    BY <1>1, SetLearnt
  <2>2. Wired(hw, hw')
    BY <2>1, ReadFacts DEF Questions
  <2>3. 33 \notin lapic.irr /\ 1 \notin ioapic.open
    BY <2>1 DEF Masks, KeysOn, Late
  <2> QED BY <2>2, <2>3 DEF Wired
<1>2. CASE scancode_set = "02"
  <2>0. pc \in Late
    BY <1>2 DEF SetAnswer
  <2>1. CASE Aside
    <3>1. hw' = hw
      BY <2>1, AsideCalm DEF Calm
    <3>2. 33 \in lapic.irr
      <4>1. CASE IdtInit \/ PicInit \/ UsePic \/ PitInit \/ SleepStart \/ StartTimer \/ PicDisable
                   \/ Registers \/ UseApic
        BY <4>1, <2>0 DEF IdtInit, PicInit, PicStep, UsePic, UseController, PitInit, SleepStart,
                          StartTimer, PicDisable, Registers, RegisterLine, UseApic, At, Late
      <4>2. CASE LoopFaults \/ HandlerFaults \/ UNCHANGED <<vars, machine>> \/ \E l \in Questions : Wait(l)
        BY <4>2 DEF LoopFaults, HandlerFaults, vars, Wait, intVars
      <4>3. CASE Ticks
        <5>1. lapic' = lapic \/ lapic' = [lapic EXCEPT !.irr = lapic.irr \cup {32}]
          BY <4>3 DEF Ticks, PitTick, LapicTick, TimerVector
        <5>2. lapic'.irr = lapic.irr \/ lapic'.irr = lapic.irr \cup {32}
          BY <5>1, Changed
        <5> QED BY <5>2
      <4>4. CASE Unmask("unmask 1", 1, "kbd cap") \/ Unmask("unmask 12", 12, "mse cap")
        BY <4>4 DEF Unmask
      <4>5. ASSUME NEW from, Timer(from) PROVE 33 \in lapic.irr
        BY <4>5, TimerWired DEF Timer
      <4> QED BY <2>1, <4>1, <4>2, <4>3, <4>4, <4>5 DEF Aside
    <3> QED BY <3>1, <3>2, <1>0, <1>2 DEF Edge
  <2>2. CASE UNCHANGED lapic /\ Line(hw') = Line(hw)
    BY <2>2, <1>0, <1>2 DEF Edge
  <2>3. CASE Wired(hw, hw') /\ (Drain \/ Fill \/ \E l \in Questions : Send(l) \/ Read(l))
    <3>1. CASE 33 \notin lapic.irr
      BY <2>3, <3>1 DEF Wired
    <3>2. CASE 33 \in lapic.irr
      <4>0. 1 \in Line(hw) /\ Holds(hw, "kbd") /\ hw \in Hardware
        BY <3>2, <1>0, <1>2, LineFacts DEF Edge, Kinds
      <4>1. ~Drain
        BY <2>0 DEF Drain, At, Late
      <4>2. ~Fill
        BY <4>0, FillFacts DEF Fill, Holds
      <4>3. ASSUME NEW l \in Questions, Send(l) PROVE 1 \in Line(hw')
        <5>1. l = "mouse" /\ hw' = Sent(l)
          BY <4>3, <2>0 DEF Send, At, Late, Questions, Becomes, BecomesNoting
        <5>2. hw'.int = hw.int /\ hw'.obf = hw.obf
          BY <5>1, <4>0, SentFacts DEF Plain, Replied, Kinds
        <5> QED BY <5>2, <4>0, LineSame
      <4>4. ASSUME NEW l \in Questions, Read(l) PROVE FALSE
        <5>1. hw.obf.byte \notin Input
          BY <4>4, ReadFacts
        <5> QED BY <5>1, <4>0, <1>0, <1>2, KeyHead
      <4> QED BY <2>3, <4>1, <4>2, <4>3, <4>4
    <3> QED BY <3>1, <3>2
  <2>4. ASSUME NEW d, NEW irq, NEW from, Called(d, irq, from) PROVE FALSE
    BY <2>4, <1>2, EdgeCalled
  <2> QED BY <2>1, <2>2, <2>3, <2>4, WiredStep
<1> QED BY <1>1, <1>2


-----------------------------------------------------------------------------
(* The keyboard.                                                            *)

\* Runs of a sequence.
LEMMA Runs ==
  ASSUME NEW B, NEW s \in Seq(B), NEW f \in 1 .. Len(s) + 1, NEW c \in 1 .. Len(s) + 1, f <= c
  PROVE  /\ c <= Len(s) => SubSeq(s, f, c) = Append(SubSeq(s, f, c - 1), s[c])
         /\ \A e \in B : SubSeq(Append(s, e), f, c - 1) = SubSeq(s, f, c - 1)
         /\ SubSeq(s, c, c - 1) = <<>>
<1>1. ASSUME c <= Len(s) PROVE SubSeq(s, f, c) = Append(SubSeq(s, f, c - 1), s[c])
  <2> DEFINE a == SubSeq(s, f, c)
             b == Append(SubSeq(s, f, c - 1), s[c])
  <2>1. Len(s) \in Nat /\ f \in Int /\ c \in Int
    OBVIOUS
  <2>2. a \in Seq(B) /\ Len(a) = c - f + 1 /\ \A i \in 1 .. c - f + 1 : a[i] = s[f + i - 1]
    BY <1>1, <2>1
  <2>3. /\ SubSeq(s, f, c - 1) \in Seq(B) /\ Len(SubSeq(s, f, c - 1)) = c - f
        /\ \A i \in 1 .. c - f : SubSeq(s, f, c - 1)[i] = s[f + i - 1]
    BY <1>1, <2>1
  <2>4. s[c] \in B
    BY <1>1, <2>1
  <2>5. b \in Seq(B) /\ Len(b) = c - f + 1 /\ b[c - f + 1] = s[c]
        /\ \A i \in 1 .. c - f : b[i] = s[f + i - 1]
    BY <2>1, <2>3, <2>4
  <2> HIDE DEF a, b
  <2>6. \A i \in 1 .. c - f + 1 : a[i] = b[i]
    <3>1. \A i \in 1 .. c - f + 1 : i \in 1 .. c - f \/ i = c - f + 1
      BY <2>1
    <3>2. f + (c - f + 1) - 1 = c /\ c - f + 1 \in 1 .. c - f + 1
      BY <2>1
    <3> QED BY <2>2, <2>5, <3>1, <3>2
  <2>7. a = b
    BY <2>2, <2>5, <2>6
  <2> QED BY <2>7 DEF a, b
<1>2. ASSUME NEW e \in B PROVE SubSeq(Append(s, e), f, c - 1) = SubSeq(s, f, c - 1)
  <2>1. /\ Len(s) \in Nat /\ f \in Int /\ c \in Int /\ Append(s, e) \in Seq(B)
        /\ Len(Append(s, e)) = Len(s) + 1 /\ \A i \in 1 .. Len(s) : Append(s, e)[i] = s[i]
    OBVIOUS
  <2> DEFINE t == Append(s, e)
             a == SubSeq(t, f, c - 1)
             b == SubSeq(s, f, c - 1)
  <2> HIDE DEF t
  <2>2. a \in Seq(B) /\ Len(a) = c - f /\ \A i \in 1 .. c - f : a[i] = t[f + i - 1]
    BY <2>1 DEF t
  <2>3. b \in Seq(B) /\ Len(b) = c - f /\ \A i \in 1 .. c - f : b[i] = s[f + i - 1]
    BY <2>1
  <2>4. \A i \in 1 .. c - f : f + i - 1 \in 1 .. Len(s)
    BY <2>1
  <2> HIDE DEF a, b
  <2>5. a = b
    BY <2>1, <2>2, <2>3, <2>4 DEF t
  <2> QED BY <2>5 DEF a, b, t
<1>3. SubSeq(s, c, c - 1) = <<>>
  BY SMT
<1> QED BY <1>1, <1>2, <1>3

LEMMA Joined ==
  ASSUME NEW r \in Seq(Byte), NEW e \in Seq(Byte)
  PROVE  /\ r \o e \in Seq(Byte) /\ Len(r \o e) = Len(r) + Len(e)
         /\ \A j \in 1 .. Len(r) + Len(e) : (r \o e)[j] = IF j <= Len(r) THEN r[j] ELSE e[j - Len(r)]
OBVIOUS

LEMMA SameBytes ==
  ASSUME NEW a \in Seq(Byte), NEW b \in Seq(Byte), Len(a) = Len(b),
         \A j \in 1 .. Len(a) : a[j] = b[j]
  PROVE  a = b
OBVIOUS

LEMMA PastTail ==
  ASSUME NEW s \in Seq(Byte), s # <<>>
  PROVE  /\ Past(s, 1) = Tail(s)
         /\ \A i \in 1 .. Len(s) - 1 : Past(Tail(s), i) = Past(s, i + 1)
         /\ Tail(s) \in Seq(Byte) /\ Len(Tail(s)) = Len(s) - 1
         /\ \A i \in 1 .. Len(s) - 1 : Tail(s)[i] = s[i + 1] /\ i + 1 \in 1 .. Len(s)
<1>1. /\ Tail(s) \in Seq(Byte) /\ Len(Tail(s)) = Len(s) - 1
      /\ \A i \in 1 .. Len(s) - 1 : Tail(s)[i] = s[i + 1] /\ i + 1 \in 1 .. Len(s)
      /\ Len(s) \in Nat
  OBVIOUS
<1>2. Past(s, 1) = Tail(s)
  <2> DEFINE a == SubSeq(s, 2, Len(s))
  <2>1. a \in Seq(Byte) /\ Len(a) = Len(s) - 1 /\ \A i \in 1 .. Len(s) - 1 : a[i] = s[i + 1]
    BY <1>1
  <2> HIDE DEF a
  <2>2. a = Tail(s)
    BY <1>1, <2>1
  <2> QED BY <2>2 DEF a, Past
<1>3. ASSUME NEW i \in 1 .. Len(s) - 1
      PROVE  Past(Tail(s), i) = Past(s, i + 1)
  <2> DEFINE t == Tail(s)
             n == Len(s) - 1
             a == SubSeq(t, i + 1, n)
             b == SubSeq(s, (i + 1) + 1, Len(s))
  <2>0. n \in Nat /\ i \in Int /\ i >= 1 /\ i <= n /\ Len(s) = n + 1
    BY <1>1
  <2>1. t \in Seq(Byte) /\ Len(t) = n /\ \A j \in 1 .. n : t[j] = s[j + 1]
    BY <1>1
  <2> HIDE DEF t, n
  <2>2. a \in Seq(Byte) /\ Len(a) = n - i /\ \A j \in 1 .. n - i : a[j] = t[i + j]
    BY <2>0, <2>1
  <2>3. b \in Seq(Byte) /\ Len(b) = n - i /\ \A j \in 1 .. n - i : b[j] = s[(i + j) + 1]
    BY <2>0
  <2> HIDE DEF a, b
  <2>4. \A j \in 1 .. n - i : i + j \in 1 .. n
    BY <2>0
  <2>5. a = b
    <3>1. \A j \in 1 .. n - i : a[j] = b[j]
      BY <2>1, <2>2, <2>3, <2>4
    <3>2. Len(a) = Len(b) /\ \A j \in 1 .. Len(a) : a[j] = b[j]
      BY <2>2, <2>3, <3>1
    <3> QED BY <2>2, <2>3, <3>2, SameBytes
  <2>6. Past(t, i) = a
    <3>1. Past(t, i) = SubSeq(t, i + 1, Len(t))
      BY DEF Past
    <3> QED BY <3>1, <2>1 DEF a
  <2>7. Past(s, i + 1) = b
    BY DEF Past, b
  <2> QED BY <2>5, <2>6, <2>7 DEF t
<1> QED BY <1>1, <1>2, <1>3

LEMMA TwoTail ==
  ASSUME NEW s \in Seq(Byte), s # <<>>, NEW all
  PROVE  /\ NoTwo(s) => NoTwo(Tail(s))
         /\ TwoThenKeys(s, all) => TwoThenKeys(Tail(s), all)
<1>0. /\ \A i \in 1 .. Len(s) - 1 : Past(Tail(s), i) = Past(s, i + 1)
      /\ Len(Tail(s)) = Len(s) - 1
      /\ \A i \in 1 .. Len(s) - 1 : Tail(s)[i] = s[i + 1] /\ i + 1 \in 1 .. Len(s)
  <2>1. s \in Seq(Byte) /\ s # <<>>
    OBVIOUS
  <2> QED BY <2>1, PastTail
<1>1. NoTwo(s) => NoTwo(Tail(s))
  BY <1>0 DEF NoTwo
<1>2. ASSUME TwoThenKeys(s, all), NEW i \in 1 .. Len(Tail(s)), Tail(s)[i] = "02"
      PROVE  \E c : Ahead(Past(Tail(s), i), all, c, 0)
  <2>1. i \in 1 .. Len(s) - 1
    BY <1>0
  <2>2. s[i + 1] = "02" /\ i + 1 \in 1 .. Len(s)
    BY <2>1, <1>2, <1>0
  <2>3. \E c : Ahead(Past(s, i + 1), all, c, 0)
    BY <2>2, <1>2 DEF TwoThenKeys
  <2>4. Past(Tail(s), i) = Past(s, i + 1)
    BY <2>1, <1>0
  <2> QED BY <2>3, <2>4
<1> QED BY <1>1, <1>2 DEF TwoThenKeys

LEMMA NoTwoJoin ==
  ASSUME NEW s \in Seq(Byte), NEW t \in Seq(Byte), NoTwo(s), NoTwo(t)
  PROVE  NoTwo(s \o t)
BY DEF NoTwo

LEMMA TwoMore ==
  ASSUME NEW s \in Seq(Byte), NEW all \in Parts(Byte), TwoThenKeys(s, all), NEW e \in Strokes
  PROVE  TwoThenKeys(s \o e, Append(all, e))
<1>0. /\ e \in Seq(Byte) \ {<<>>} /\ \A i \in 1 .. Len(e) : e[i] # "02"
      /\ Len(s) \in Nat /\ Len(e) \in Nat
  BY StrokeFacts
<1> DEFINE t == s \o e
<1>1. /\ t \in Seq(Byte) /\ Len(t) = Len(s) + Len(e)
      /\ \A i \in 1 .. Len(s) : t[i] = s[i]
      /\ \A i \in 1 .. Len(e) : t[Len(s) + i] = e[i]
  BY <1>0
<1> HIDE DEF t
<1>2. ASSUME NEW i \in 1 .. Len(t), t[i] = "02"
      PROVE  \E c : Ahead(Past(t, i), Append(all, e), c, 0)
  <2>1. i \in 1 .. Len(s)
    <3>1. SUFFICES ASSUME ~(i \in 1 .. Len(s)) PROVE FALSE
      OBVIOUS
    <3>2. i - Len(s) \in 1 .. Len(e) /\ Len(s) + (i - Len(s)) = i
      BY <3>1, <1>0, <1>1
    <3>3. t[i] = e[i - Len(s)]
      BY <3>2, <1>1
    <3> QED BY <3>2, <3>3, <1>0, <1>2
  <2>2. s[i] = "02"
    BY <2>1, <1>1, <1>2
  <2> DEFINE r == SubSeq(s, i + 1, Len(s))
  <2>3. PICK c : Ahead(r, all, c, 0)
    BY <2>1, <2>2 DEF TwoThenKeys, Past
  <2>4. r \in Seq(Byte) /\ Len(r) = Len(s) - i /\ \A j \in 1 .. Len(s) - i : r[j] = s[i + j]
    BY <2>1
  <2>5. SubSeq(t, i + 1, Len(t)) = r \o e
    <3> DEFINE a == SubSeq(t, i + 1, Len(t))
               b == r \o e
    <3> HIDE DEF r
    <3>0. i \in Int /\ i >= 1 /\ i <= Len(s)
      BY <2>1
    <3>1. a \in Seq(Byte) /\ Len(a) = Len(t) - i /\ \A j \in 1 .. Len(t) - i : a[j] = t[i + j]
      BY <3>0, <1>0, <1>1
    <3>2. /\ b \in Seq(Byte) /\ Len(b) = Len(t) - i
          /\ \A j \in 1 .. Len(t) - i : b[j] = IF j <= Len(s) - i THEN r[j] ELSE e[j - (Len(s) - i)]
      <4>1. r \in Seq(Byte) /\ e \in Seq(Byte) /\ Len(r) = Len(s) - i
        BY <2>4, <1>0
      <4>2. /\ b \in Seq(Byte) /\ Len(b) = Len(r) + Len(e)
            /\ \A j \in 1 .. Len(r) + Len(e) : b[j] = IF j <= Len(r) THEN r[j] ELSE e[j - Len(r)]
        BY <4>1, Joined
      <4>3. Len(t) - i = Len(r) + Len(e)
        BY <4>1, <3>0, <1>0, <1>1
      <4> HIDE DEF b
      <4> QED BY <4>1, <4>2, <4>3
    <3> HIDE DEF a, b
    <3>3. ASSUME NEW j \in 1 .. Len(t) - i PROVE a[j] = b[j]
      <4>1. CASE j <= Len(s) - i
        <5>1. j \in 1 .. Len(s) - i /\ i + j \in 1 .. Len(s)
          BY <4>1, <3>0, <1>0
        <5>2. a[j] = t[i + j] /\ t[i + j] = s[i + j] /\ b[j] = r[j] /\ r[j] = s[i + j]
          BY <5>1, <4>1, <3>1, <3>2, <2>4, <1>1
        <5> QED BY <5>2
      <4>2. CASE ~(j <= Len(s) - i)
        <5>1. j - (Len(s) - i) \in 1 .. Len(e) /\ Len(s) + (j - (Len(s) - i)) = i + j
          BY <4>2, <3>0, <1>0, <1>1
        <5>2. t[i + j] = e[j - (Len(s) - i)]
          BY <5>1, <1>1
        <5>3. a[j] = t[i + j] /\ b[j] = e[j - (Len(s) - i)]
          BY <4>2, <3>1, <3>2
        <5> QED BY <5>2, <5>3
      <4> QED BY <4>1, <4>2
    <3>4. a = b
      <4>1. Len(a) = Len(b) /\ \A j \in 1 .. Len(a) : a[j] = b[j]
        BY <3>1, <3>2, <3>3
      <4> QED BY <4>1, <3>1, <3>2, SameBytes
    <3> QED BY <3>4 DEF a, b
  <2> HIDE DEF r
  <2>6. Ahead(r \o e, Append(all, e), c, 0)
    BY <2>3, <2>4, <1>0, AheadMore
  <2> QED BY <2>5, <2>6 DEF Past
<1> QED BY <1>2 DEF TwoThenKeys, t

LEMMA TwoReply ==
  ASSUME NEW s \in Seq(Byte), NoTwo(s), NEW all \in Parts(Byte)
  PROVE  TwoThenKeys(s \o <<ACK, "02">>, all)
<1> DEFINE t == s \o <<ACK, "02">>
<1>1. /\ Len(s) \in Nat /\ Len(t) = Len(s) + 2
      /\ \A i \in 1 .. Len(s) : t[i] = s[i]
      /\ t[Len(s) + 1] = ACK
  OBVIOUS
<1>2. ACK \in Byte /\ "02" \in Byte
  BY DEF Byte, Answers
<1>3. t \in Seq(Byte)
  BY <1>2
<1> HIDE DEF t
<1>4. ASSUME NEW i \in 1 .. Len(t), t[i] = "02" PROVE i = Len(t)
  <2>1. i \notin 1 .. Len(s)
    BY <1>1, <1>4 DEF NoTwo
  <2>2. i # Len(s) + 1
    BY <1>1, <1>4, TimeoutNoByte
  <2> QED BY <2>1, <2>2, <1>1
<1>5. Past(t, Len(t)) = <<>>
  BY <1>3 DEF Past
<1>6. Ahead(<<>>, all, Len(all) + 1, 0)
  BY AheadNone
<1> QED BY <1>4, <1>5, <1>6 DEF TwoThenKeys, t


LEMMA TakenFacts ==
  ASSUME NEW h \in Hardware, NEW d \in {"kbd", "mse"}
  PROVE  IF Holds(h, d)
         THEN /\ Stream(h, d) # <<>> /\ Stream(h, d)[1] = h.obf.byte
              /\ Stream(Emptied(h), d) = Tail(Stream(h, d))
         ELSE Stream(Emptied(h), d) = Stream(h, d)
<1>1. Stream(Emptied(h), d) = h[d]
  BY EmptiedFacts
<1> QED BY <1>1, StreamFacts

\* A byte of the keyboard is taken, or none.
LEMMA StillNoTwo ==
  ASSUME Kinds, NEW h \in Hardware, Stream(h, "kbd") = Stream(hw, "kbd")
  PROVE  LET s == Stream(Emptied(h), "kbd")
         IN  /\ NoTwo(Stream(hw, "kbd")) => NoTwo(s)
             /\ TwoThenKeys(Stream(hw, "kbd"), typed) => TwoThenKeys(s, typed)
<1> DEFINE s == Stream(Emptied(h), "kbd")
           t == Stream(hw, "kbd")
<1>1. t \in Seq(Byte)
  BY StreamFacts DEF Kinds
<1>2. s = t \/ (t # <<>> /\ s = Tail(t))
  BY TakenFacts
<1> HIDE DEF s, t
<1>3. t # <<>> => /\ NoTwo(t) => NoTwo(Tail(t))
                  /\ TwoThenKeys(t, typed) => TwoThenKeys(Tail(t), typed)
  BY <1>1, TwoTail
<1>4. (NoTwo(t) => NoTwo(s)) /\ (TwoThenKeys(t, typed) => TwoThenKeys(s, typed))
  BY <1>2, <1>3
<1> QED BY <1>4 DEF s, t

\* The answers and keys ahead stay in order until the set is known.
StillSet ==
  /\ ~Told /\ NoTwo(Stream(hw, "kbd")) =>
       NoTwo(Stream(hw', "kbd")) \/ (Told' /\ TwoThenKeys(Stream(hw', "kbd"), typed'))
  /\ Told /\ TwoThenKeys(Stream(hw, "kbd"), typed) => TwoThenKeys(Stream(hw', "kbd"), typed')

LEMMA StillSetStep ==
  ASSUME Kinds, Reading, TwoIsKbds(hw), pc \notin Late, [Next]_<<vars, machine>>
  PROVE  StillSet
<1>0. hw \in Hardware /\ machine \in Machine /\ Stream(hw, "kbd") \in Seq(Byte) /\ typed \in Parts(Byte)
  BY StreamFacts, TypedFacts DEF Kinds
<1>1. CASE Stream(hw', "kbd") = Stream(hw, "kbd") /\ typed' = typed
  BY <1>1 DEF StillSet
<1>2. CASE Aside \/ Buffers \/ \E l \in Questions : GiveUp(l)
  <2>1. hw' = hw /\ typed' = typed
    BY <1>2, AsideCalm DEF Calm, Buffers, Buffer, Go, GiveUp, Answered, Rest
  <2> QED BY <1>1, <2>1
<1>3. CASE Drain
  <2> DEFINE h == Clocks(hw, FALSE, FALSE)
  <2>1. (hw' = Emptied(h) \/ hw' = h) /\ typed' = typed
    BY <1>3 DEF Drain, BecomesRead, Becomes, BecomesNoting, Rest
  <2>2. h \in Hardware /\ Stream(h, "kbd") = Stream(hw, "kbd")
    BY <1>0, PlainWrites, PlainStream
  <2> HIDE DEF h
  <2>3. CASE hw' = h
    BY <2>1, <2>2, <2>3, <1>1
  <2>4. CASE hw' = Emptied(h)
    BY <2>1, <2>2, <2>4, StillNoTwo DEF StillSet
  <2> QED BY <2>1, <2>3, <2>4
<1>4. CASE \E l \in Questions : Read(l)
  <2>1. hw' = Emptied(hw) /\ typed' = typed
    BY <1>4 DEF Read, BecomesRead, BecomesNoting, Answered, Rest
  <2> QED BY <1>0, <2>1, StillNoTwo DEF StillSet
<1>5. CASE Fill
  <2>1. hw' \in Fillings(hw) /\ typed' = typed
    BY <1>5 DEF Fill, Becomes, BecomesNoting, Rest
  <2>2. Stream(hw', "kbd") = Stream(hw, "kbd")
    BY <1>0, <2>1, FillFacts
  <2> QED BY <1>1, <2>1, <2>2
<1>6. CASE Type
  <2>1. PICK s \in Strokes : Longer(hw, hw', "kbd", s) /\ typed' = Append(typed, s)
    BY <1>6, TypeFacts
  <2>2. s \in Seq(Byte) /\ NoTwo(s)
    BY StrokeFacts DEF NoTwo
  <2>3. Stream(hw', "kbd") = Stream(hw, "kbd") \o s
    BY <2>1, <2>2, <1>0, SentMore
  <2>4. NoTwo(Stream(hw, "kbd")) => NoTwo(Stream(hw', "kbd"))
    BY <2>2, <2>3, <1>0, NoTwoJoin
  <2>5. TwoThenKeys(Stream(hw, "kbd"), typed) => TwoThenKeys(Stream(hw', "kbd"), typed')
    BY <2>1, <2>3, <1>0, TwoMore
  <2> QED BY <2>4, <2>5 DEF StillSet
<1>7. CASE Move
  <2>1. /\ Longer(hw, hw', "mse", Packets[moves + 1]) /\ moves + 1 \in 1 .. Len(Packets)
        /\ typed' = typed
    BY <1>7, MoveFacts
  <2>2. Packets[moves + 1] \in Seq(Byte)
    BY <2>1, PacketFacts
  <2>3. Stream(hw', "kbd") = Stream(hw, "kbd")
    BY <2>1, <2>2, <1>0, SentMore
  <2> QED BY <1>1, <2>1, <2>3
<1>8. ASSUME NEW d, NEW irq, NEW from, Called(d, irq, from) PROVE StillSet
  <2>1. PICK h \in Hardware : Stream(h, "kbd") = Stream(hw, "kbd") /\ hw' = Emptied(h)
    BY <1>8, CallbackRead DEF Called
  <2>2. typed' = typed
    BY <1>8 DEF Called, Interrupt, Rest
  <2> QED BY <2>1, <2>2, StillNoTwo DEF StillSet
<1>9. ASSUME NEW l \in Questions, Send(l) PROVE StillSet
  <2>1. hw' = Sent(l) /\ typed' = typed /\ pc = l /\ stage = "send" /\ pc' = l /\ stage' = "wait"
    BY <1>9 DEF Send, At, Becomes, BecomesNoting, Rest
  <2>2. l # "mouse" /\ (l # "set" => ~Told)
    BY <2>1 DEF Late, Told
  <2>3. CASE l \notin {"reset", "F0", "00"}
    <3>1. Plain(hw, Sent(l))
      BY <1>0, <2>2, <2>3, SentFacts
    <3>2. Stream(hw', "kbd") = Stream(hw, "kbd")
      BY <2>1, <3>1, PlainStream
    <3> QED BY <1>1, <2>1, <3>2
  <2>4. ASSUME NEW s \in Seq(Byte), Replied(hw, hw', "kbd", s)
        PROVE  \/ Stream(hw', "kbd") = Stream(hw, "kbd") \o s
               \/ \E r \in Seq(Byte) : /\ Stream(hw', "kbd") = r \o s
                                       /\ NoTwo(Stream(hw, "kbd")) => NoTwo(r)
    <3>1. CASE Holds(hw, "kbd") /\ Stream(hw', "kbd") = <<hw.obf.byte>> \o s
      <4>1. hw.obf.byte \in Byte /\ Stream(hw, "kbd")[1] = hw.obf.byte /\ Stream(hw, "kbd") # <<>>
        BY <1>0, <3>1, StreamFacts DEF Hardware
      <4>2. 1 \in 1 .. Len(Stream(hw, "kbd"))
        BY <4>1, <1>0
      <4>3. NoTwo(Stream(hw, "kbd")) => NoTwo(<<hw.obf.byte>>)
        BY <4>1, <4>2 DEF NoTwo
      <4>4. <<hw.obf.byte>> \in Seq(Byte)
        BY <4>1
      <4> QED BY <3>1, <4>3, <4>4
    <3>2. CASE Stream(hw', "kbd") = s
      <4>1. <<>> \o s = s /\ <<>> \in Seq(Byte) /\ NoTwo(<<>>)
        BY SeqTwo DEF NoTwo
      <4> QED BY <3>2, <4>1
    <3>3. \/ Stream(hw', "kbd") = Stream(hw, "kbd") \o s
          \/ Holds(hw, "kbd") /\ Stream(hw', "kbd") = <<hw.obf.byte>> \o s
          \/ ~Holds(hw, "kbd") /\ Stream(hw', "kbd") = s
      <4>1. hw \in Hardware /\ s \in Seq(Byte) /\ Replied(hw, hw', "kbd", s)
        BY <1>0, <2>4
      <4> QED BY <4>1, RepliedStream DEF AnswerAhead
    <3> QED BY <3>1, <3>2, <3>3
  <2>5. CASE l \in {"reset", "F0"}
    <3>1. PICK s \in {<<ACK, "AA">>, <<ACK>>} : Replied(hw, hw', "kbd", s)
      BY <1>0, <2>1, <2>5, SentFacts
    <3>2. s \in Seq(Byte) /\ NoTwo(s)
      <4>1. ACK \in Byte /\ "AA" \in Byte /\ ACK # "02" /\ "AA" # "02"
        BY DEF Byte, Answers, ACK
      <4>2. <<ACK, "AA">> \in Seq(Byte) /\ NoTwo(<<ACK, "AA">>)
        BY <4>1 DEF NoTwo
      <4>3. <<ACK>> \in Seq(Byte) /\ NoTwo(<<ACK>>)
        BY <4>1 DEF NoTwo
      <4> QED BY <3>1, <4>2, <4>3
    <3>3. NoTwo(Stream(hw, "kbd")) => NoTwo(Stream(hw', "kbd"))
      BY <1>0, <2>4, <3>1, <3>2, NoTwoJoin
    <3> QED BY <2>2, <2>5, <3>3 DEF StillSet
  <2>6. CASE l = "00"
    <3>1. Replied(hw, hw', "kbd", <<ACK, "02">>)
      BY <1>0, <2>1, <2>6, SentFacts
    <3>2. <<ACK, "02">> \in Seq(Byte)
      BY DEF Byte, Answers
    <3>3. NoTwo(Stream(hw, "kbd")) => TwoThenKeys(Stream(hw', "kbd"), typed)
      BY <1>0, <2>4, <3>1, <3>2, TwoReply
    <3>4. Told' /\ ~Told
      BY <2>1, <2>2, <2>6 DEF Told
    <3> QED BY <2>1, <3>3, <3>4 DEF StillSet
  <2> QED BY <2>3, <2>5, <2>6
<1> QED BY <1>2, <1>3, <1>4, <1>5, <1>6, <1>7, <1>8, <1>9, Shapes

LEMMA SetAnswerStep ==
  ASSUME Kinds, Reading, TwoIsKbds(hw), SetAnswer, Onward, [Next]_<<vars, machine>>
  PROVE  SetAnswer'
<1>1. scancode_set' = "02" => pc' \in Late
  <2>1. CASE scancode_set = "02"
    BY <2>1 DEF SetAnswer, Onward
  <2>2. CASE scancode_set # "02" /\ scancode_set' = "02"
    <3>1. pc = "set" /\ Read("set")
      BY <2>2, SetLearnt
    <3>2. pc' = "unmask 1"
      BY <3>1, AfterOrder DEF Read, Answered, Questions
    <3> QED BY <3>2 DEF Late
  <2> QED BY <2>1, <2>2
<1>2. CASE pc' \in Late
  <2>1. ~Told'
    BY <1>2 DEF Told, Late
  <2> QED BY <1>1, <1>2, <2>1 DEF SetAnswer
<1>3. CASE pc' \notin Late
  <2>1. pc \notin Late /\ (Told => Told')
    BY <1>3 DEF Onward
  <2>2. StillSet
    BY <2>1, StillSetStep
  <2>3. NoTwo(Stream(hw', "kbd")) => TwoThenKeys(Stream(hw', "kbd"), typed')
    BY DEF NoTwo, TwoThenKeys
  <2> QED BY <1>1, <1>3, <2>1, <2>2, <2>3 DEF SetAnswer, StillSet
<1> QED BY <1>2, <1>3


\* The events the keys typed stand for.
Events == {Meant(s) : s \in Strokes}

LEMMA MeaningsFacts ==
  ASSUME Kinds
  PROVE  /\ Meanings \in Seq(Events) /\ Len(Meanings) = Len(typed) /\ Len(typed) \in Nat
         /\ \A i \in 1 .. Len(typed) : Meanings[i] = Meant(typed[i]) /\ typed[i] \in Strokes
<1>1. Len(typed) \in Nat /\ DOMAIN typed = 1 .. Len(typed) /\ \A i \in 1 .. Len(typed) : typed[i] \in Strokes
  BY DEF Kinds
<1>2. \A i \in 1 .. Len(typed) : Meanings[i] = Meant(typed[i])
  BY <1>1, Zenon DEF Meanings
<1>3. \A i \in 1 .. Len(typed) : Meant(typed[i]) \in Events
  BY <1>1 DEF Events
<1>4. Meanings \in [1 .. Len(typed) -> Events]
  BY <1>1, <1>3, Zenon DEF Meanings
<1>5. Meanings \in Seq(Events) /\ Len(Meanings) = Len(typed)
  BY <1>1, <1>4
<1> QED BY <1>1, <1>2, <1>5

LEMMA MeaningsRuns ==
  ASSUME Kinds, NEW f \in 1 .. Len(typed) + 1, NEW c \in 1 .. Len(typed) + 1, f <= c
  PROVE  /\ c <= Len(typed) => SubSeq(Meanings, f, c) = Append(SubSeq(Meanings, f, c - 1), Meant(typed[c]))
         /\ \A e \in Events : SubSeq(Append(Meanings, e), f, c - 1) = SubSeq(Meanings, f, c - 1)
         /\ SubSeq(Meanings, c, c - 1) = <<>>
         /\ SubSeq(Meanings, f, c - 1) \in Seq(Events)
<1>1. Meanings \in Seq(Events) /\ Len(Meanings) = Len(typed) /\ Len(typed) \in Nat
      /\ (c <= Len(typed) => Meanings[c] = Meant(typed[c]))
  BY MeaningsFacts
<1>2. ASSUME NEW m, m \in Seq(Events), Len(m) = Len(typed)
      PROVE  /\ c <= Len(m) => SubSeq(m, f, c) = Append(SubSeq(m, f, c - 1), m[c])
             /\ \A e \in Events : SubSeq(Append(m, e), f, c - 1) = SubSeq(m, f, c - 1)
             /\ SubSeq(m, c, c - 1) = <<>>
             /\ SubSeq(m, f, c - 1) \in Seq(Events)
  <2>1. f \in 1 .. Len(m) + 1 /\ c \in 1 .. Len(m) + 1 /\ f <= c
    BY <1>2
  <2>2. /\ c <= Len(m) => SubSeq(m, f, c) = Append(SubSeq(m, f, c - 1), m[c])
        /\ \A e \in Events : SubSeq(Append(m, e), f, c - 1) = SubSeq(m, f, c - 1)
        /\ SubSeq(m, c, c - 1) = <<>>
    BY <1>2, <2>1, Runs
  <2>3. SubSeq(m, f, c - 1) \in Seq(Events)
    BY <1>2, <2>1, <1>1
  <2> QED BY <2>2, <2>3
<1> HIDE DEF Meanings
<1>3. /\ c <= Len(Meanings) => SubSeq(Meanings, f, c) = Append(SubSeq(Meanings, f, c - 1), Meanings[c])
      /\ \A e \in Events : SubSeq(Append(Meanings, e), f, c - 1) = SubSeq(Meanings, f, c - 1)
      /\ SubSeq(Meanings, c, c - 1) = <<>>
      /\ SubSeq(Meanings, f, c - 1) \in Seq(Events)
  BY <1>1, <1>2
<1> QED BY <1>1, <1>3

\* The set once known stays.
LEMMA SetStays ==
  ASSUME [Next]_<<vars, machine>>, SetAnswer, scancode_set = "02"
  PROVE  scancode_set' = "02"
<1>0. pc \in Late
  BY DEF SetAnswer
<1>1. CASE \E l \in Questions : Read(l) \/ GiveUp(l)
  <2>1. PICK l, byte : pc = l /\ l \in Questions /\ scancode_set' =
               IF l = "set" THEN byte ELSE IF l \in {"F0", "00"} /\ byte # ACK THEN Timeout ELSE scancode_set
    BY <1>1 DEF Read, GiveUp, Answered, At
  <2> QED BY <1>0, <2>1 DEF Late
<1>2. CASE Aside \/ Buffers \/ Drain \/ Fill \/ Type \/ Move \/ \E l \in Questions : Send(l)
  BY <1>2, AsideCalm DEF Calm, Buffers, Buffer, Drain, Fill, Type, Move, Send, drvVars
<1>3. ASSUME NEW d, NEW irq, NEW from, Called(d, irq, from) PROVE scancode_set' = scancode_set
  BY <1>3 DEF Called, Callback, KeyboardCallback, MouseCallback
<1> QED BY <1>1, <1>2, <1>3, Shapes

\* What the keyboard has sent, what is typed and what the decoder made of it are as they were.
KeysSame ==
  /\ Stream(hw', "kbd") = Stream(hw, "kbd")
  /\ UNCHANGED <<typed, decoder, kbd_events>>

\* c, o and f say how far the decoder and the events are.
Keyed(s, c, o, f) ==
  /\ Ahead(s, typed, c, o) /\ Decoded(c, o)
  /\ f \in 1 .. c /\ kbd_events = SubSeq(Meanings, f, c - 1)

LEMMA KeyedSame ==
  ASSUME KeysSame, NEW c, NEW o, NEW f, Keyed(Stream(hw, "kbd"), c, o, f)
  PROVE  Keyed(Stream(hw, "kbd"), c, o, f)'
<1>1. Stream(hw, "kbd")' = Stream(hw, "kbd") /\ UNCHANGED <<typed, decoder, kbd_events>>
  BY DEF KeysSame
<1>2. Meanings' = Meanings
  BY <1>1 DEF Meanings
<1>3. Decoded(c, o)' = Decoded(c, o)
  BY <1>1 DEF Decoded
<1>4. Ahead(Stream(hw, "kbd"), typed, c, o)' = Ahead(Stream(hw, "kbd"), typed, c, o)
  BY <1>1
<1> QED BY <1>1, <1>2, <1>3, <1>4 DEF Keyed

\* A key more.
LEMMA KeyedMore ==
  ASSUME Kinds, Type, NEW c, NEW o, NEW f, Keyed(Stream(hw, "kbd"), c, o, f)
  PROVE  Keyed(Stream(hw, "kbd"), c, o, f)'
<1>0. /\ hw \in Hardware /\ Stream(hw, "kbd") \in Seq(Byte) /\ typed \in Parts(Byte)
      /\ typed \in Seq(Strokes) /\ Len(typed) \in Nat
  BY StreamFacts, TypedFacts DEF Kinds
<1>1. PICK s \in Strokes : Longer(hw, hw', "kbd", s) /\ typed' = Append(typed, s)
  BY TypeFacts
<1>2. UNCHANGED <<decoder, kbd_events>>
  BY DEF Type, drvVars
<1>3. s \in Seq(Byte) \ {<<>>} /\ s \in Seq(Byte)
  BY StrokeFacts
<1>4. Stream(hw', "kbd") = Stream(hw, "kbd") \o s
  BY <1>0, <1>1, <1>3, SentMore
<1>5. Ahead(Stream(hw', "kbd"), typed', c, o)
  <2>1. Ahead(Stream(hw, "kbd"), typed, c, o)
    BY DEF Keyed
  <2>2. Ahead(Stream(hw, "kbd") \o s, Append(typed, s), c, o)
    BY <1>0, <1>3, <2>1, AheadMore
  <2> QED BY <1>1, <1>4, <2>2
<1>6. /\ c \in 1 .. Len(typed) + 1 /\ o \in Nat /\ (c > Len(typed) => o = 0)
      /\ f \in 1 .. Len(typed) + 1 /\ f <= c
  BY <1>0 DEF Keyed, Ahead
<1>7. Decoded(c, o)'
  <2>1. CASE c <= Len(typed)
    <3>1. typed'[c] = typed[c]
      BY <1>0, <1>1, <1>6, <2>1
    <3> QED BY <1>2, <3>1 DEF Decoded, Keyed
  <2>2. CASE ~(c <= Len(typed))
    <3>1. o = 0
      BY <1>0, <1>6, <2>2
    <3>2. ~decoder.released /\ ~decoder.extended
      BY <3>1 DEF Decoded, Keyed
    <3> QED BY <1>2, <3>1, <3>2 DEF Decoded
  <2> QED BY <2>1, <2>2
<1>8. Meanings' = Append(Meanings, Meant(s))
  <2>1. Meanings \in Seq(Events) /\ Len(Meanings) = Len(typed)
        /\ \A i \in 1 .. Len(typed) : Meanings[i] = Meant(typed[i])
    BY MeaningsFacts
  <2> DEFINE m == Append(Meanings, Meant(s))
             n == Len(typed) + 1
  <2>2. Meant(s) \in Events
    BY DEF Events
  <2>3. m \in Seq(Events) /\ Len(m) = n /\ m[n] = Meant(s)
        /\ \A i \in 1 .. Len(typed) : m[i] = Meanings[i]
    <3> HIDE DEF Meanings
    <3> QED BY <1>0, <2>1, <2>2
  <2>4. DOMAIN typed' = 1 .. n /\ typed'[n] = s /\ \A i \in 1 .. Len(typed) : typed'[i] = typed[i]
    BY <1>0, <1>1
  <2>5. \A i \in 1 .. n : i \in 1 .. Len(typed) \/ i = n
    BY <1>0
  <2> HIDE DEF m, n
  <2>6. \A i \in 1 .. n : m[i] = Meant(typed'[i])
    BY <2>1, <2>3, <2>4, <2>5
  <2>7. m = [i \in 1 .. n |-> Meant(typed'[i])]
    <3>1. m = [i \in 1 .. n |-> m[i]]
      BY <2>3
    <3> QED BY <3>1, <2>6, Zenon
  <2>8. Meanings' = [i \in DOMAIN typed' |-> Meant(typed'[i])]
    BY DEF Meanings, Meant
  <2> QED BY <2>4, <2>7, <2>8 DEF m
<1>9. kbd_events' = SubSeq(Meanings', f, c - 1)
  <2>1. Meant(s) \in Events
    BY DEF Events
  <2>2. SubSeq(Append(Meanings, Meant(s)), f, c - 1) = SubSeq(Meanings, f, c - 1)
    BY <1>6, <2>1, MeaningsRuns
  <2> QED BY <1>2, <1>8, <2>2 DEF Keyed
<1>10. f \in 1 .. c
  BY DEF Keyed
<1> QED BY <1>5, <1>7, <1>9, <1>10 DEF Keyed


\* The keyboard has said that its set is 02: what it sends next are keys.
LEMMA KeyedFirst ==
  ASSUME Kinds, Reading, TwoIsKbds(hw), SetAnswer, KeyOrder, "stray" \notin odd,
         pc = "set", stage = "read", Read("set"), hw.obf.byte = "02", scancode_set # "02"
  PROVE  \E c, o, f : Keyed(Stream(hw, "kbd"), c, o, f)'
<1>0. /\ hw \in Hardware /\ Stream(hw, "kbd") \in Seq(Byte) /\ Len(typed) \in Nat
  BY StreamFacts, MeaningsFacts DEF Kinds
<1>1. Holds(hw, "kbd")
  BY DEF Reading, TwoIsKbds, Holds, Questions
<1>2. /\ Stream(hw, "kbd") # <<>> /\ Stream(hw, "kbd")[1] = "02"
      /\ Stream(hw', "kbd") = Tail(Stream(hw, "kbd"))
  <2>1. hw' = Emptied(hw)
    BY DEF Read, BecomesRead, BecomesNoting
  <2> QED BY <2>1, <1>0, <1>1, TakenFacts
<1>3. PICK c : Ahead(Stream(hw', "kbd"), typed, c, 0)
  <2>1. TwoThenKeys(Stream(hw, "kbd"), typed)
    BY DEF SetAnswer, Told
  <2>2. 1 \in 1 .. Len(Stream(hw, "kbd"))
    BY <1>0, <1>2
  <2>3. Past(Stream(hw, "kbd"), 1) = Tail(Stream(hw, "kbd"))
    <3>1. ASSUME NEW t, t \in Seq(Byte), t # <<>> PROVE Past(t, 1) = Tail(t)
      BY <3>1, PastTail
    <3> QED BY <3>1, <1>0, <1>2
  <2> QED BY <1>2, <2>1, <2>2, <2>3 DEF TwoThenKeys
<1>4. UNCHANGED <<typed, decoder, kbd_events>>
  BY DEF Read, Answered, Rest
<1>5. ~decoder.released /\ ~decoder.extended /\ kbd_events = <<>>
  BY DEF KeyOrder
<1>6. c \in 1 .. Len(typed) + 1
  BY <1>3 DEF Ahead
<1>7. Decoded(c, 0)'
  BY <1>4, <1>5 DEF Decoded
<1>8. SubSeq(Meanings, c, c - 1) = <<>>
  BY <1>6, MeaningsRuns
<1>9. Meanings' = Meanings
  BY <1>4 DEF Meanings
<1>10. c \in 1 .. c
  BY <1>0, <1>6
<1>11. Keyed(Stream(hw, "kbd"), c, 0, c)'
  BY <1>3, <1>4, <1>5, <1>7, <1>8, <1>9, <1>10 DEF Keyed
<1> QED BY <1>11

\* The keyboard's callback takes the next byte of the keys and decodes it.
LEMMA KeyedTaken ==
  ASSUME Kinds, Holds(hw, "kbd"), scancode_set = "02", ring.kbd # "ready" => kbd_events = <<>>,
         hw' = Emptied(hw), typed' = typed, KeyboardCallback(hw.obf.byte),
         NEW c, NEW o, NEW f, Keyed(Stream(hw, "kbd"), c, o, f)
  PROVE  \E c1, o1, f1 : Keyed(Stream(hw, "kbd"), c1, o1, f1)'
<1> DEFINE K == Stream(hw, "kbd")
           s == typed[c]
           byte == hw.obf.byte
<1>0. /\ hw \in Hardware /\ K \in Seq(Byte) /\ K # <<>> /\ K[1] = byte /\ Stream(hw', "kbd") = Tail(K)
      /\ typed \in Parts(Byte) /\ Len(typed) \in Nat
  BY StreamFacts, TypedFacts, TakenFacts, MeaningsFacts DEF Kinds
<1>1. /\ c \in 1 .. Len(typed) /\ o + 1 \in 1 .. Len(s) /\ byte = s[o + 1]
      /\ IF o + 1 < Len(s) THEN Ahead(Tail(K), typed, c, o + 1)
         ELSE o + 1 = Len(s) /\ Ahead(Tail(K), typed, c + 1, 0)
  <2>1. Ahead(K, typed, c, o)
    BY DEF Keyed
  <2> HIDE DEF K
  <2> QED BY <1>0, <2>1, AheadHead
<1>2. s \in Strokes /\ o \in Nat
  BY <1>1, MeaningsFacts DEF Keyed, Ahead
<1>3. /\ s \in Seq(STRING) /\ s # <<>> /\ s[Len(s)] \notin {"E0", "F0", NoKey}
      /\ \A i \in 1 .. Len(s) - 1 : s[i] = "F0" \/ (i = 1 /\ s[i] = "E0")
  BY <1>2, StrokesAssumption
<1>4. /\ decoder.released <=> \E x \in 1 .. o : s[x] = "F0"
      /\ decoder.extended <=> o > 0 /\ s[1] = "E0"
      /\ f \in 1 .. c /\ kbd_events = SubSeq(Meanings, f, c - 1)
      /\ decoder \in [released : BOOLEAN, extended : BOOLEAN]
  BY DEF Keyed, Decoded, Kinds
<1>5. PICK key \in Keys(byte, decoder.extended) :
           /\ decoder' = Decode(decoder, byte, key).d
           /\ kbd_events' = Written(kbd_events, "kbd", Decode(decoder, byte, key).ev)
  BY DEF KeyboardCallback
<1>6. Meanings' = Meanings /\ ring' = ring
  BY DEF Meanings, KeyboardCallback
<1>7. f \in 1 .. Len(typed) + 1 /\ c \in 1 .. Len(typed) + 1 /\ f <= c /\ c + 1 \in 1 .. Len(typed) + 1
      /\ f <= c + 1 /\ (c + 1) - 1 = c /\ c <= Len(typed) /\ c \in Int
  <2>1. c \in 1 .. Len(typed) /\ Len(typed) \in Nat /\ f \in 1 .. c
    BY <1>0, <1>1, <1>4
  <2> QED BY <2>1
<1>8. ASSUME NEW b, NEW k
       PROVE  /\ b = "E0" => /\ Decode(decoder, b, k).d = [decoder EXCEPT !.extended = TRUE]
                             /\ Decode(decoder, b, k).ev = <<>>
              /\ b = "F0" => /\ Decode(decoder, b, k).d = [decoder EXCEPT !.released = TRUE]
                             /\ Decode(decoder, b, k).ev = <<>>
              /\ b # "E0" /\ b # "F0" =>
                   /\ Decode(decoder, b, k).d = [released |-> FALSE, extended |-> FALSE]
                   /\ k[1] # NoKey => Decode(decoder, b, k).ev = <<<<k, decoder.released>>>>
  <2> DEFINE r == Decode(decoder, b, k)
  <2>1. /\ b = "E0" => r.d = [decoder EXCEPT !.extended = TRUE] /\ r.ev = <<>>
        /\ b = "F0" => r.d = [decoder EXCEPT !.released = TRUE] /\ r.ev = <<>>
        /\ b # "E0" /\ b # "F0" => /\ r.d = [released |-> FALSE, extended |-> FALSE]
                                   /\ k[1] # NoKey => r.ev = <<<<k, decoder.released>>>>
    BY DecodeFacts
  <2> HIDE DEF r
  <2> QED BY <2>1, Zenon DEF r
<1> HIDE DEF K, s, byte
<1>9. CASE o + 1 < Len(s)
  <2>1. o + 1 \in 1 .. Len(s) - 1 /\ Len(s) \in Nat
    BY <1>1, <1>2, <1>3, <1>9
  <2>2. byte = "F0" \/ (o = 0 /\ byte = "E0")
    BY <1>1, <1>2, <1>3, <2>1
  <2>3. kbd_events' = kbd_events
    <3>1. Decode(decoder, byte, key).ev = <<>>
      BY <2>2, <1>8
    <3>2. kbd_events' = kbd_events \/ kbd_events' = kbd_events \o <<>>
      BY <1>5, <3>1 DEF Written
    <3>3. kbd_events \in Seq(Events)
      BY <1>4, <1>7, MeaningsRuns
    <3>4. kbd_events \o <<>> = kbd_events
      BY <3>3
    <3> QED BY <3>2, <3>4
  <2>4. Decoded(c, o + 1)'
    <3>0. \A x : x \in 1 .. o + 1 <=> (x \in 1 .. o \/ x = o + 1)
      BY <1>2
    <3>1. CASE byte = "F0"
      <4>1. decoder' = [decoder EXCEPT !.released = TRUE]
        BY <1>5, <3>1, <1>8
      <4>2. decoder'.released /\ decoder'.extended = decoder.extended
        BY <1>4, <4>1
      <4>3. s[o + 1] = "F0"
        BY <1>1, <3>1
      <4>4. \E x \in 1 .. o + 1 : s[x] = "F0"
        BY <4>3, <3>0
      <4>5. (o > 0 /\ s[1] = "E0") <=> (o + 1 > 0 /\ s[1] = "E0")
        <5>1. CASE o = 0
          BY <4>3, <5>1
        <5>2. CASE o # 0
          BY <5>2, <1>2
        <5> QED BY <5>1, <5>2
      <4> QED BY <4>2, <4>4, <4>5, <1>4 DEF Decoded, s
    <3>2. CASE o = 0 /\ byte = "E0"
      <4>1. decoder' = [decoder EXCEPT !.extended = TRUE]
        BY <1>5, <3>2, <1>8
      <4>2. decoder'.extended /\ decoder'.released = decoder.released
        BY <1>4, <4>1
      <4>3. s[1] = "E0" /\ o + 1 = 1
        BY <1>1, <3>2
      <4>4. ~decoder.released
        BY <1>4, <3>2
      <4>5. ~\E x \in 1 .. o + 1 : s[x] = "F0"
        BY <4>3
      <4> QED BY <4>2, <4>3, <4>4, <4>5 DEF Decoded, s
    <3> QED BY <2>2, <3>1, <3>2
  <2>5. Keyed(Stream(hw, "kbd"), c, o + 1, f)'
    BY <1>0, <1>1, <1>4, <1>6, <1>9, <2>3, <2>4 DEF Keyed
  <2> QED BY <2>5
<1>10. CASE ~(o + 1 < Len(s))
  <2>1. o + 1 = Len(s) /\ byte = s[Len(s)] /\ Ahead(Tail(K), typed, c + 1, 0) /\ Len(s) \in 1 .. Len(s)
    BY <1>1, <1>10
  <2>2. byte \notin {"E0", "F0", NoKey}
    BY <2>1, <1>3
  <2>3. key = <<byte, decoder.extended>>
    <3>1. byte \in Range(s)
      <4>1. Len(s) \in DOMAIN s
        BY <2>1, <1>3
      <4> QED BY <2>1, <4>1 DEF Range
    <3>2. byte \in Listed
      <4>1. byte \in UNION {Range(t) : t \in Strokes}
        BY <3>1, <1>2
      <4> QED BY <4>1, <2>2 DEF Listed
    <3> QED BY <3>2, <1>5 DEF Keys
  <2> DEFINE e == <<key, decoder.released>>
  <2>4. /\ decoder' = [released |-> FALSE, extended |-> FALSE]
        /\ kbd_events' = Written(kbd_events, "kbd", <<e>>)
    <3>1. key[1] # NoKey
      BY <2>2, <2>3
    <3>2. /\ Decode(decoder, byte, key).d = [released |-> FALSE, extended |-> FALSE]
          /\ Decode(decoder, byte, key).ev = <<e>>
      BY <2>2, <3>1, <1>8
    <3> QED BY <1>5, <3>2
  <2>5. e = Meant(s)
    <3>1. decoder.extended = (s[1] = "E0")
      <4>1. decoder.extended <=> s[1] = "E0"
        <5>1. CASE o = 0
          <6>1. Len(s) = 1
            BY <5>1, <2>1
          <6>2. s[1] # "E0"
            BY <6>1, <2>1, <2>2
          <6>3. ~decoder.extended
            BY <5>1, <1>4
          <6> QED BY <6>2, <6>3
        <5>2. CASE o # 0
          BY <5>2, <1>2, <1>4
        <5> QED BY <5>1, <5>2
      <4>2. decoder.extended \in BOOLEAN
        BY <1>4
      <4> QED BY <4>1, <4>2
    <3>2. decoder.released = ("F0" \in Range(s))
      <4>1. DOMAIN s = 1 .. Len(s) /\ Len(s) \in Nat
        BY <1>3
      <4>2. \A x : x \in 1 .. Len(s) <=> (x \in 1 .. o \/ x = Len(s))
        BY <2>1, <1>2
      <4>3. "F0" \in Range(s) <=> \E x \in 1 .. Len(s) : s[x] = "F0"
        BY <4>1 DEF Range
      <4>4. decoder.released <=> "F0" \in Range(s)
        BY <4>2, <4>3, <1>4, <2>1, <2>2
      <4>5. decoder.released \in BOOLEAN
        BY <1>4
      <4> QED BY <4>4, <4>5
    <3>3. Last(s) = byte
      BY <2>1 DEF Last
    <3> QED BY <2>3, <3>1, <3>2, <3>3, Zenon DEF Meant
  <2> HIDE DEF e
  <2>6. Decoded(c + 1, 0)'
    BY <2>4 DEF Decoded
  <2>7. \E f1 \in 1 .. c + 1 : kbd_events' = SubSeq(Meanings, f1, (c + 1) - 1)
    <3>1. CASE ring.kbd = "ready"
      <4>1. kbd_events' = kbd_events \o <<e>>
        BY <2>4, <3>1 DEF Written
      <4>2. SubSeq(Meanings, f, c) = Append(SubSeq(Meanings, f, c - 1), Meant(s))
        BY <1>7, MeaningsRuns DEF s
      <4>3. kbd_events \in Seq(Events)
        BY <1>4, <1>7, MeaningsRuns
      <4>4. Meant(s) \in Events
        BY <1>2 DEF Events
      <4>5. kbd_events \o <<e>> = Append(kbd_events, e)
        BY <2>5, <4>3, <4>4
      <4>6. kbd_events' = SubSeq(Meanings, f, c)
        BY <1>4, <2>5, <4>1, <4>2, <4>5
      <4>7. f \in 1 .. c + 1
        BY <1>7
      <4> QED BY <1>7, <4>6, <4>7
    <3>2. CASE ring.kbd # "ready"
      <4>1. kbd_events' = <<>>
        BY <2>4, <3>2 DEF Written
      <4>2. SubSeq(Meanings, c + 1, (c + 1) - 1) = <<>>
        <5>1. \A b \in 1 .. Len(typed) + 1 : b <= b => SubSeq(Meanings, b, b - 1) = <<>>
          BY MeaningsRuns
        <5>2. c + 1 <= c + 1
          BY <1>7
        <5> QED BY <1>7, <5>1, <5>2
      <4>3. c + 1 \in 1 .. c + 1
        BY <1>7
      <4> QED BY <4>1, <4>2, <4>3
    <3> QED BY <3>1, <3>2
  <2>8. PICK f1 \in 1 .. c + 1 : kbd_events' = SubSeq(Meanings, f1, (c + 1) - 1)
    BY <2>7
  <2>9. Keyed(Stream(hw, "kbd"), c + 1, 0, f1)'
    BY <1>0, <1>6, <2>1, <2>6, <2>8 DEF Keyed
  <2> QED BY <2>9
<1> QED BY <1>9, <1>10


\* The keyboard's decoder and events change in its callback only, and not before the
\* set is known.
LEMMA DecoderStill ==
  ASSUME [Next]_<<vars, machine>>
  PROVE  \/ UNCHANGED <<decoder, kbd_events>>
         \/ \E irq, from : Called("kbd", irq, from)
<1>1. CASE Aside \/ Buffers \/ Drain \/ Fill \/ Type \/ Move
             \/ \E l \in Questions : Send(l) \/ Read(l) \/ GiveUp(l)
  BY <1>1, AsideCalm DEF Calm, Buffers, Buffer, Drain, Fill, Type, Move, Send, Read, GiveUp, Answered,
                         drvVars
<1>2. ASSUME NEW d, NEW irq, NEW from, Called(d, irq, from), d # "kbd"
      PROVE  UNCHANGED <<decoder, kbd_events>>
  BY <1>2 DEF Called, Callback, MouseCallback
<1> QED BY <1>1, <1>2, Shapes

LEMMA UnsetCalled ==
  ASSUME scancode_set # "02", kbd_events = <<>>, NEW irq, NEW from, Called("kbd", irq, from)
  PROVE  decoder' = decoder /\ kbd_events' = <<>>
<1>1. PICK byte : KeyboardCallback(byte)
  BY DEF Called, Callback
<1>2. PICK key : /\ decoder' = Decode(decoder, byte, key).d
                 /\ kbd_events' = Written(kbd_events, "kbd", Decode(decoder, byte, key).ev)
  BY <1>1 DEF KeyboardCallback
<1>3. Decode(decoder, byte, key).d = decoder /\ Decode(decoder, byte, key).ev = <<>>
  BY DecodeFacts
<1>4. <<>> \o <<>> = <<>>
  OBVIOUS
<1> QED BY <1>2, <1>3, <1>4 DEF Written

\* The keyboard's callback is called for a byte that is there.
LEMMA CalledHolds ==
  ASSUME Inv, Masks, Latched, Edge, "stray" \notin odd, scancode_set = "02",
         NEW irq, NEW from, Called("kbd", irq, from)
  PROVE  Holds(hw, "kbd")
<1>1. (from = "APIC" /\ 33 \in lapic.irr) \/ (from = "PIC" /\ 1 \in pic.latched)
  BY CalledFacts
<1>2. 1 \in Line(hw)
  BY <1>1 DEF Edge, Latched
<1> QED BY <1>2, LineFacts

LEMMA KeyedStep ==
  ASSUME Inv, Kinds, Masks, Reading, Latched, TwoIsKbds(hw), Edge, SetAnswer, KeyOrder, Onward,
         [Next]_<<vars, machine>>, "stray" \notin odd', "stray" \notin odd, scancode_set = "02"
  PROVE  \E c, o, f : Keyed(Stream(hw, "kbd"), c, o, f)'
<1>0. hw \in Hardware /\ machine \in Machine /\ pc \in Late
  BY DEF Kinds, SetAnswer
<1>1. PICK c, o, f : Keyed(Stream(hw, "kbd"), c, o, f)
  BY DEF KeyOrder, Keyed
<1>2. CASE KeysSame
  BY <1>1, <1>2, KeyedSame
<1>3. CASE Aside \/ Buffers \/ \E l \in Questions : GiveUp(l)
  <2>1. hw' = hw /\ UNCHANGED <<typed, decoder, kbd_events>>
    BY <1>3, AsideCalm DEF Calm, Buffers, Buffer, Go, GiveUp, Answered, Rest, drvVars
  <2> QED BY <1>2, <2>1 DEF KeysSame
<1>4. ~Drain
  BY <1>0 DEF Drain, At, Late
<1>5. CASE Fill
  <2>1. hw' \in Fillings(hw) /\ UNCHANGED <<typed, decoder, kbd_events>>
    BY <1>5 DEF Fill, Becomes, BecomesNoting, Rest, drvVars
  <2>2. Stream(hw', "kbd") = Stream(hw, "kbd")
    BY <1>0, <2>1, FillFacts
  <2> QED BY <1>2, <2>1, <2>2 DEF KeysSame
<1>6. CASE Type
  BY <1>1, <1>6, KeyedMore
<1>7. CASE Move
  <2>1. /\ Longer(hw, hw', "mse", Packets[moves + 1]) /\ moves + 1 \in 1 .. Len(Packets)
        /\ UNCHANGED <<typed, decoder, kbd_events>>
    BY <1>7, MoveFacts DEF drvVars
  <2>2. Packets[moves + 1] \in Seq(Byte)
    BY <2>1, PacketFacts
  <2>3. Stream(hw', "kbd") = Stream(hw, "kbd")
    BY <2>1, <2>2, <1>0, SentMore
  <2> QED BY <1>2, <2>1, <2>3 DEF KeysSame
<1>8. ASSUME NEW l \in Questions, Send(l) PROVE \E c1, o1, f1 : Keyed(Stream(hw, "kbd"), c1, o1, f1)'
  <2>1. /\ hw' = Sent(l) /\ l = "mouse" /\ UNCHANGED <<typed, decoder, kbd_events>>
    BY <1>0, <1>8 DEF Send, At, Becomes, BecomesNoting, Rest, drvVars, Late, Questions
  <2>2. Plain(hw, hw') \/ Replied(hw, hw', "mse", <<ACK>>)
    BY <1>0, <2>1, SentFacts
  <2>3. <<ACK>> \in Seq(Byte)
    BY DEF Byte, Answers
  <2>4. Stream(hw', "kbd") = Stream(hw, "kbd")
    <3>1. CASE Plain(hw, hw')
      BY <3>1, PlainStream
    <3>2. CASE Replied(hw, hw', "mse", <<ACK>>)
      <4>1. hw'.obf = hw.obf /\ hw'["kbd"] = hw["kbd"]
        BY <3>2 DEF Replied
      <4> QED BY <4>1 DEF Stream, Holds
    <3> QED BY <2>2, <3>1, <3>2
  <2> QED BY <1>2, <2>1, <2>4 DEF KeysSame
<1>9. ASSUME NEW l \in Questions, Read(l) PROVE \E c1, o1, f1 : Keyed(Stream(hw, "kbd"), c1, o1, f1)'
  <2>1. hw' = Emptied(hw) /\ hw.obf.byte \notin Input
    BY <1>9, ReadFacts
  <2>2. UNCHANGED <<typed, decoder, kbd_events>>
    BY <1>9 DEF Read, Answered, Rest
  <2>3. ~Holds(hw, "kbd")
    BY <1>0, <2>1, KeyHead
  <2>4. Stream(hw', "kbd") = Stream(hw, "kbd")
    BY <1>0, <2>1, <2>3, TakenFacts
  <2> QED BY <1>2, <2>2, <2>4 DEF KeysSame
<1>10. ASSUME NEW d, NEW irq, NEW from, Called(d, irq, from)
       PROVE  \E c1, o1, f1 : Keyed(Stream(hw, "kbd"), c1, o1, f1)'
  <2>0. Callback(d, Vector(irq), from) /\ typed' = typed
    BY <1>10 DEF Called, Interrupt, Rest
  <2>1. PICK h, byte :
           /\ h \in Hardware
           /\ h = hw \/ (~hw.obf.full /\ h \in Fillings(hw))
           /\ \A e \in {"kbd", "mse"} : Stream(h, e) = Stream(hw, e)
           /\ byte = IF h.obf.full THEN h.obf.byte ELSE Timeout
           /\ IF d = "kbd" THEN KeyboardCallback(byte) ELSE MouseCallback(byte)
           /\ hw' = Emptied(h)
           /\ "stray" \notin odd' => "stray" \notin odd /\ ~Strays(d, h, byte)
    BY <2>0, CallbackRead
  <2>2. CASE d = "kbd"
    <3>1. Holds(hw, "kbd")
      BY <1>10, <2>2, CalledHolds
    <3>2. h = hw /\ byte = hw.obf.byte
      BY <2>1, <3>1 DEF Holds
    <3>3. KeyboardCallback(hw.obf.byte) /\ hw' = Emptied(hw)
      BY <2>1, <2>2, <3>2
    <3>4. ring.kbd # "ready" => kbd_events = <<>>
      BY DEF KeyOrder
    <3> QED BY <1>1, <2>0, <3>1, <3>3, <3>4, KeyedTaken
  <2>3. CASE d # "kbd"
    <3>0. d = "mse"
      BY <1>10, <2>3, CalledFacts
    <3>1. ~Holds(h, "kbd")
      <4>1. SUFFICES ASSUME Holds(h, "kbd") PROVE FALSE
        OBVIOUS
      <4>2. byte = h.obf.byte /\ h.obf.from = "kbd"
        BY <2>1, <4>1 DEF Holds
      <4>3. byte # Timeout
        <5>1. h.obf.byte \in Byte
          BY <2>1 DEF Hardware
        <5> QED BY <4>2, <5>1, TimeoutNoByte
      <4> QED BY <3>0, <2>1, <4>2, <4>3 DEF Strays
    <3>2. Stream(hw', "kbd") = Stream(hw, "kbd")
      BY <2>1, <3>1, TakenFacts
    <3>3. UNCHANGED <<decoder, kbd_events>>
      BY <2>1, <2>3 DEF MouseCallback
    <3> QED BY <1>2, <2>0, <3>2, <3>3 DEF KeysSame
  <2> QED BY <2>2, <2>3
<1> QED BY <1>3, <1>4, <1>5, <1>6, <1>7, <1>8, <1>9, <1>10, Shapes

LEMMA KeyOrderStep ==
  ASSUME Inv, Kinds, Masks, Reading, Latched, TwoIsKbds(hw), Edge, SetAnswer, KeyOrder, Onward,
         [Next]_<<vars, machine>>
  PROVE  KeyOrder'
<1> SUFFICES ASSUME "stray" \notin odd'
             PROVE  /\ ring'.kbd # "ready" \/ scancode_set' # "02" => kbd_events' = <<>>
                    /\ scancode_set' # "02" => ~decoder'.released /\ ~decoder'.extended
                    /\ scancode_set' = "02" => \E c, o, f : Keyed(Stream(hw, "kbd"), c, o, f)'
  BY DEF KeyOrder, Keyed
<1>0. "stray" \notin odd
  BY OddKept
<1>1. CASE scancode_set = "02"
  <2>1. \E c, o, f : Keyed(Stream(hw, "kbd"), c, o, f)'
    BY <1>0, <1>1, KeyedStep
  <2>2. scancode_set' = "02"
    BY <1>1, SetStays
  <2>3. ASSUME ring'.kbd # "ready" PROVE kbd_events' = <<>>
    <3>1. ring.kbd # "ready"
      <4>1. CASE ring' = ring
        BY <2>3, <4>1
      <4>2. CASE Buffers
        <5>1. ring \in [kbd : {"zeroed", "cap", "ready"}, mse : {"zeroed", "cap", "ready"}]
          BY DEF Kinds
        <5>2. CASE Buffer("kbd cap", "kbd", "cap", "kbd buf") \/ Buffer("kbd buf", "kbd", "ready", "mouse")
          BY <5>2 DEF Buffer, At, Reading, KeysReady
        <5>3. CASE \/ Buffer("mse cap", "mse", "cap", "mse buf")
                   \/ Buffer("mse buf", "mse", "ready", "loop")
          BY <2>3, <5>1, <5>3 DEF Buffer
        <5> QED BY <4>2, <5>2, <5>3 DEF Buffers
      <4>3. Buffers \/ ring' = ring
        <5>1. CASE Aside \/ Drain \/ Fill \/ Type \/ Move
                     \/ \E l \in Questions : Send(l) \/ Read(l) \/ GiveUp(l)
          BY <5>1, AsideCalm DEF Calm, Drain, Fill, Type, Move, Send, Read, GiveUp, Answered, drvVars
        <5>2. ASSUME NEW d, NEW irq, NEW from, Called(d, irq, from) PROVE ring' = ring
          BY <5>2 DEF Called, Callback, KeyboardCallback, MouseCallback
        <5> QED BY <5>1, <5>2, Shapes
      <4> QED BY <4>1, <4>2, <4>3
    <3>2. kbd_events = <<>>
      BY <1>0, <3>1 DEF KeyOrder
    <3>3. ASSUME NEW irq, NEW from, Called("kbd", irq, from) PROVE kbd_events' = <<>>
      <4>1. PICK byte : KeyboardCallback(byte)
        BY <3>3 DEF Called, Callback
      <4> QED BY <3>1, <3>2, <4>1 DEF KeyboardCallback, Written
    <3> QED BY <3>2, <3>3, DecoderStill
  <2> QED BY <2>1, <2>2, <2>3
<1>2. CASE scancode_set # "02"
  <2>0. kbd_events = <<>> /\ ~decoder.released /\ ~decoder.extended
    BY <1>0, <1>2 DEF KeyOrder
  <2>1. decoder' = decoder /\ kbd_events' = <<>>
    BY <1>2, <2>0, UnsetCalled, DecoderStill
  <2>2. ASSUME scancode_set' = "02" PROVE \E c, o, f : Keyed(Stream(hw, "kbd"), c, o, f)'
    <3>1. pc = "set" /\ stage = "read" /\ Read("set") /\ hw.obf.byte = "02"
      BY <1>2, <2>2, SetLearnt
    <3> QED BY <1>0, <1>2, <3>1, KeyedFirst
  <2> QED BY <2>0, <2>1, <2>2
<1> QED BY <1>1, <1>2


-----------------------------------------------------------------------------
(* The mouse.                                                               *)

PacketKind == Seq(Byte) \ {<<>>}

LEMMA PacketRuns ==
  ASSUME NEW f \in 1 .. Len(Packets) + 1, NEW c \in 1 .. Len(Packets) + 1, f <= c
  PROVE  /\ c <= Len(Packets) => SubSeq(Packets, f, c) = Append(SubSeq(Packets, f, c - 1), Packets[c])
         /\ SubSeq(Packets, c, c - 1) = <<>>
         /\ SubSeq(Packets, f, c - 1) \in Seq(PacketKind)
<1>1. Packets \in Seq(PacketKind) /\ Len(Packets) \in Nat
  BY PacketFacts DEF Parts, PacketKind
<1>2. /\ c <= Len(Packets) => SubSeq(Packets, f, c) = Append(SubSeq(Packets, f, c - 1), Packets[c])
      /\ SubSeq(Packets, c, c - 1) = <<>>
  BY <1>1, Runs
<1>3. SubSeq(Packets, f, c - 1) \in Seq(PacketKind)
  BY <1>1
<1> QED BY <1>2, <1>3

LEMMA EmittedFacts ==
  ASSUME NEW m \in 0 .. Len(Packets)
  PROVE  /\ Emitted(m) \in Parts(Byte) /\ Len(Emitted(m)) = m
         /\ \A i \in 1 .. m : Emitted(m)[i] = Packets[i] /\ i \in 1 .. Len(Packets)
         /\ m < Len(Packets) => Emitted(m + 1) = Append(Emitted(m), Packets[m + 1])
<1>1. Packets \in Seq(PacketKind) /\ Len(Packets) \in Nat
  BY PacketFacts DEF Parts, PacketKind
<1>2. m \in Int /\ 0 <= m /\ m <= Len(Packets) /\ 1 \in 1 .. Len(Packets) + 1 /\ m + 1 \in 1 .. Len(Packets) + 1
  BY <1>1
<1> DEFINE e == SubSeq(Packets, 1, m)
<1>3. e \in Seq(PacketKind) /\ Len(e) = m /\ \A i \in 1 .. m : e[i] = Packets[i] /\ i \in 1 .. Len(Packets)
  BY <1>1, <1>2
<1> HIDE DEF e
<1>4. e \in Parts(Byte)
  BY <1>3 DEF Parts, PacketKind
<1>5. ASSUME m < Len(Packets)
      PROVE  SubSeq(Packets, 1, m + 1) = Append(SubSeq(Packets, 1, m), Packets[m + 1])
  <2>1. m + 1 <= Len(Packets) /\ (m + 1) - 1 = m /\ 1 <= m + 1
    BY <1>1, <1>2, <1>5
  <2>2. SubSeq(Packets, 1, m + 1) = Append(SubSeq(Packets, 1, (m + 1) - 1), Packets[m + 1])
    BY <1>2, <2>1, PacketRuns
  <2> QED BY <2>1, <2>2
<1> QED BY <1>3, <1>4, <1>5 DEF Emitted, e

\* w is what the mouse's stream is without the ACK; c and k say how far packets and
\* events are.
Moved(s, w, c, k) ==
  /\ w \in Seq(Byte) /\ Woven(s, w)
  /\ packet \in Seq(Byte) /\ Ahead(w, Emitted(moves), c, Len(packet))
  /\ \A x \in 1 .. Len(packet) : packet[x] = Packets[c][x]
  /\ k \in 1 .. c /\ mse_events = SubSeq(Packets, k, c - 1)

MouseMoved == \E w, c, k : Moved(Stream(hw, "mse"), w, c, k) /\ (~Asked => w = Stream(hw, "mse"))

\* The next byte of the packets.
LEMMA MovedHead ==
  ASSUME Kinds, NEW s, NEW w, NEW c, NEW k, Moved(s, w, c, k), w # <<>>
  PROVE  /\ c \in 1 .. moves /\ c \in 1 .. Len(Packets) /\ Len(packet) + 1 \in 1 .. 3
         /\ w[1] = Packets[c][Len(packet) + 1] /\ w[1] \in Input /\ w[1] # ACK
         /\ IF Len(packet) + 1 < 3 THEN Ahead(Tail(w), Emitted(moves), c, Len(packet) + 1)
            ELSE Len(packet) = 2 /\ Ahead(Tail(w), Emitted(moves), c + 1, 0)
<1> DEFINE all == Emitted(moves)
           o == Len(packet)
<1>0. moves \in 0 .. Len(Packets) /\ Len(Packets) \in Nat
  BY PacketFacts DEF Kinds, Parts
<1>1. /\ all \in Parts(Byte) /\ Len(all) = moves
      /\ \A i \in 1 .. moves : all[i] = Packets[i] /\ i \in 1 .. Len(Packets)
  BY <1>0, EmittedFacts
<1>2. w \in Seq(Byte) /\ Ahead(w, all, c, o) /\ packet \in Seq(Byte)
  BY DEF Moved
<1> HIDE DEF all
<1>3. /\ c \in 1 .. Len(all) /\ o + 1 \in 1 .. Len(all[c]) /\ w[1] = all[c][o + 1]
      /\ IF o + 1 < Len(all[c]) THEN Ahead(Tail(w), all, c, o + 1)
         ELSE o + 1 = Len(all[c]) /\ Ahead(Tail(w), all, c + 1, 0)
  <2> HIDE DEF o
  <2> QED BY <1>1, <1>2, AheadHead
<1>4. c \in 1 .. moves /\ all[c] = Packets[c] /\ c \in 1 .. Len(Packets)
  BY <1>1, <1>3
<1>5. Len(Packets[c]) = 3 /\ \A i \in 1 .. 3 : Packets[c][i] \in Input /\ Packets[c][i] # ACK
  BY <1>4, PacketFacts
<1>6. o + 1 \in 1 .. 3 /\ w[1] = Packets[c][o + 1] /\ o \in Nat
  BY <1>2, <1>3, <1>4, <1>5
<1>7. w[1] \in Input /\ w[1] # ACK
  BY <1>5, <1>6
<1>8. IF o + 1 < 3 THEN Ahead(Tail(w), all, c, o + 1) ELSE o = 2 /\ Ahead(Tail(w), all, c + 1, 0)
  <2>1. Len(all[c]) = 3
    BY <1>4, <1>5
  <2>2. CASE o + 1 < 3
    BY <1>3, <2>1, <2>2
  <2>3. CASE ~(o + 1 < 3)
    <3>1. o + 1 = 3 /\ Ahead(Tail(w), all, c + 1, 0)
      BY <1>3, <2>1, <2>3
    <3>2. o = 2
      <4>1. o \in Nat /\ o + 1 = 3
        BY <3>1, <1>6
      <4> HIDE DEF o
      <4> QED BY <4>1
    <3> QED BY <2>3, <3>1, <3>2
  <2> QED BY <2>2, <2>3
<1> QED BY <1>4, <1>6, <1>7, <1>8 DEF all

\* The first byte of the stream: of a packet, or the ACK.
LEMMA MovedFirst ==
  ASSUME Kinds, NEW s \in Seq(Byte), s # <<>>, NEW w, NEW c, NEW k, Moved(s, w, c, k)
  PROVE  \/ s[1] = ACK /\ s[1] \notin Input /\ w = Tail(s) /\ w # s
         \/ s[1] \in Input /\ w # <<>> /\ w[1] = s[1] /\ Woven(Tail(s), Tail(w))
<1>1. w \in Seq(Byte) /\ Woven(s, w)
  BY DEF Moved
<1>2. \/ s[1] = ACK /\ w = Tail(s)
      \/ w # <<>> /\ w[1] = s[1] /\ Woven(Tail(s), Tail(w))
  BY <1>1, WovenHead
<1>3. ACK \notin Input
  BY NamesAssumption
<1>4. Tail(s) # s
  <2>1. Len(Tail(s)) = Len(s) - 1 /\ Len(s) \in Nat
    OBVIOUS
  <2>2. Len(Tail(s)) # Len(s)
    <3>1. \A n \in Nat : \A m : m = n - 1 => m # n
      OBVIOUS
    <3> QED BY <2>1, <3>1, Zenon
  <2> QED BY <2>2, Zenon
<1> QED BY <1>2, <1>3, <1>4, MovedHead

\* Nothing of the mouse changes.
MouseSame ==
  /\ Stream(hw', "mse") = Stream(hw, "mse")
  /\ UNCHANGED <<moves, packet, mse_events>>

LEMMA MouseSameMoved ==
  ASSUME MouseSame, MouseMoved, Onward
  PROVE  MouseMoved'
<1>1. PICK w, c, k : Moved(Stream(hw, "mse"), w, c, k) /\ (~Asked => w = Stream(hw, "mse"))
  BY DEF MouseMoved
<1>2. Moved(Stream(hw, "mse"), w, c, k)'
  BY <1>1 DEF MouseSame, Moved
<1>3. ~Asked' => w = Stream(hw', "mse")
  BY <1>1 DEF MouseSame, Onward
<1> QED BY <1>2, <1>3 DEF MouseMoved

\* kmain takes a byte that is of no packet.
LEMMA MouseTaken ==
  ASSUME Kinds, MouseMoved, Onward, NEW h \in Hardware, Stream(h, "mse") = Stream(hw, "mse"),
         hw' = Emptied(h), h.obf.byte \notin Input, UNCHANGED <<moves, packet, mse_events>>
  PROVE  MouseMoved'
<1>1. CASE ~Holds(h, "mse")
  BY <1>1, TakenFacts, MouseSameMoved DEF MouseSame
<1>2. CASE Holds(h, "mse")
  <2> DEFINE S == Stream(hw, "mse")
  <2>1. S \in Seq(Byte) /\ S # <<>> /\ S[1] = h.obf.byte /\ Stream(hw', "mse") = Tail(S)
    BY <1>2, TakenFacts, StreamFacts
  <2>2. PICK w, c, k : Moved(S, w, c, k) /\ (~Asked => w = S)
    BY DEF MouseMoved
  <2> HIDE DEF S
  <2>3. w = Tail(S) /\ w # S
    BY <2>1, <2>2, MovedFirst
  <2>4. Asked'
    BY <2>2, <2>3 DEF Onward
  <2>5. Woven(Tail(S), w)
    BY <2>3 DEF Woven
  <2>6. Moved(Stream(hw, "mse"), w, c, k)'
    BY <2>1, <2>2, <2>5 DEF Moved
  <2> QED BY <2>4, <2>6 DEF MouseMoved
<1> QED BY <1>1, <1>2

\* A packet more.
LEMMA MouseMore ==
  ASSUME Kinds, MouseMoved, Onward, Move
  PROVE  MouseMoved'
<1> DEFINE S == Stream(hw, "mse")
<1>0. PICK p : p = Packets[moves + 1]
  OBVIOUS
<1>1. /\ Longer(hw, hw', "mse", p) /\ moves' = moves + 1 /\ moves + 1 \in 1 .. Len(Packets)
      /\ UNCHANGED <<packet, mse_events>>
  BY <1>0, MoveFacts DEF drvVars
<1>2. p \in Seq(Byte) /\ p # <<>> /\ moves \in 0 .. Len(Packets) /\ moves < Len(Packets)
  BY <1>1, <1>0, PacketFacts DEF Kinds, Parts
<1>3. S \in Seq(Byte) /\ Stream(hw', "mse") = S \o p
  BY <1>1, <1>2, SentMore, StreamFacts DEF Kinds
<1>4. Emitted(moves) \in Parts(Byte) /\ Emitted(moves + 1) = Append(Emitted(moves), p)
  BY <1>2, <1>0, EmittedFacts
<1>5. PICK w, c, k : Moved(S, w, c, k) /\ (~Asked => w = S)
  BY DEF MouseMoved
<1> HIDE DEF S
<1>6. w \in Seq(Byte) /\ w \o p \in Seq(Byte) /\ Woven(S \o p, w \o p)
  <2>1. w \in Seq(Byte) /\ Woven(S, w)
    BY <1>5 DEF Moved
  <2> QED BY <2>1, <1>2, <1>3, WovenMore
<1>7. Ahead(w \o p, Append(Emitted(moves), p), c, Len(packet))
  <2>1. Ahead(w, Emitted(moves), c, Len(packet)) /\ p \in Seq(Byte) \ {<<>>}
    BY <1>2, <1>5 DEF Moved
  <2> QED BY <2>1, <1>4, <1>6, AheadMore
<1>8. Moved(Stream(hw, "mse"), w \o p, c, k)'
  BY <1>1, <1>3, <1>4, <1>5, <1>6, <1>7 DEF Moved
<1>9. ~Asked' => w \o p = S \o p
  BY <1>5 DEF Onward
<1> QED BY <1>3, <1>8, <1>9 DEF MouseMoved


\* The mouse is told to report: its ACK comes after what it has sent, or instead of it.
LEMMA MouseAsked ==
  ASSUME Kinds, Reading, MouseMoved, Send("mouse"), packet = <<>>, mse_events = <<>>
  PROVE  MouseMoved' \/ (Doomed' /\ mse_events' = <<>>)
<1> DEFINE S == Stream(hw, "mse")
<1>0. /\ hw \in Hardware /\ machine \in Machine /\ S \in Seq(Byte) /\ ~Asked
      /\ moves \in 0 .. Len(Packets) /\ Len(Packets) \in Nat
  <2>1. hw \in Hardware /\ machine \in Machine /\ moves \in 0 .. Len(Packets)
    BY DEF Kinds
  <2>2. S \in Seq(Byte)
    BY <2>1, StreamFacts
  <2>3. ~Asked
    BY DEF Send, At, Asked, MouseOn
  <2>4. Len(Packets) \in Nat
    BY PacketFacts DEF Parts
  <2> QED BY <2>1, <2>2, <2>3, <2>4
<1>1. /\ hw' = Sent("mouse") /\ pc' = "mouse" /\ stage' = "wait" /\ pc = "mouse" /\ stage = "send"
      /\ UNCHANGED <<moves, packet, mse_events>>
  BY DEF Send, At, Becomes, BecomesNoting, Rest, drvVars
<1>2. Asked'
  BY <1>1 DEF Asked
<1>3. PICK w, c, k : Moved(S, w, c, k) /\ w = S
  BY <1>0 DEF MouseMoved
<1>4. Plain(hw, hw') \/ Replied(hw, hw', "mse", <<ACK>>)
  <2>1. "mouse" \in Questions
    BY DEF Questions
  <2> QED BY <1>0, <1>1, <2>1, SentFacts
<1>5. ACK \in Byte /\ <<ACK>> \in Seq(Byte)
  BY DEF Byte, Answers
<1>6. CASE Plain(hw, hw')
  <2>1. Stream(hw', "mse") = S
    BY <1>6, PlainStream
  <2>2. Moved(Stream(hw, "mse"), w, c, k)'
    BY <1>1, <1>3, <2>1 DEF Moved
  <2> QED BY <1>2, <2>2 DEF MouseMoved
<1>7. CASE Replied(hw, hw', "mse", <<ACK>>)
  <2>1. /\ hw'.obf = hw.obf
        /\ \/ Stream(hw', "mse") = S \o <<ACK>>
           \/ Holds(hw, "mse")
           \/ ~Holds(hw, "mse") /\ Stream(hw', "mse") = <<ACK>>
    <3>1. hw \in Hardware /\ "mse" \in {"kbd", "mse"} /\ <<ACK>> \in Seq(Byte)
          /\ Replied(hw, hw', "mse", <<ACK>>)
      BY <1>0, <1>5, <1>7
    <3>2. \/ Stream(hw', "mse") = S \o <<ACK>>
          \/ Holds(hw, "mse")
          \/ ~Holds(hw, "mse") /\ Stream(hw', "mse") = <<ACK>>
      <4>1. AnswerAhead(hw, hw', "mse", <<ACK>>)
        BY <3>1, RepliedStream
      <4> QED BY <4>1, Zenon DEF AnswerAhead
    <3>3. hw'.obf = hw.obf
      BY <1>7 DEF Replied
    <3> QED BY <3>2, <3>3
  <2>2. CASE Stream(hw', "mse") = S \o <<ACK>>
    <3>1. Woven(S \o <<ACK>>, S)
      BY <1>0, <1>5, WovenAck
    <3>2. Moved(Stream(hw, "mse"), w, c, k)'
      BY <1>1, <1>3, <2>2, <3>1 DEF Moved
    <3> QED BY <1>2, <3>2 DEF MouseMoved
  <2>3. CASE Holds(hw, "mse")
    <3>1. S # <<>> /\ S[1] = hw.obf.byte
      BY <1>0, <2>3, StreamFacts
    <3>2. S[1] \in Input
      <4> HIDE DEF S
      <4> QED BY <1>0, <1>3, <3>1, MovedFirst
    <3>3. Doomed'
      BY <1>1, <2>1, <2>3, <3>1, <3>2 DEF Doomed, Holds
    <3> QED BY <1>1, <3>3
  <2>4. CASE Stream(hw', "mse") = <<ACK>>
    <3>1. <<>> \o <<ACK>> = <<ACK>> /\ <<>> \in Seq(Byte) /\ Len(packet) = 0
      BY <1>5
    <3>2. Woven(<<ACK>>, <<>>)
      <4>1. ASSUME NEW s \in Seq(Byte) PROVE Woven(s \o <<ACK>>, s)
        BY <1>5, WovenAck
      <4> QED BY <3>1, <4>1
    <3>3. Ahead(<<>>, Emitted(moves), moves + 1, 0)
      BY <1>0, EmittedFacts, AheadNone
    <3>4. moves + 1 \in 1 .. moves + 1 /\ moves + 1 \in 1 .. Len(Packets) + 1 /\ moves + 1 <= moves + 1
      BY <1>0
    <3>5. SubSeq(Packets, moves + 1, (moves + 1) - 1) = <<>>
      BY <3>4, PacketRuns
    <3>6. PICK n : n = moves + 1
      OBVIOUS
    <3>7. Moved(Stream(hw, "mse"), <<>>, n, n)'
      BY <1>1, <2>4, <3>1, <3>2, <3>3, <3>4, <3>5, <3>6 DEF Moved
    <3> QED BY <1>2, <3>7 DEF MouseMoved
  <2> QED BY <2>1, <2>2, <2>3, <2>4
<1> QED BY <1>4, <1>6, <1>7

\* The mouse's callback takes a byte of a packet.
LEMMA MouseCalled ==
  ASSUME Kinds, MouseMoved, Asked', ring.mse # "ready" => mse_events = <<>>,
         NEW h \in Hardware, Stream(h, "mse") = Stream(hw, "mse"),
         hw' = Emptied(h), Holds(h, "mse"), h.obf.byte \in Input, moves' = moves,
         MouseCallback(h.obf.byte)
  PROVE  MouseMoved'
<1> DEFINE S == Stream(hw, "mse")
           byte == h.obf.byte
           o == Len(packet)
<1>1. /\ S \in Seq(Byte) /\ S # <<>> /\ S[1] = byte /\ Stream(hw', "mse") = Tail(S) /\ byte \in Byte
  BY TakenFacts, StreamFacts DEF Hardware
<1>2. PICK w, c, k : Moved(S, w, c, k)
  BY DEF MouseMoved
<1>3. byte # Timeout /\ byte # ACK
  BY NamesAssumption
<1>4. packet' = Collect(byte).rest /\ mse_events' = Written(mse_events, "mse", Collect(byte).ev)
  BY <1>3 DEF MouseCallback
<1> HIDE DEF S, byte
<1>5. w # <<>> /\ w[1] = byte /\ Woven(Tail(S), Tail(w))
  BY <1>1, <1>2, <1>3, MovedFirst
<1>6. /\ c \in 1 .. moves /\ c \in 1 .. Len(Packets) /\ o + 1 \in 1 .. 3
      /\ byte = Packets[c][o + 1]
      /\ IF o + 1 < 3 THEN Ahead(Tail(w), Emitted(moves), c, o + 1)
         ELSE o = 2 /\ Ahead(Tail(w), Emitted(moves), c + 1, 0)
  BY <1>2, <1>5, MovedHead
<1>7. /\ w \in Seq(Byte) /\ Tail(w) \in Seq(Byte) /\ packet \in Seq(Byte) /\ o \in Nat
      /\ \A x \in 1 .. o : packet[x] = Packets[c][x]
      /\ k \in 1 .. c /\ mse_events = SubSeq(Packets, k, c - 1)
  BY <1>2, <1>5 DEF Moved
<1>8. Append(packet, byte) \in Seq(Byte) /\ Len(Append(packet, byte)) = o + 1
      /\ \A x \in 1 .. o + 1 : Append(packet, byte)[x] = Packets[c][x]
  <2>1. Append(packet, byte) \in Seq(Byte) /\ Len(Append(packet, byte)) = o + 1
        /\ Append(packet, byte)[o + 1] = byte /\ \A x \in 1 .. o : Append(packet, byte)[x] = packet[x]
    BY <1>1, <1>7
  <2>2. \A x \in 1 .. o + 1 : x \in 1 .. o \/ x = o + 1
    BY <1>7
  <2> HIDE DEF o
  <2> QED BY <2>1, <2>2, <1>6, <1>7
<1>9. /\ k \in 1 .. Len(Packets) + 1 /\ c \in 1 .. Len(Packets) + 1 /\ k <= c
      /\ c + 1 \in 1 .. Len(Packets) + 1 /\ (c + 1) - 1 = c /\ c <= Len(Packets) /\ c + 1 <= c + 1
      /\ k \in 1 .. c + 1 /\ c + 1 \in 1 .. c + 1
  <2>1. c \in 1 .. Len(Packets) /\ k \in 1 .. c /\ Len(Packets) \in Nat
    BY <1>6, <1>7, PacketFacts DEF Parts
  <2> QED BY <2>1
<1>10. mse_events \in Seq(PacketKind)
  BY <1>7, <1>9, PacketRuns
<1>11. CASE o # 2
  <2>1. packet' = Append(packet, byte) /\ Collect(byte).ev = <<>>
    BY <1>4, <1>11 DEF Collect
  <2>2. mse_events' = mse_events
    BY <1>4, <1>10, <2>1 DEF Written
  <2>3. o + 1 < 3 /\ Len(packet') = o + 1
    BY <1>6, <1>7, <1>8, <1>11, <2>1
  <2>4. Ahead(Tail(w), Emitted(moves), c, Len(packet'))
    BY <1>6, <2>3
  <2>5. Moved(Stream(hw, "mse"), Tail(w), c, k)'
    BY <1>1, <1>5, <1>7, <1>8, <2>1, <2>2, <2>3, <2>4 DEF Moved
  <2> QED BY <2>5 DEF MouseMoved
<1>12. CASE o = 2
  <2> DEFINE e == Append(packet, byte)
  <2>1. packet' = <<>> /\ Collect(byte).ev = <<e>>
    BY <1>4, <1>12 DEF Collect
  <2>2. e = Packets[c]
    <3>1. Packets[c] \in Seq(Byte) /\ Len(Packets[c]) = 3
      BY <1>6, PacketFacts
    <3>2. Len(e) = Len(Packets[c]) /\ \A x \in 1 .. Len(e) : e[x] = Packets[c][x]
      BY <1>8, <1>12, <3>1
    <3>3. e \in Seq(Byte)
      BY <1>8
    <3> HIDE DEF e
    <3> QED BY <3>1, <3>2, <3>3, SameBytes
  <2> HIDE DEF e
  <2>3. \E n \in 1 .. c + 1 : mse_events' = SubSeq(Packets, n, (c + 1) - 1)
    <3>1. CASE ring.mse = "ready"
      <4>1. mse_events' = mse_events \o <<e>>
        BY <1>4, <2>1, <3>1 DEF Written
      <4>2. SubSeq(Packets, k, c) = Append(SubSeq(Packets, k, c - 1), Packets[c])
        BY <1>9, PacketRuns
      <4>3. Packets[c] \in PacketKind
        BY <1>6, PacketFacts DEF PacketKind
      <4>4. mse_events \o <<e>> = Append(mse_events, e)
        BY <1>10, <2>2, <4>3
      <4>5. mse_events' = SubSeq(Packets, k, c)
        BY <1>7, <2>2, <4>1, <4>2, <4>4
      <4> QED BY <1>9, <4>5
    <3>2. CASE ring.mse # "ready"
      <4>1. mse_events' = <<>>
        BY <1>4, <3>2 DEF Written
      <4>2. \A b \in 1 .. Len(Packets) + 1 : b <= b => SubSeq(Packets, b, b - 1) = <<>>
        BY PacketRuns
      <4>3. SubSeq(Packets, c + 1, (c + 1) - 1) = <<>>
        BY <1>9, <4>2
      <4> QED BY <1>9, <4>1, <4>3
    <3> QED BY <3>1, <3>2
  <2>4. PICK n \in 1 .. c + 1 : mse_events' = SubSeq(Packets, n, (c + 1) - 1)
    BY <2>3
  <2>5. Ahead(Tail(w), Emitted(moves), c + 1, Len(packet')) /\ Len(packet') = 0 /\ packet' \in Seq(Byte)
    BY <1>6, <1>12, <2>1
  <2>6. Moved(Stream(hw, "mse"), Tail(w), c + 1, n)'
    <3>1. Tail(w) \in Seq(Byte) /\ Woven(Stream(hw', "mse"), Tail(w)) /\ packet' \in Seq(Byte)
      BY <1>1, <1>5, <1>7, <2>5
    <3>2. Ahead(Tail(w), Emitted(moves'), c + 1, Len(packet'))
      BY <2>5
    <3>3. \A x \in 1 .. Len(packet') : packet'[x] = Packets[c + 1][x]
      BY <2>5
    <3> QED BY <2>4, <3>1, <3>2, <3>3 DEF Moved
  <2> QED BY <2>6 DEF MouseMoved
<1> QED BY <1>11, <1>12


\* The mouse's packet and events change in its callback only.
LEMMA PacketStill ==
  ASSUME [Next]_<<vars, machine>>
  PROVE  \/ UNCHANGED <<packet, mse_events>>
         \/ \E irq, from : Called("mse", irq, from)
<1>1. CASE Aside \/ Buffers \/ Drain \/ Fill \/ Type \/ Move
             \/ \E l \in Questions : Send(l) \/ Read(l) \/ GiveUp(l)
  BY <1>1, AsideCalm DEF Calm, Buffers, Buffer, Drain, Fill, Type, Move, Send, Read, GiveUp, Answered,
                         drvVars
<1>2. ASSUME NEW d, NEW irq, NEW from, Called(d, irq, from)
      PROVE  UNCHANGED <<packet, mse_events>> \/ Called("mse", irq, from)
  <2>1. CASE d = "kbd"
    BY <1>2, <2>1 DEF Called, Callback, KeyboardCallback
  <2>2. CASE d # "kbd"
    <3>1. d = "mse"
      BY <1>2, <2>2 DEF Called
    <3> QED BY <1>2, <3>1
  <2> QED BY <2>1, <2>2
<1> QED BY <1>1, <1>2, Shapes

\* A callback reads a byte of its device, or none.
LEMMA OwnByte ==
  ASSUME Kinds, TwoIsKbds(hw), NEW d \in {"kbd", "mse"}, NEW v, NEW from, Callback(d, v, from),
         "stray" \notin odd'
  PROVE  \E h \in Hardware :
           /\ h = hw \/ ~hw.obf.full
           /\ \A e \in {"kbd", "mse"} : Stream(h, e) = Stream(hw, e)
           /\ \A e \in {"kbd", "mse"} \ {d} : ~Holds(h, e)
           /\ Holds(h, d) => h.obf.byte \in Input
           /\ hw' = Emptied(h)
           /\ \E byte : /\ IF d = "kbd" THEN KeyboardCallback(byte) ELSE MouseCallback(byte)
                        /\ byte = IF Holds(h, d) THEN h.obf.byte ELSE Timeout
<1>1. PICK h, byte :
        /\ h \in Hardware
        /\ h = hw \/ (~hw.obf.full /\ h \in Fillings(hw))
        /\ \A e \in {"kbd", "mse"} : Stream(h, e) = Stream(hw, e)
        /\ byte = IF h.obf.full THEN h.obf.byte ELSE Timeout
        /\ IF d = "kbd" THEN KeyboardCallback(byte) ELSE MouseCallback(byte)
        /\ hw' = Emptied(h)
        /\ ~Strays(d, h, byte)
  BY CallbackRead
<1>2. h.obf.byte \in Byte /\ h.obf.byte # Timeout
  <2>1. h.obf.byte \in Byte
    BY <1>1 DEF Hardware
  <2> QED BY <2>1, TimeoutNoByte
<1>3. h.obf.full => h.obf.from = d /\ h.obf.byte \in Input
  BY <1>1, <1>2 DEF Strays
<1>4. /\ \A e \in {"kbd", "mse"} \ {d} : ~Holds(h, e)
      /\ Holds(h, d) => h.obf.byte \in Input
      /\ byte = IF Holds(h, d) THEN h.obf.byte ELSE Timeout
  BY <1>1, <1>3 DEF Holds
<1>5. h = hw \/ ~hw.obf.full
  BY <1>1
<1>6. \E b : /\ IF d = "kbd" THEN KeyboardCallback(b) ELSE MouseCallback(b)
             /\ b = IF Holds(h, d) THEN h.obf.byte ELSE Timeout
  BY <1>1, <1>4
<1> QED BY <1>1, <1>4, <1>5, <1>6

\* The rest of a packet was dropped: kmain takes its beginning for the answer.
LEMMA DoomedStep ==
  ASSUME Inv, Kinds, Masks, TwoIsKbds(hw), Doomed, [Next]_<<vars, machine>>, "stray" \notin odd'
  PROVE  Doomed'
<1>0. /\ hw \in Hardware /\ pc = "mouse" /\ stage # "send" /\ hw.obf.full /\ hw.obf.from = "mse"
      /\ hw.obf.byte \in Input /\ Holds(hw, "mse")
  BY DEF Doomed, Holds, Kinds
<1>1. CASE hw'.obf = hw.obf /\ pc' = pc /\ stage' # "send"
  BY <1>0, <1>1 DEF Doomed, Holds
<1>2. CASE Aside
  <2>1. hw' = hw
    BY <1>2, AsideCalm DEF Calm
  <2>2. pc' = pc /\ stage' # "send"
    <3>1. ~(IdtInit \/ PicInit \/ UsePic \/ PitInit \/ SleepStart \/ StartTimer)
      BY <1>0 DEF IdtInit, PicInit, PicStep, UsePic, UseController, PitInit, SleepStart, StartTimer, At
    <3>2. ~(PicDisable \/ Registers \/ UseApic \/ LoopFaults)
      BY <1>0 DEF PicDisable, PicStep, Registers, RegisterLine, UseApic, UseController, LoopFaults, At
    <3>3. ~(Unmask("unmask 1", 1, "kbd cap") \/ Unmask("unmask 12", 12, "mse cap"))
      BY <1>0 DEF Unmask, At
    <3>4. HandlerFaults \/ Ticks \/ UNCHANGED <<vars, machine>> \/ Interrupt => UNCHANGED <<pc, stage>>
      BY DEF HandlerFaults, Ticks, vars, Interrupt
    <3>5. (\E l \in Questions : Wait(l)) => pc' = pc /\ stage' = "read"
      BY DEF Wait
    <3> QED BY <1>0, <1>2, <3>1, <3>2, <3>3, <3>4, <3>5 DEF Aside
  <2> QED BY <1>1, <2>1, <2>2
<1>3. ~(Buffers \/ Drain)
  BY <1>0 DEF Buffers, Buffer, Drain, At
<1>4. ~Fill
  BY <1>0, FillFacts DEF Fill
<1>5. CASE Type
  <2>1. PICK s \in Strokes : Longer(hw, hw', "kbd", s)
    BY <1>5, TypeFacts
  <2>2. s \in Seq(Byte)
    BY StrokeFacts
  <2>3. hw'.obf = hw.obf
    BY <1>0, <2>1, <2>2, SentMore
  <2>4. UNCHANGED <<pc, stage>>
    BY <1>5 DEF Type
  <2> QED BY <1>0, <1>1, <2>3, <2>4
<1>6. CASE Move
  <2>1. Longer(hw, hw', "mse", Packets[moves + 1]) /\ moves + 1 \in 1 .. Len(Packets)
    BY <1>6, MoveFacts
  <2>2. Packets[moves + 1] \in Seq(Byte)
    BY <2>1, PacketFacts
  <2>3. hw'.obf = hw.obf
    BY <1>0, <2>1, <2>2, SentMore
  <2>4. UNCHANGED <<pc, stage>>
    BY <1>6 DEF Move
  <2> QED BY <1>0, <1>1, <2>3, <2>4
<1>7. ~\E l \in Questions : Send(l) \/ GiveUp(l)
  BY <1>0 DEF Send, GiveUp
<1>8. ~\E l \in Questions : Read(l)
  BY <1>0, ReadFacts
<1>9. ASSUME NEW d, NEW irq, NEW from, Called(d, irq, from) PROVE FALSE
  <2>1. d = "kbd" /\ Callback(d, Vector(irq), from)
    BY <1>0, <1>9, CalledFacts DEF MouseOn, Called
  <2>2. PICK h \in Hardware : /\ h = hw \/ ~hw.obf.full
                              /\ \A e \in {"kbd", "mse"} \ {"kbd"} : ~Holds(h, e)
    BY <2>1, OwnByte
  <2> QED BY <1>0, <2>2
<1> QED BY <1>2, <1>3, <1>4, <1>5, <1>6, <1>7, <1>8, <1>9, Shapes

LEMMA MovedStep ==
  ASSUME Inv, Kinds, Masks, Reading, TwoIsKbds(hw), MouseMoved, Onward, [Next]_<<vars, machine>>,
         "stray" \notin odd', pc \notin MouseOn => packet = <<>>, ring.mse # "ready" => mse_events = <<>>
  PROVE  MouseMoved' \/ (Doomed' /\ mse_events' = <<>>)
<1>0. hw \in Hardware /\ machine \in Machine /\ mse_events \in Seq(PacketKind)
  <2>1. PICK w, c, k : Moved(Stream(hw, "mse"), w, c, k)
    BY DEF MouseMoved
  <2>2. /\ moves \in 0 .. Len(Packets) /\ Len(Packets) \in Nat /\ Len(Emitted(moves)) = moves
    BY PacketFacts, EmittedFacts DEF Kinds, Parts
  <2>3. c \in 1 .. moves + 1 /\ k \in 1 .. c /\ mse_events = SubSeq(Packets, k, c - 1)
    BY <2>1, <2>2 DEF Moved, Ahead
  <2>4. k \in 1 .. Len(Packets) + 1 /\ c \in 1 .. Len(Packets) + 1 /\ k <= c
    BY <2>2, <2>3
  <2>5. SubSeq(Packets, k, c - 1) \in Seq(PacketKind)
    BY <2>4, PacketRuns
  <2> QED BY <2>3, <2>5 DEF Kinds
<1>1. CASE MouseSame
  BY <1>1, MouseSameMoved
<1>2. CASE Aside \/ Buffers \/ \E l \in Questions : GiveUp(l)
  <2>1. hw' = hw /\ UNCHANGED <<moves, packet, mse_events>>
    BY <1>2, AsideCalm DEF Calm, Buffers, Buffer, Go, GiveUp, Answered, Rest, drvVars
  <2> QED BY <1>1, <2>1 DEF MouseSame
<1>3. CASE Drain
  <2> DEFINE h == Clocks(hw, FALSE, FALSE)
  <2>0. h \in Hardware /\ Stream(h, "mse") = Stream(hw, "mse")
    BY <1>0, PlainWrites, PlainStream
  <2>1. UNCHANGED <<moves, packet, mse_events>>
    BY <1>3 DEF Drain, Rest, drvVars
  <2>2. hw' = h \/ BecomesRead(Emptied(h))
    BY <1>3 DEF Drain, Becomes, BecomesNoting
  <2> HIDE DEF h
  <2>3. CASE hw' = h
    BY <1>1, <2>0, <2>1, <2>3 DEF MouseSame
  <2>4. CASE BecomesRead(Emptied(h))
    <3>1. hw' = Emptied(h)
      BY <2>4 DEF BecomesRead, BecomesNoting
    <3>2. h.obf.byte \notin Input
      <4>1. Emptied(h).obf.byte = h.obf.byte
        BY <2>0, EmptiedFacts
      <4> QED BY <2>4, <4>1 DEF BecomesRead, BecomesNoting
    <3> QED BY <2>0, <2>1, <3>1, <3>2, MouseTaken
  <2> QED BY <2>2, <2>3, <2>4
<1>4. CASE Fill
  <2>1. hw' \in Fillings(hw) /\ UNCHANGED <<moves, packet, mse_events>>
    BY <1>4 DEF Fill, Becomes, BecomesNoting, Rest, drvVars
  <2>2. Stream(hw', "mse") = Stream(hw, "mse")
    BY <1>0, <2>1, FillFacts
  <2> QED BY <1>1, <2>1, <2>2 DEF MouseSame
<1>5. CASE Type
  <2>1. PICK s \in Strokes : Longer(hw, hw', "kbd", s)
    BY <1>5, TypeFacts
  <2>2. s \in Seq(Byte)
    BY StrokeFacts
  <2>3. Stream(hw', "mse") = Stream(hw, "mse")
    BY <1>0, <2>1, <2>2, SentMore
  <2>4. UNCHANGED <<moves, packet, mse_events>>
    BY <1>5, TypeFacts DEF drvVars
  <2> QED BY <1>1, <2>3, <2>4 DEF MouseSame
<1>6. CASE Move
  BY <1>6, MouseMore
<1>7. ASSUME NEW l \in Questions, Send(l) PROVE MouseMoved' \/ (Doomed' /\ mse_events' = <<>>)
  <2>1. /\ hw' = Sent(l) /\ pc = l /\ stage = "send" /\ UNCHANGED <<moves, packet, mse_events>>
    BY <1>7 DEF Send, At, Becomes, BecomesNoting, Rest, drvVars
  <2>2. CASE l = "mouse"
    <3>1. packet = <<>>
      BY <2>1, <2>2 DEF MouseOn
    <3>2. mse_events = <<>>
      BY <2>1, <2>2 DEF Reading
    <3> QED BY <1>7, <2>2, <3>1, <3>2, MouseAsked
  <2>3. CASE l \in {"reset", "F0", "00"}
    <3>1. PICK s \in {<<ACK, "AA">>, <<ACK>>, <<ACK, "02">>} : Replied(hw, hw', "kbd", s)
      BY <1>0, <2>1, <2>3, SentFacts
    <3>2. hw'.obf = hw.obf /\ hw'["mse"] = hw["mse"]
      BY <3>1 DEF Replied
    <3>3. Stream(hw', "mse") = Stream(hw, "mse")
      BY <3>2 DEF Stream, Holds
    <3> QED BY <1>1, <2>1, <3>3 DEF MouseSame
  <2>4. CASE l \notin {"reset", "F0", "00", "mouse"}
    <3>1. Plain(hw, hw')
      BY <1>0, <2>1, <2>4, SentFacts
    <3>2. Stream(hw', "mse") = Stream(hw, "mse")
      BY <3>1, PlainStream
    <3> QED BY <1>1, <2>1, <3>2 DEF MouseSame
  <2> QED BY <2>2, <2>3, <2>4
<1>8. ASSUME NEW l \in Questions, Read(l) PROVE MouseMoved'
  <2>1. hw' = Emptied(hw) /\ hw.obf.byte \notin Input
    BY <1>8, ReadFacts
  <2>2. UNCHANGED <<moves, packet, mse_events>>
    BY <1>8 DEF Read, Answered, Rest
  <2> QED BY <1>0, <2>1, <2>2, MouseTaken
<1>9. ASSUME NEW d, NEW irq, NEW from, Called(d, irq, from) PROVE MouseMoved'
  <2>0. Callback(d, Vector(irq), from) /\ moves' = moves /\ d \in {"kbd", "mse"}
    BY <1>9, CalledFacts DEF Called, Interrupt, Rest
  <2>1. PICK h \in Hardware :
           /\ \A e \in {"kbd", "mse"} : Stream(h, e) = Stream(hw, e)
           /\ \A e \in {"kbd", "mse"} \ {d} : ~Holds(h, e)
           /\ Holds(h, d) => h.obf.byte \in Input
           /\ hw' = Emptied(h)
           /\ \E byte : /\ IF d = "kbd" THEN KeyboardCallback(byte) ELSE MouseCallback(byte)
                        /\ byte = IF Holds(h, d) THEN h.obf.byte ELSE Timeout
    BY <2>0, OwnByte
  <2>2. CASE d = "kbd"
    <3>1. ~Holds(h, "mse")
      BY <2>1, <2>2
    <3>2. Stream(hw', "mse") = Stream(hw, "mse")
      BY <2>1, <3>1, TakenFacts
    <3>3. UNCHANGED <<packet, mse_events>>
      BY <2>1, <2>2 DEF KeyboardCallback
    <3>4. MouseSame
      BY <2>0, <3>2, <3>3 DEF MouseSame
    <3> QED BY <3>4, MouseSameMoved
  <2>3. CASE d = "mse" /\ ~Holds(h, "mse")
    <3>1. MouseCallback(Timeout)
      BY <2>1, <2>3
    <3>2. packet' = packet /\ mse_events' = Written(mse_events, "mse", <<>>)
      BY <3>1 DEF MouseCallback
    <3>3. mse_events' = mse_events
      BY <1>0, <3>2 DEF Written
    <3>4. Stream(hw', "mse") = Stream(hw, "mse")
      BY <2>1, <2>3, TakenFacts
    <3>5. MouseSame
      BY <2>0, <3>2, <3>3, <3>4 DEF MouseSame
    <3> QED BY <3>5, MouseSameMoved
  <2>4. CASE d = "mse" /\ Holds(h, "mse")
    <3>1. MouseCallback(h.obf.byte) /\ h.obf.byte \in Input
      BY <2>1, <2>4
    <3>2. Asked'
      <4>1. pc \in MouseOn
        BY <1>9, <2>4, CalledFacts
      <4> QED BY <4>1 DEF Asked, Onward
    <3> QED BY <2>0, <2>1, <2>4, <3>1, <3>2, MouseCalled
  <2> QED BY <2>0, <2>2, <2>3, <2>4
<1> QED BY <1>2, <1>3, <1>4, <1>5, <1>6, <1>7, <1>8, <1>9, Shapes


\* A buffer set up stays so.
LEMMA ReadyStays ==
  ASSUME Kinds, Reading, [Next]_<<vars, machine>>
  PROVE  ring.mse = "ready" => ring'.mse = "ready"
<1> SUFFICES ASSUME ring.mse = "ready" PROVE ring'.mse = "ready"
  OBVIOUS
<1>0. pc = "loop"
  BY DEF Reading
<1>1. ~Buffers
  BY <1>0 DEF Buffers, Buffer, At
<1>2. CASE Aside \/ Drain \/ Fill \/ Type \/ Move \/ \E l \in Questions : Send(l) \/ Read(l) \/ GiveUp(l)
  BY <1>2, AsideCalm DEF Calm, Drain, Fill, Type, Move, Send, Read, GiveUp, Answered, drvVars
<1>3. ASSUME NEW d, NEW irq, NEW from, Called(d, irq, from) PROVE ring' = ring
  BY <1>3 DEF Called, Callback, KeyboardCallback, MouseCallback
<1> QED BY <1>1, <1>2, <1>3, Shapes


\* The packets and the mouse's events stay whole and in order.
LEMMA MouseOrderStep ==
  ASSUME Inv, Kinds, Masks, Reading, TwoIsKbds(hw), MouseOrder, Onward, [Next]_<<vars, machine>>
  PROVE  MouseOrder'
<1> SUFFICES ASSUME "stray" \notin odd'
             PROVE  /\ pc' \notin MouseOn => packet' = <<>>
                    /\ ring'.mse # "ready" => mse_events' = <<>>
                    /\ MouseMoved' \/ (Doomed' /\ mse_events' = <<>>)
  BY DEF MouseOrder, MouseMoved, Moved
<1>0. /\ "stray" \notin odd
      /\ pc \notin MouseOn => packet = <<>>
      /\ ring.mse # "ready" => mse_events = <<>>
      /\ MouseMoved \/ (Doomed /\ mse_events = <<>>)
  BY OddKept DEF MouseOrder, MouseMoved, Moved
<1>1. UNCHANGED <<packet, mse_events>> \/ \E irq, from : Called("mse", irq, from)
  BY PacketStill
<1>2. (\E irq, from : Called("mse", irq, from)) => pc \in MouseOn
  BY CalledFacts
<1>3. pc' \notin MouseOn => packet' = <<>>
  BY <1>0, <1>1, <1>2 DEF Onward
<1>4. ring'.mse # "ready" => mse_events' = <<>>
  <2>1. ring.mse = "ready" => ring'.mse = "ready"
    BY ReadyStays
  <2>2. ASSUME NEW irq, NEW from, Called("mse", irq, from), ring.mse # "ready"
        PROVE  mse_events' = <<>>
    <3>1. \E byte : MouseCallback(byte)
      BY <2>2 DEF Called, Callback
    <3>2. mse_events' = mse_events
      BY <2>2, <3>1 DEF MouseCallback, Written
    <3> QED BY <1>0, <2>2, <3>2
  <2> QED BY <1>0, <1>1, <2>1, <2>2
<1>5. CASE Doomed /\ mse_events = <<>>
  <2>1. Doomed'
    BY <1>5, DoomedStep
  <2>2. mse_events' = <<>>
    <3>1. pc \notin MouseOn
      BY <1>5 DEF Doomed, MouseOn
    <3> QED BY <1>1, <1>2, <1>5, <3>1
  <2> QED BY <1>3, <1>4, <2>1, <2>2
<1>6. CASE MouseMoved
  BY <1>0, <1>3, <1>4, <1>6, MovedStep
<1> QED BY <1>0, <1>5, <1>6

-----------------------------------------------------------------------------
(* All of it.                                                               *)

LEMMA InitBytes == Init => BytesInv
<1> SUFFICES ASSUME Init PROVE BytesInv
  OBVIOUS
<1>0. Inv /\ machine \in Machine
  BY InitInv, MachineFacts DEF Init
<1>1. /\ hw = [obf |-> Empty, answers |-> <<>>, kbd |-> <<>>, mse |-> <<>>,
               clock |-> [kbd |-> TRUE, mse |-> TRUE], int |-> [kbd |-> TRUE, mse |-> FALSE],
               reporting |-> machine.reports]
      /\ scancode_set = "0" /\ decoder = [released |-> FALSE, extended |-> FALSE]
      /\ packet = <<>> /\ ring = [kbd |-> "zeroed", mse |-> "zeroed"]
      /\ kbd_events = <<>> /\ mse_events = <<>>
      /\ pc = "idt_init" /\ stage = "send" /\ typed = <<>> /\ moves = 0
  BY DEF Init, Ps2Init
<1>2. Len(Packets) \in Nat
  BY PacketsAssumption
<1>3. hw \in Hardware
  BY <1>0, <1>1 DEF Hardware, Machine, Empty, Byte
<1>4. Kinds
  BY <1>0, <1>1, <1>2, <1>3 DEF Kinds
<1>5. Stream(hw, "kbd") = <<>> /\ Stream(hw, "mse") = <<>>
  <2>1. ~hw.obf.full /\ hw["kbd"] = <<>> /\ hw["mse"] = <<>>
    BY <1>1 DEF Empty
  <2> QED BY <2>1 DEF Stream, Holds
<1>6. Masks /\ Latched /\ Edge
  BY <1>1 DEF Init, IntInit, PicSilent, IoapicSilent, Masks, Latched, Edge, Early
<1>7. Reading
  BY <1>1 DEF Reading, Questions
<1>8. TwoIsKbds(hw)
  BY <1>1, <1>5 DEF TwoIsKbds, NoTwo, Empty
<1>9. SetAnswer
  BY <1>1, <1>5 DEF SetAnswer, Told, NoTwo
<1>10. KeyOrder
  BY <1>1 DEF KeyOrder
<1>11. MouseOrder
  <2>1. Emitted(0) \in Parts(Byte) /\ Len(Emitted(0)) = 0
    BY <1>2, EmittedFacts
  <2>2. Ahead(<<>>, Emitted(0), Len(Emitted(0)) + 1, 0)
    BY <2>1, AheadNone
  <2>3. Ahead(<<>>, Emitted(0), 1, 0)
    BY <2>1, <2>2
  <2>4. Moved(<<>>, <<>>, 1, 1)
    BY <1>1, <1>2, <2>3, PacketRuns DEF Moved, Woven
  <2>5. MouseMoved
    BY <1>5, <2>4 DEF MouseMoved
  <2> QED BY <1>1, <2>5 DEF MouseOrder, MouseMoved, Moved
<1> QED BY <1>0, <1>4, <1>6, <1>7, <1>8, <1>9, <1>10, <1>11 DEF BytesInv

LEMMA NextBytes == BytesInv /\ [Next]_<<vars, machine>> => BytesInv'
<1> SUFFICES ASSUME BytesInv, [Next]_<<vars, machine>> PROVE BytesInv'
  OBVIOUS
<1>0. /\ Inv /\ Kinds /\ Masks /\ Reading /\ Latched /\ TwoIsKbds(hw)
      /\ Edge /\ SetAnswer /\ KeyOrder /\ MouseOrder
  BY DEF BytesInv
<1>1. Inv' /\ Onward
  BY <1>0, NextInv, OnwardStep
<1>2. Kinds' /\ hw' \in Hardware /\ TwoIsKbds(hw')
  BY <1>0, KindsStep, HardwareStep
<1>3. Masks' /\ Reading' /\ Latched'
  BY <1>0, <1>1, MasksStep, ReadingStep, LatchedStep
<1>4. Edge'
  BY <1>0, <1>1, EdgeStep
<1>5. SetAnswer'
  BY <1>0, <1>1, SetAnswerStep
<1>6. KeyOrder'
  BY <1>0, <1>1, KeyOrderStep
<1>7. MouseOrder'
  BY <1>0, <1>1, MouseOrderStep
<1> QED BY <1>1, <1>2, <1>3, <1>4, <1>5, <1>6, <1>7 DEF BytesInv

LEMMA BytesFaithful == BytesInv => EventsFaithful
<1> SUFFICES ASSUME BytesInv, "stray" \notin odd
             PROVE  Within(kbd_events, Meanings) /\ Within(mse_events, Packets)
  BY DEF EventsFaithful, Meanings
<1>0. /\ Kinds /\ KeyOrder /\ MouseOrder /\ SetAnswer
      /\ moves \in 0 .. Len(Packets) /\ Len(Packets) \in Nat
  BY PacketsAssumption DEF BytesInv, Kinds
<1>1. Len(Meanings) = Len(typed) /\ Len(typed) \in Nat
  BY <1>0, MeaningsFacts
<1>2. SubSeq(Meanings, 1, 0) = <<>> /\ SubSeq(Packets, 1, 0) = <<>>
  <2>1. SubSeq(Meanings, 1, 1 - 1) = <<>>
    BY <1>0, <1>1, MeaningsRuns
  <2>2. SubSeq(Packets, 1, 1 - 1) = <<>>
    BY <1>0, PacketRuns
  <2> QED BY <2>1, <2>2
<1>3. Within(kbd_events, Meanings)
  <2>1. CASE kbd_events = <<>>
    BY <1>1, <1>2, <2>1 DEF Within
  <2>2. CASE kbd_events # <<>>
    <3>1. PICK c, o, f : /\ Ahead(Stream(hw, "kbd"), typed, c, o)
                         /\ f \in 1 .. c /\ kbd_events = SubSeq(Meanings, f, c - 1)
      BY <1>0, <2>2 DEF KeyOrder
    <3>2. c \in 1 .. Len(typed) + 1
      BY <3>1 DEF Ahead
    <3>3. f \in 1 .. Len(typed) + 1 /\ c - 1 \in 0 .. Len(typed)
      BY <1>1, <3>1, <3>2
    <3> QED BY <1>1, <3>1, <3>3 DEF Within
  <2> QED BY <2>1, <2>2
<1>4. Within(mse_events, Packets)
  <2>1. CASE mse_events = <<>>
    BY <1>0, <1>2, <2>1 DEF Within
  <2>2. CASE mse_events # <<>>
    <3>1. PICK w, c, k : /\ Ahead(w, Emitted(moves), c, Len(packet))
                         /\ k \in 1 .. c /\ mse_events = SubSeq(Packets, k, c - 1)
      BY <1>0, <2>2 DEF MouseOrder
    <3>2. c \in 1 .. moves + 1
      BY <1>0, <3>1, EmittedFacts DEF Ahead
    <3>3. k \in 1 .. Len(Packets) + 1 /\ c - 1 \in 0 .. Len(Packets)
      BY <1>0, <3>1, <3>2
    <3> QED BY <3>1, <3>3 DEF Within
  <2> QED BY <2>1, <2>2
<1> QED BY <1>3, <1>4

\* EventsFaithful: the events are the keys typed and the movements made, whole, in order and
\* without a gap, for any strokes and packets and however many of them, unless a byte
\* went to another reader than its own.
THEOREM EventsInOrder == Spec => []EventsFaithful
<1> QED BY InitBytes, NextBytes, BytesFaithful, PTL DEF Spec


-----------------------------------------------------------------------------
(* Start-up comes up: what is on its way while kmain polls.                 *)

\* Nothing typed, moved or late before the loop, and nothing read by the wrong reader.
Ordinary == odd \subseteq {"edge lost"}
Ready == machine.works /\ machine.dual

\* The controller's answers, the one in the output buffer first.
FromCtrl(h) == (IF Holds(h, "ctrl") THEN <<h.obf.byte>> ELSE <<>>) \o h.answers

\* What no one has read: of the controller, of the keyboard and of the mouse.
Coming(h, a, k, m) == FromCtrl(h) = a /\ Stream(h, "kbd") = k /\ Stream(h, "mse") = m
Idle(h) == Coming(h, <<>>, <<>>, <<>>)

\* A byte in the buffer has come from somewhere.
Sourced(h) == h.obf.full => h.obf.from # "none"

\* Lines and event buffers are as far as kmain is.
SetUp ==
  /\ machine.apic /\ pc \in Polling => interrupt_controller = "APIC"
  /\ machine.apic /\ pc \in KeysOn => 1 \in ioapic.open
  /\ machine.apic /\ (pc \in {"mse cap", "mse buf"} \/ ring.mse # "zeroed") => 12 \in ioapic.open
  /\ ring.kbd = "cap" <=> pc = "kbd buf"
  /\ ring.mse = "cap" <=> pc = "mse buf"
  /\ pc \in KeysReady => ring.kbd = "ready"

\* ps2_init: the ports are off, and the answer to the question asked is all there is.
Probes == {"config", "test", "dual", "test 1", "test 2", "config 2"}
Probing == pc \in Probes \/ (pc = "reset" /\ stage = "send")
Found == machine.dual /\ pc \notin {"config", "test"} /\ ~(pc = "dual" /\ stage = "send")
Port(b) == IF b THEN "port 2 on" ELSE "port 2 off"
Due ==
  IF stage = "send" \/ (pc = "test 2" /\ ~machine.dual) THEN <<>>
  ELSE IF pc = "test" THEN <<IF machine.works THEN "55" ELSE "FC">>
  ELSE IF pc \in {"test 1", "test 2"} THEN <<"00">>
  ELSE <<Port(Found)>>

Probe ==
  /\ Coming(hw, Due, <<>>, <<>>)
  /\ hw.clock = [kbd |-> FALSE, mse |-> Found]
  /\ pc \notin {"config", "test"} => machine.works
  /\ pc \in {"config 2", "reset"} => machine.dual
  /\ pc = "test 1" /\ stage = "send" => data = Port(machine.dual)

\* The keyboard's and the mouse's set-up: the device's answer is all there is.
Talking == (pc = "reset" /\ stage # "send") \/ pc \in {"F0", "00", "set"} \/ pc \in Late \ {"loop"}
KeysDue ==
  IF pc = "reset" THEN {<<ACK, "AA">>}
  ELSE IF pc = "F0" THEN IF stage = "send" THEN {<<"AA">>}
                         ELSE {<<"AA">> \o <<ACK>>} \cup IF machine.keeps THEN {} ELSE {<<ACK>>}
  ELSE IF pc = "00" /\ stage # "send" THEN {<<ACK, "02">>}
  ELSE IF pc = "set" THEN {<<"02">>} ELSE {<<>>}
MouseDue == IF pc = "mouse" /\ stage # "send" THEN <<ACK>> ELSE <<>>

Talk ==
  /\ \E k \in KeysDue : Coming(hw, <<>>, k, MouseDue)
  /\ hw.clock = [kbd |-> TRUE, mse |-> TRUE]
  /\ pc \notin {"reset", "F0"} => ~machine.keeps
  /\ pc \in Late => scancode_set = "02"
  /\ stage = "read" => hw.obf.full

\* The same with the ports off for good: nothing is ever answered.
Mute ==
  /\ FromCtrl(hw) = <<>> /\ ~hw.obf.full /\ stage # "read"
  /\ hw.clock = [kbd |-> FALSE, mse |-> FALSE]
  /\ pc \notin {"reset", "00", "set", "unmask 12", "mse cap", "mse buf"}
  /\ pc \in Late => scancode_set = Timeout

Up ==
  /\ Ready => scancode_set = "02" /\ ring.mse = "ready" /\ ~machine.keeps
  /\ ~Ready => scancode_set = Timeout

Scene ==
  /\ fault \in {"", "no mouse"} /\ (fault = "no mouse" => ~Ready /\ pc = "loop")
  /\ pc \notin Late => scancode_set = "0"
  /\ pc \in Setting \cup {"drain"} => Idle(hw)
  /\ Probing => Probe
  /\ Talking /\ Ready => Talk
  /\ Talking /\ ~Ready => Mute
  /\ pc = "loop" => Up

-----------------------------------------------------------------------------
LEMMA ClockFields ==
  ASSUME NEW c, NEW a, NEW b, c = [kbd |-> a, mse |-> b]
  PROVE  c.kbd = a /\ c.mse = b
OBVIOUS

\* What is coming, by where the bytes are.
LEMMA ComingWhere ==
  ASSUME NEW h \in Hardware, Sourced(h), NEW a, NEW k, NEW m, Coming(h, a, k, m)
  PROVE  /\ ~h.obf.full => h.answers = a /\ h.kbd = k /\ h.mse = m
         /\ h.obf.full => \/ a # <<>> /\ h.obf.byte = a[1] /\ Coming(Emptied(h), Tail(a), k, m)
                          \/ k # <<>> /\ h.obf.byte = k[1] /\ Coming(Emptied(h), a, Tail(k), m)
                          \/ m # <<>> /\ h.obf.byte = m[1] /\ Coming(Emptied(h), a, k, Tail(m))
<1>0. /\ h.answers \in Seq(Byte) /\ h.kbd \in Seq(Byte) /\ h.mse \in Seq(Byte) /\ h.obf.byte \in Byte
      /\ FromCtrl(h) = a /\ Stream(h, "kbd") = k /\ Stream(h, "mse") = m
  BY DEF Hardware, Coming
<1>1. /\ Holds(h, "ctrl") => a # <<>> /\ a[1] = h.obf.byte /\ Tail(a) = h.answers
      /\ ~Holds(h, "ctrl") => a = h.answers
  <2>1. CASE Holds(h, "ctrl")
    <3>1. a = <<h.obf.byte>> \o h.answers
      BY <1>0, <2>1 DEF FromCtrl
    <3> QED BY <1>0, <2>1, <3>1, SeqTwo
  <2>2. CASE ~Holds(h, "ctrl")
    <3>1. a = <<>> \o h.answers
      BY <1>0, <2>2 DEF FromCtrl
    <3> QED BY <1>0, <2>2, <3>1, SeqTwo
  <2> QED BY <2>1, <2>2
<1>2. /\ Holds(h, "kbd") => k # <<>> /\ k[1] = h.obf.byte /\ Tail(k) = h.kbd
      /\ ~Holds(h, "kbd") => k = h.kbd
  <2>1. h["kbd"] = h.kbd
    OBVIOUS
  <2> QED BY <1>0, <2>1, StreamFacts
<1>3. /\ Holds(h, "mse") => m # <<>> /\ m[1] = h.obf.byte /\ Tail(m) = h.mse
      /\ ~Holds(h, "mse") => m = h.mse
  <2>1. h["mse"] = h.mse
    OBVIOUS
  <2> QED BY <1>0, <2>1, StreamFacts
<1>4. ASSUME ~h.obf.full PROVE h.answers = a /\ h.kbd = k /\ h.mse = m
  BY <1>1, <1>2, <1>3, <1>4 DEF Holds
<1>5. Coming(Emptied(h), h.answers, h.kbd, h.mse)
  <2>1. /\ Stream(Emptied(h), "kbd") = h["kbd"] /\ Stream(Emptied(h), "mse") = h["mse"]
        /\ ~Emptied(h).obf.full
    BY EmptiedFacts
  <2>2. Emptied(h).answers = h.answers
    BY DEF Emptied, Hardware
  <2>3. FromCtrl(Emptied(h)) = h.answers
    <3>1. FromCtrl(Emptied(h)) = <<>> \o h.answers
      BY <2>1, <2>2 DEF FromCtrl, Holds
    <3> QED BY <1>0, <3>1, SeqTwo
  <2> QED BY <2>1, <2>3 DEF Coming
<1>6. ASSUME h.obf.full
      PROVE  \/ a # <<>> /\ h.obf.byte = a[1] /\ Coming(Emptied(h), Tail(a), k, m)
             \/ k # <<>> /\ h.obf.byte = k[1] /\ Coming(Emptied(h), a, Tail(k), m)
             \/ m # <<>> /\ h.obf.byte = m[1] /\ Coming(Emptied(h), a, k, Tail(m))
  <2>1. h.obf.from \in {"ctrl", "kbd", "mse"}
    BY <1>6 DEF Sourced, Hardware
  <2>2. CASE h.obf.from = "ctrl"
    BY <1>1, <1>2, <1>3, <1>5, <1>6, <2>2 DEF Holds
  <2>3. CASE h.obf.from = "kbd"
    BY <1>1, <1>2, <1>3, <1>5, <1>6, <2>3 DEF Holds
  <2>4. CASE h.obf.from = "mse"
    BY <1>1, <1>2, <1>3, <1>5, <1>6, <2>4 DEF Holds
  <2> QED BY <2>1, <2>2, <2>3, <2>4
<1> QED BY <1>4, <1>6

\* Nothing is coming: the buffer is empty.
LEMMA IdleEmpty ==
  ASSUME NEW h \in Hardware, Sourced(h), Idle(h)
  PROVE  ~h.obf.full /\ h.answers = <<>> /\ h.kbd = <<>> /\ h.mse = <<>>
BY ComingWhere DEF Idle

\* The buffer is read, or was empty already.
LEMMA EmptiedComing ==
  ASSUME NEW h \in Hardware, ~h.obf.full, NEW a, NEW k, NEW m, Coming(h, a, k, m)
  PROVE  Coming(Emptied(h), a, k, m)
<1>1. Emptied(h).answers = h.answers /\ ~Emptied(h).obf.full
  BY DEF Emptied, Hardware
<1>2. FromCtrl(Emptied(h)) = FromCtrl(h)
  BY <1>1 DEF FromCtrl, Holds
<1>3. \A d \in {"kbd", "mse"} : Stream(Emptied(h), d) = Stream(h, d)
  BY EmptiedFacts, StreamFacts DEF Holds
<1> QED BY <1>2, <1>3 DEF Coming

LEMMA EmptiedClock ==
  ASSUME NEW h \in Hardware
  PROVE  Emptied(h).clock = h.clock /\ ~Emptied(h).obf.full /\ Sourced(Emptied(h))
BY DEF Emptied, Hardware, Sourced

\* What the controller passes on.
LEMMA FillComing ==
  ASSUME NEW h \in Hardware, NEW g \in Fillings(h), NEW a, NEW k, NEW m, Coming(h, a, k, m)
  PROVE  Coming(g, a, k, m) /\ g.clock = h.clock /\ g.obf.full /\ g.obf.from # "none"
<1>0. ~h.obf.full /\ h.answers \in Seq(Byte) /\ FromCtrl(h) = a
  BY DEF Fillings, Coming, Hardware
<1>1. a = h.answers
  <2>1. a = <<>> \o h.answers
    BY <1>0 DEF FromCtrl, Holds
  <2> QED BY <1>0, <2>1, SeqTwo
<1>2. FromCtrl(g) = a /\ g.clock = h.clock /\ g.obf.full /\ g.obf.from # "none"
  <2>1. CASE h.answers # <<>>
    <3>1. g = [h EXCEPT !.obf = [full |-> TRUE, from |-> "ctrl", byte |-> Head(h.answers)],
                        !.answers = Tail(h.answers)]
      BY <1>0, <2>1 DEF Fillings, Hardware
    <3>2. /\ g.obf = [full |-> TRUE, from |-> "ctrl", byte |-> Head(h.answers)]
          /\ g.answers = Tail(h.answers) /\ g.clock = h.clock
      BY <3>1 DEF Hardware
    <3>3. FromCtrl(g) = <<Head(h.answers)>> \o Tail(h.answers)
      BY <3>2 DEF FromCtrl, Holds
    <3>4. FromCtrl(g) = a
      BY <1>0, <1>1, <2>1, <3>3, SeqTwo
    <3> QED BY <3>2, <3>4
  <2>2. CASE h.answers = <<>>
    <3>1. PICK d \in {"kbd", "mse"} :
            g = [h EXCEPT !.obf = [full |-> TRUE, from |-> d, byte |-> Head(h[d])], ![d] = Tail(@)]
      BY <1>0, <2>2 DEF Fillings
    <3>2. g.obf.full /\ g.obf.from = d /\ g.answers = h.answers /\ g.clock = h.clock
      BY <3>1 DEF Hardware
    <3>3. FromCtrl(g) = <<>> \o h.answers
      BY <3>2 DEF FromCtrl, Holds
    <3>4. FromCtrl(g) = a
      BY <1>0, <1>1, <3>3, SeqTwo
    <3> QED BY <3>2, <3>4
  <2> QED BY <2>1, <2>2
<1>3. Stream(g, "kbd") = k /\ Stream(g, "mse") = m
  BY FillFacts DEF Coming
<1> QED BY <1>2, <1>3 DEF Coming

\* When it passes something on.
LEMMA FillWhen ==
  ASSUME NEW h \in Hardware, Sourced(h), ~h.obf.full, NEW a, NEW k, NEW m, Coming(h, a, k, m)
  PROVE  /\ a # <<>> \/ (h.clock.kbd /\ k # <<>>) \/ (h.clock.mse /\ m # <<>>) => Fillings(h) # {}
         /\ a = <<>> /\ (k = <<>> \/ ~h.clock.kbd) /\ (m = <<>> \/ ~h.clock.mse) => Fillings(h) = {}
<1>1. h.answers = a /\ h.kbd = k /\ h.mse = m
  BY ComingWhere
<1>2. h["kbd"] = k /\ h["mse"] = m /\ h.clock["kbd"] = h.clock.kbd /\ h.clock["mse"] = h.clock.mse
  BY <1>1
<1> DEFINE on == {e \in {"kbd", "mse"} : h.clock[e] /\ h[e] # <<>>}
           F(d) == [h EXCEPT !.obf = [full |-> TRUE, from |-> d, byte |-> Head(h[d])], ![d] = Tail(@)]
<1>3. a # <<>> => Fillings(h) # {}
  BY <1>1 DEF Fillings
<1>4. a = <<>> => Fillings(h) = {F(d) : d \in on}
  BY <1>1 DEF Fillings
<1> HIDE DEF F
<1>5. (h.clock.kbd /\ k # <<>>) \/ (h.clock.mse /\ m # <<>>) => on # {}
  <2>1. h.clock.kbd /\ k # <<>> => "kbd" \in on
    BY <1>2
  <2>2. h.clock.mse /\ m # <<>> => "mse" \in on
    BY <1>2
  <2> HIDE DEF on
  <2> QED BY <2>1, <2>2
<1>6. (k = <<>> \/ ~h.clock.kbd) /\ (m = <<>> \/ ~h.clock.mse) => on = {}
  BY <1>2
<1> HIDE DEF on
<1>7. (on # {} => {F(d) : d \in on} # {}) /\ (on = {} => {F(d) : d \in on} = {})
  OBVIOUS
<1> QED BY <1>3, <1>4, <1>5, <1>6, <1>7

-----------------------------------------------------------------------------
\* What the writes to the controller leave to come.
Adds(h, g, answer) ==
  /\ g \in Hardware /\ g.obf = h.obf
  /\ \A k, m : Coming(h, <<>>, k, m) => Coming(g, answer, k, m)

LEMMA AnswerAdds ==
  ASSUME NEW h \in Hardware, NEW b \in Byte
  PROVE  Adds(h, Answer(h, b), <<b>>) /\ Answer(h, b).clock = h.clock
<1> DEFINE g == Answer(h, b)
<1>0. /\ h.answers \in Seq(Byte) /\ g.answers = Append(h.answers, b) /\ g.obf = h.obf
      /\ g.kbd = h.kbd /\ g.mse = h.mse /\ g.clock = h.clock /\ g \in Hardware
  <2>1. h.answers \in Seq(Byte) /\ Append(h.answers, b) \in Seq(Byte)
    BY DEF Hardware
  <2> QED BY <2>1 DEF Answer, Hardware
<1> HIDE DEF g
<1>1. Stream(g, "kbd") = Stream(h, "kbd") /\ Stream(g, "mse") = Stream(h, "mse")
  BY <1>0 DEF Stream, Holds
<1>2. ASSUME FromCtrl(h) = <<>> PROVE FromCtrl(g) = <<b>>
  <2>1. ~Holds(h, "ctrl")
    <3>1. SUFFICES ASSUME Holds(h, "ctrl") PROVE FALSE
      OBVIOUS
    <3>2. FromCtrl(h) = <<h.obf.byte>> \o h.answers /\ h.obf.byte \in Byte
      BY <3>1 DEF FromCtrl, Hardware
    <3> QED BY <1>0, <1>2, <3>2, SeqTwo
  <2>2. h.answers = <<>>
    <3>1. FromCtrl(h) = <<>> \o h.answers
      BY <2>1 DEF FromCtrl
    <3> QED BY <1>0, <1>2, <3>1, SeqTwo
  <2>3. FromCtrl(g) = <<>> \o g.answers
    BY <1>0, <2>1 DEF FromCtrl, Holds
  <2>4. g.answers = <<b>>
    BY <1>0, <2>2
  <2> QED BY <2>3, <2>4
<1> QED BY <1>0, <1>1, <1>2 DEF Adds, Coming, g

LEMMA WritesAdd ==
  ASSUME NEW h \in Hardware, NEW b \in BOOLEAN, NEW c \in BOOLEAN
  PROVE  /\ Adds(h, Clocks(h, b, c), <<>>) /\ Clocks(h, b, c).clock = [kbd |-> b, mse |-> c]
         /\ Adds(h, Ints(h, b, c), <<>>) /\ Ints(h, b, c).clock = h.clock
         /\ Adds(h, h, <<>>)
<1>1. ASSUME NEW g \in Hardware, g.obf = h.obf, g.answers = h.answers, g.kbd = h.kbd, g.mse = h.mse
      PROVE  Adds(h, g, <<>>)
  BY <1>1 DEF Adds, Coming, FromCtrl, Stream, Holds
<1>2. Adds(h, Clocks(h, b, c), <<>>) /\ Clocks(h, b, c).clock = [kbd |-> b, mse |-> c]
  <2> DEFINE g == Clocks(h, b, c)
  <2>1. /\ g \in Hardware /\ g.obf = h.obf /\ g.answers = h.answers /\ g.kbd = h.kbd /\ g.mse = h.mse
        /\ g.clock = [kbd |-> b, mse |-> c]
    BY DEF Clocks, Hardware
  <2> HIDE DEF g
  <2> QED BY <1>1, <2>1 DEF g
<1>3. Adds(h, Ints(h, b, c), <<>>) /\ Ints(h, b, c).clock = h.clock
  <2> DEFINE g == Ints(h, b, c)
  <2>1. /\ g \in Hardware /\ g.obf = h.obf /\ g.answers = h.answers /\ g.kbd = h.kbd /\ g.mse = h.mse
        /\ g.clock = h.clock
    BY DEF Ints, Hardware
  <2> HIDE DEF g
  <2> QED BY <1>1, <2>1 DEF g
<1> QED BY <1>1, <1>2, <1>3

LEMMA AddsTwice ==
  ASSUME NEW h, NEW g, NEW f, NEW s, Adds(h, g, <<>>), Adds(g, f, s)
  PROVE  Adds(h, f, s)
BY DEF Adds

LEMMA ConfigAdds ==
  ASSUME NEW h \in Hardware
  PROVE  Adds(h, ReadConfig(h), <<Port(h.clock.mse)>>) /\ ReadConfig(h).clock = h.clock
<1>1. ReadConfig(h) = Answer(h, Port(h.clock.mse))
  BY DEF ReadConfig, Port
<1>2. Port(h.clock.mse) \in Byte
  BY DEF Port, Byte, Answers
<1> QED BY <1>1, <1>2, AnswerAdds

\* A device's answer, with nothing of it coming, or with one byte.
Asks(h, g, d, bytes, keep) ==
  /\ g \in Hardware /\ g.obf = h.obf /\ g.clock = h.clock /\ FromCtrl(g) = FromCtrl(h)
  /\ \A e \in {"kbd", "mse"} \ {d} : Stream(g, e) = Stream(h, e)
  /\ Stream(h, d) = <<>> => Stream(g, d) = bytes
  /\ \A b \in Byte : Stream(h, d) = <<b>> =>
       Stream(g, d) = <<b>> \o bytes \/ (~keep /\ Stream(g, d) = bytes)

LEMMA ReplyAsks ==
  ASSUME NEW h \in Hardware, NEW d \in {"kbd", "mse"}, NEW bytes \in Seq(Byte), NEW keep \in BOOLEAN
  PROVE  Asks(h, Reply(h, d, bytes, keep), d, bytes, keep)
<1> DEFINE g == Reply(h, d, bytes, keep)
           rest == IF keep THEN h[d] ELSE <<>>
<1>0. h[d] \in Seq(Byte) /\ h.obf.byte \in Byte
  BY StreamFacts DEF Hardware
<1>1. rest \in Seq(Byte) /\ rest \o bytes \in Seq(Byte)
  BY <1>0
<1>2. /\ g \in Hardware /\ g.obf = h.obf /\ g.answers = h.answers /\ g.clock = h.clock
      /\ g[d] = rest \o bytes /\ \A e \in {"kbd", "mse"} \ {d} : g[e] = h[e]
  <2>1. CASE d = "kbd"
    BY <2>1, <1>1 DEF Reply, Hardware
  <2>2. CASE d = "mse"
    BY <2>2, <1>1 DEF Reply, Hardware
  <2> QED BY <2>1, <2>2
<1>3. (keep => rest = h[d]) /\ (~keep => rest = <<>>)
  OBVIOUS
<1> HIDE DEF g, rest
<1>4. /\ FromCtrl(g) = FromCtrl(h) /\ (\A e : Holds(g, e) <=> Holds(h, e))
      /\ \A e \in {"kbd", "mse"} \ {d} : Stream(g, e) = Stream(h, e)
  BY <1>2 DEF FromCtrl, Stream, Holds
<1>5. ASSUME Stream(h, d) = <<>> PROVE Stream(g, d) = bytes
  <2>1. ~Holds(h, d) /\ h[d] = <<>>
    BY <1>5, StreamFacts
  <2>2. rest = <<>> /\ rest \o bytes = bytes
    BY <1>3, <2>1, SeqTwo
  <2>3. Stream(g, d) = g[d]
    BY <1>2, <1>4, <2>1, StreamFacts
  <2> QED BY <1>2, <2>2, <2>3
<1>6. ASSUME NEW b \in Byte, Stream(h, d) = <<b>>
      PROVE  Stream(g, d) = <<b>> \o bytes \/ (~keep /\ Stream(g, d) = bytes)
  <2>1. CASE Holds(h, d)
    <3>1. h.obf.byte = b /\ h[d] = <<>>
      <4>1. <<b>>[1] = b /\ Tail(<<b>>) = <<>>
        OBVIOUS
      <4> QED BY <1>6, <2>1, <4>1, StreamFacts
    <3>2. rest \o bytes = bytes
      BY <1>3, <3>1, SeqTwo
    <3>3. Stream(g, d) = <<b>> \o bytes
      BY <1>2, <1>4, <2>1, <3>1, <3>2 DEF Stream
    <3> QED BY <3>3
  <2>2. CASE ~Holds(h, d)
    <3>1. h[d] = <<b>> /\ Stream(g, d) = rest \o bytes
      BY <1>2, <1>4, <1>6, <2>2, StreamFacts
    <3>2. ~keep => rest \o bytes = bytes
      BY <1>3, SeqTwo
    <3> QED BY <1>3, <3>1, <3>2
  <2> QED BY <2>1, <2>2
<1> QED BY <1>2, <1>4, <1>5, <1>6 DEF Asks, g

-----------------------------------------------------------------------------
\* What is unusual stays noted.
LEMMA OrdinaryKept ==
  ASSUME [Next]_<<vars, machine>>, Ordinary'
  PROVE  Ordinary
<1>0. \A h, what : BecomesNoting(h, what) => odd \subseteq odd' \cup {"edge lost"}
  BY DEF BecomesNoting, Kept
<1>1. CASE IdtInit \/ PicInit \/ UsePic \/ PitInit \/ SleepStart \/ StartTimer \/ PicDisable
             \/ Registers \/ UseApic
  <2>1. odd' = odd
    BY <1>1 DEF IdtInit, PicInit, PicStep, UsePic, UseController, PitInit, SleepStart, StartTimer,
                PicDisable, Registers, RegisterLine, UseApic
  <2> QED BY <2>1 DEF Ordinary
<1>2. CASE Drain \/ Fill \/ \E l \in Questions : Send(l) \/ Read(l)
  <2>1. odd \subseteq odd' \cup {"edge lost"}
    BY <1>0, <1>2 DEF Drain, Fill, Send, Read, Becomes, BecomesRead
  <2> QED BY <2>1 DEF Ordinary
<1>3. CASE (\E l \in Questions : Wait(l) \/ GiveUp(l)) \/ DriverInit \/ LoopFaults
  <2>1. odd \subseteq odd'
    BY <1>3 DEF Wait, GiveUp, DriverInit, Unmask, Buffer, LoopFaults
  <2> QED BY <2>1 DEF Ordinary
<1>4. CASE HandlerFaults \/ Ticks \/ Type \/ Move \/ UNCHANGED vars
  <2>1. odd \subseteq odd'
    BY <1>4 DEF HandlerFaults, Ticks, Type, Move, Happened, vars
  <2> QED BY <2>1 DEF Ordinary
<1>5. CASE Interrupt
  <2>1. odd \subseteq odd' \cup {"edge lost"}
    BY <1>5 DEF Interrupt, Timer, Callback, Kept
  <2> QED BY <2>1 DEF Ordinary
<1> QED BY <1>1, <1>2, <1>3, <1>4, <1>5 DEF Next, Kmain, vars

\* What is in the buffer has come from somewhere.
LEMMA SourcedStep ==
  ASSUME Kinds, TwoIsKbds(hw), Sourced(hw), [Next]_<<vars, machine>>
  PROVE  Sourced(hw')
<1>0. hw \in Hardware /\ machine \in Machine
  BY DEF Kinds
<1>1. \A g : g.obf = hw.obf => Sourced(g)
  BY DEF Sourced
<1>2. CASE Aside \/ Buffers \/ \E l \in Questions : GiveUp(l)
  <2>1. hw' = hw
    BY <1>2, AsideCalm DEF Calm, Buffers, Buffer, GiveUp
  <2> QED BY <2>1
<1>3. CASE Drain
  <2> DEFINE h == Clocks(hw, FALSE, FALSE)
  <2>1. hw' = Emptied(h) \/ hw' = h
    BY <1>3 DEF Drain, BecomesRead, Becomes, BecomesNoting
  <2>2. h \in Hardware /\ h.obf = hw.obf
    BY <1>0, WritesAdd DEF Adds
  <2> HIDE DEF h
  <2> QED BY <1>1, <2>1, <2>2, EmptiedClock
<1>4. ASSUME NEW l \in Questions, Send(l) PROVE Sourced(hw')
  <2>1. hw' = Sent(l)
    BY <1>4 DEF Send, Becomes, BecomesNoting
  <2> DEFINE g == Sent(l)
  <2>2. Plain(hw, g) \/ \E d, s : Replied(hw, g, d, s)
    BY <1>0, SentFacts DEF Questions
  <2> HIDE DEF g
  <2>3. g.obf = hw.obf
    BY <2>2 DEF Plain, Replied
  <2> QED BY <1>1, <2>1, <2>3 DEF g
<1>5. ASSUME NEW l \in Questions, Read(l) PROVE Sourced(hw')
  <2>1. hw' = Emptied(hw)
    BY <1>5 DEF Read, BecomesRead, BecomesNoting
  <2> QED BY <2>1, <1>0, EmptiedClock
<1>6. CASE Fill
  <2>1. hw' \in Fillings(hw)
    BY <1>6 DEF Fill, Becomes, BecomesNoting
  <2>2. Coming(hw, FromCtrl(hw), Stream(hw, "kbd"), Stream(hw, "mse"))
    BY DEF Coming
  <2> QED BY <2>1, <2>2, <1>0, FillComing DEF Sourced
<1>7. CASE Type \/ Move
  <2>1. \E d \in {"kbd", "mse"}, s \in Seq(Byte) : Longer(hw, hw', d, s)
    BY <1>7, TypeFacts, MoveFacts, StrokeFacts, PacketFacts
  <2>2. hw'.obf = hw.obf
    BY <1>0, <2>1, SentMore
  <2> QED BY <1>1, <2>2
<1>8. ASSUME NEW d, NEW irq, NEW from, Called(d, irq, from) PROVE Sourced(hw')
  <2>1. PICK h \in Hardware : hw' = Emptied(h)
    BY <1>8, CallbackRead DEF Called
  <2> QED BY <2>1, EmptiedClock
<1> QED BY <1>2, <1>3, <1>4, <1>5, <1>6, <1>7, <1>8, Shapes

\* Lines and event buffers are as far as kmain is, after every step.
LEMMA SetUpStep ==
  ASSUME Inv, Kinds, Reading, SetUp, [Next]_<<vars, machine>>
  PROVE  SetUp'
<1>1. ASSUME UNCHANGED <<machine, interrupt_controller, ioapic, ring>>, pc' = pc PROVE SetUp'
  BY <1>1 DEF SetUp
<1>2. ASSUME IdtInit \/ PicInit \/ UsePic \/ PitInit \/ SleepStart \/ StartTimer \/ PicDisable
               \/ Registers \/ UseApic
      PROVE  SetUp'
  <2>1. /\ pc \in Setting /\ machine' = machine /\ ring' = ring
        /\ pc' \in Setting \cup {"drain"} /\ ioapic'.open = ioapic.open
        /\ pc' = "drain" /\ machine.apic => interrupt_controller' = "APIC"
    <3>1. CASE IdtInit \/ PicInit \/ UsePic
      BY <1>2, <3>1 DEF IdtInit, PicInit, PicStep, UsePic, UseController, At, Go, Quiet, drvVars, Setting
    <3>2. CASE PitInit \/ SleepStart \/ StartTimer
      BY <1>2, <3>2 DEF PitInit, PicStep, SleepStart, StartTimer, At, Go, Quiet, drvVars, Setting
    <3>3. CASE PicDisable \/ UseApic
      BY <1>2, <3>3 DEF PicDisable, PicStep, UseApic, UseController, At, Go, Quiet, drvVars, Setting
    <3>4. CASE Registers
      <4>1. /\ pc \in Setting /\ pc' \in Setting /\ machine' = machine /\ ring' = ring
            /\ \E irq : ioapic' = Register(irq)
        BY <3>4 DEF Registers, RegisterLine, At, Go, Quiet, drvVars, Setting
      <4>2. ioapic'.open = ioapic.open
        BY <4>1 DEF Register, Inv, Types
      <4>3. "drain" \notin Setting
        BY DEF Setting
      <4> QED BY <4>1, <4>2, <4>3
    <3> QED BY <1>2, <3>1, <3>2, <3>3, <3>4
  <2>2. pc' \notin KeysOn /\ pc' \notin {"mse cap", "mse buf", "kbd buf"} /\ pc \notin {"kbd buf", "mse buf"}
        /\ (pc' \in Polling => pc' = "drain")
    BY <2>1 DEF Setting, KeysOn, Late, Polling, Questions
  <2> QED BY <2>1, <2>2 DEF SetUp, KeysReady
<1>3. ASSUME Drain \/ \E l \in Questions : Send(l) \/ Wait(l) \/ Read(l) \/ GiveUp(l) PROVE SetUp'
  <2>1. UNCHANGED <<machine, interrupt_controller, ioapic, ring>>
    BY <1>3 DEF Drain, Send, Wait, Read, GiveUp, Answered, Rest, drvVars, intVars
  <2>2. CASE pc' = pc
    BY <1>1, <2>1, <2>2
  <2>3. CASE Drain /\ pc' # pc
    <3>1. pc = "drain" /\ pc' = "config"
      BY <2>3 DEF Drain, At
    <3> QED BY <2>1, <3>1 DEF SetUp, Polling, Questions, KeysReady, KeysOn, Late
  <2>4. ASSUME NEW l \in Questions, Send(l) \/ Wait(l) \/ Read(l) \/ GiveUp(l), pc' # pc
        PROVE  SetUp'
    <3>1. PICK byte : pc = l /\ pc' = After(l, byte)
      BY <2>4 DEF Send, Wait, Read, GiveUp, Answered, At
    <3>2. CASE l = "mouse"
      <4>1. pc' \in {"unmask 12", "loop"}
        BY <3>1, <3>2, AfterOrder
      <4> QED BY <2>1, <3>1, <3>2, <4>1 DEF SetUp, Polling, Questions, KeysReady, KeysOn, Late
    <3>3. CASE l # "mouse"
      <4>1. pc' \in (Questions \ {"mouse"}) \cup {"unmask 1"}
        <5>1. l \in {"set", "00", "F0"} => pc' \in {"00", "set", "unmask 1"}
          BY <3>1, AfterOrder
        <5>2. l \notin {"mouse", "set", "00", "F0"} => pc' \in Questions \ {"mouse", "set", "00"}
          BY <3>1, AfterOrder
        <5> QED BY <3>3, <5>1, <5>2 DEF Questions
      <4> QED BY <2>1, <3>1, <3>3, <4>1 DEF SetUp, Polling, Questions, KeysReady, KeysOn, Late
    <3> QED BY <3>2, <3>3
  <2> QED BY <1>3, <2>2, <2>3, <2>4
<1>4. ASSUME NEW l, NEW irq, NEW next, Unmask(l, irq, next),
             <<l, irq, next>> \in {<<"unmask 1", 1, "kbd cap">>, <<"unmask 12", 12, "mse cap">>}
      PROVE  SetUp'
  <2>1. /\ UNCHANGED <<machine, interrupt_controller, ring>> /\ pc = l /\ pc' = next
        /\ interrupt_controller = "APIC" => ioapic' = [ioapic EXCEPT !.open = @ \cup {irq}]
        /\ interrupt_controller # "APIC" => ioapic' = ioapic
    BY <1>4 DEF Unmask, ClearMask, At, Go, Quiet, drvVars
  <2>2. /\ ioapic.open \subseteq ioapic'.open
        /\ interrupt_controller = "APIC" => irq \in ioapic'.open
    <3>1. interrupt_controller = "APIC" => ioapic'.open = ioapic.open \cup {irq}
      BY <2>1 DEF Inv, Types
    <3> QED BY <2>1, <3>1
  <2>3. machine.apic => interrupt_controller = "APIC"
    BY <1>4, <2>1 DEF SetUp, Polling
  <2>4. (machine.apic /\ pc \in KeysOn => 1 \in ioapic'.open) /\ (machine.apic /\ ring.mse # "zeroed" => 12 \in ioapic'.open)
    BY <2>2 DEF SetUp
  <2>5. CASE l = "unmask 1" /\ irq = 1 /\ next = "kbd cap"
    BY <2>1, <2>2, <2>3, <2>4, <2>5 DEF SetUp, KeysReady, KeysOn, Late
  <2>6. CASE l = "unmask 12" /\ irq = 12 /\ next = "mse cap"
    BY <2>1, <2>2, <2>3, <2>4, <2>6 DEF SetUp, KeysReady, KeysOn, Late
  <2> QED BY <1>4, <2>5, <2>6
<1>5. ASSUME Buffers PROVE SetUp'
  <2>1. PICK d, how : /\ ring' = [ring EXCEPT ![d] = how]
                      /\ \/ d = "kbd" /\ how = "cap" /\ pc = "kbd cap" /\ pc' = "kbd buf"
                         \/ d = "kbd" /\ how = "ready" /\ pc = "kbd buf" /\ pc' = "mouse"
                         \/ d = "mse" /\ how = "cap" /\ pc = "mse cap" /\ pc' = "mse buf"
                         \/ d = "mse" /\ how = "ready" /\ pc = "mse buf" /\ pc' = "loop"
    BY <1>5 DEF Buffers, Buffer, At, Go
  <2>2. UNCHANGED <<machine, interrupt_controller, ioapic>>
    BY <1>5 DEF Buffers, Buffer, Go, intVars
  <2>3. /\ d = "kbd" => ring'.kbd = how /\ ring'.mse = ring.mse
        /\ d = "mse" => ring'.mse = how /\ ring'.kbd = ring.kbd
    BY <2>1 DEF Kinds
  <2>4. CASE d = "kbd"
    BY <2>1, <2>2, <2>3, <2>4 DEF SetUp, Polling, Questions, KeysReady, KeysOn, Late
  <2>5. CASE d = "mse"
    BY <2>1, <2>2, <2>3, <2>5 DEF SetUp, Polling, Questions, KeysReady, KeysOn, Late
  <2> QED BY <2>1, <2>4, <2>5
<1>6. ASSUME LoopFaults \/ HandlerFaults \/ Ticks \/ Fill \/ Type \/ Move \/ UNCHANGED <<vars, machine>>
      PROVE  SetUp'
  <2>1. UNCHANGED <<machine, ioapic, ring, pc>>
    BY <1>6 DEF LoopFaults, HandlerFaults, Ticks, PitTick, LapicTick, Fill, Type, Move, Rest, vars, drvVars, intVars
  <2>2. interrupt_controller' = interrupt_controller
    BY <1>6 DEF LoopFaults, HandlerFaults, Ticks, PitTick, LapicTick, Fill, Type, Move, Rest, vars, drvVars, intVars
  <2> QED BY <1>1, <2>1, <2>2
<1>7. ASSUME Interrupt PROVE SetUp'
  <2>1. UNCHANGED <<machine, pc>>
    BY <1>7 DEF Interrupt, Rest
  <2>2. UNCHANGED <<interrupt_controller, ioapic, ring>>
    <3>1. UNCHANGED <<interrupt_controller, ioapic>>
      BY <1>7 DEF Interrupt, Timer, Callback, Served
    <3>2. ring' = ring
      <4>1. (\E from : Timer(from)) \/ \E d, v, from : Callback(d, v, from)
        BY <1>7 DEF Interrupt
      <4>2. (\E from : Timer(from)) => ring' = ring
        BY DEF Timer, drvVars
      <4>3. (\E byte : KeyboardCallback(byte) \/ MouseCallback(byte)) => ring' = ring
        BY DEF KeyboardCallback, MouseCallback
      <4>4. \A d, v, from : Callback(d, v, from) => \E byte : KeyboardCallback(byte) \/ MouseCallback(byte)
        BY DEF Callback
      <4> QED BY <4>1, <4>2, <4>3, <4>4
    <3> QED BY <3>1, <3>2
  <2> QED BY <1>1, <2>1, <2>2
<1>8. ASSUME DriverInit PROVE SetUp'
  <2>1. \/ Unmask("unmask 1", 1, "kbd cap") \/ Unmask("unmask 12", 12, "mse cap") \/ Buffers
    BY <1>8 DEF DriverInit, Buffers
  <2> QED BY <2>1, <1>4, <1>5
<1> QED BY <1>2, <1>3, <1>6, <1>7, <1>8 DEF Next, Kmain, vars

-----------------------------------------------------------------------------
\* What kmain's steps leave of the scene.

\* Where kmain is, and what it knows.
Place == <<machine, pc, stage, data, scancode_set, ring, fault>>

LEMMA PlaceFacts ==
  ASSUME UNCHANGED Place
  PROVE  /\ Ready' = Ready /\ Probing' = Probing /\ Talking' = Talking /\ Due' = Due
         /\ Found' = Found /\ KeysDue' = KeysDue /\ MouseDue' = MouseDue /\ Up' = Up
BY DEF Place, Ready, Probing, Talking, Due, Found, KeysDue, MouseDue, Up

\* What is coming stays, and kmain stays where it is.
LEMMA SceneStays ==
  ASSUME Scene, UNCHANGED Place,
         pc = "loop" \/ /\ \A a, k, m : Coming(hw, a, k, m) => Coming(hw', a, k, m)
                        /\ hw'.clock = hw.clock /\ (hw.obf.full => hw'.obf.full)
                        /\ Talking /\ ~Ready => ~hw'.obf.full
  PROVE  Scene'
<1>0. UNCHANGED <<machine, pc, stage, data, scancode_set, ring, fault>>
  BY DEF Place
<1>1. /\ Ready' = Ready /\ Probing' = Probing /\ Talking' = Talking /\ Due' = Due
      /\ Found' = Found /\ KeysDue' = KeysDue /\ MouseDue' = MouseDue /\ Up' = Up
  BY PlaceFacts
<1>2. CASE pc = "loop"
  <2>1. /\ pc' \notin Setting \cup {"drain"} /\ ~Probing' /\ ~Talking' /\ pc' \in Late
    BY <1>0, <1>2 DEF Setting, Probing, Probes, Talking, Late
  <2>2. fault' \in {"", "no mouse"} /\ (fault' = "no mouse" => ~Ready' /\ pc' = "loop") /\ Up'
    BY <1>0, <1>1, <1>2 DEF Scene
  <2> QED BY <2>1, <2>2 DEF Scene
<1>3. CASE pc # "loop"
  <2>0. /\ \A a, k, m : Coming(hw, a, k, m) => Coming(hw', a, k, m)
        /\ hw'.clock = hw.clock /\ (hw.obf.full => hw'.obf.full)
        /\ Talking /\ ~Ready => ~hw'.obf.full
    BY <1>3
  <2>1. pc \in Setting \cup {"drain"} => Idle(hw')
    BY <2>0 DEF Scene, Idle
  <2>2. Probing => Probe'
    BY <2>0, <1>0, <1>1 DEF Scene, Probe
  <2>3. Talking /\ Ready => Talk'
    BY <2>0, <1>0, <1>1 DEF Scene, Talk
  <2>4. Talking /\ ~Ready => Mute'
    <3>1. SUFFICES ASSUME Talking, ~Ready PROVE Mute'
      OBVIOUS
    <3>2. Mute
      BY <3>1 DEF Scene
    <3>3. FromCtrl(hw') = <<>>
      <4>1. Coming(hw, <<>>, Stream(hw, "kbd"), Stream(hw, "mse"))
        BY <3>2 DEF Mute, Coming
      <4> QED BY <4>1, <2>0 DEF Coming
    <3> QED BY <3>1, <3>2, <3>3, <2>0, <1>0 DEF Mute
  <2> QED BY <1>0, <1>1, <1>3, <2>1, <2>2, <2>3, <2>4 DEF Scene
<1> QED BY <1>2, <1>3

\* kmain is in one phase at a time.
LEMMA Phases ==
  /\ pc \in Setting \cup {"drain"} => ~Probing /\ ~Talking /\ pc # "loop" /\ pc \notin Late
  /\ Probing => ~Talking /\ pc # "loop" /\ pc \notin Late /\ pc \notin Setting \cup {"drain"}
  /\ Talking => ~Probing /\ pc # "loop" /\ pc \notin Setting \cup {"drain"}
  /\ pc = "loop" => ~Probing /\ ~Talking /\ pc \notin Setting \cup {"drain"} /\ pc \in Late
BY DEF Probing, Talking, Setting, Late, Probes

\* Before the ports are off.
LEMMA SceneSetting ==
  ASSUME Scene, pc \in Setting, pc' \in Setting \cup {"drain"},
         UNCHANGED <<machine, hw, scancode_set, fault>>
  PROVE  Scene'
<1>1. ~Probing' /\ ~Talking' /\ pc' # "loop" /\ pc' \notin Late
  BY DEF Probing, Probes, Talking, Setting, Late
<1>2. fault = "" /\ scancode_set = "0" /\ Idle(hw)
  BY Phases DEF Scene
<1> QED BY <1>1, <1>2 DEF Scene

LEMMA SceneDrain ==
  ASSUME Kinds, Reading, Sourced(hw), Scene, Drain
  PROVE  Scene'
<1>0. hw \in Hardware /\ pc = "drain" /\ Idle(hw) /\ stage = "send" /\ fault = "" /\ scancode_set = "0"
  BY DEF Kinds, Reading, Scene, Drain, At, Questions, Late
<1>1. ~hw.obf.full
  BY <1>0, IdleEmpty
<1>2. /\ hw' = Clocks(hw, FALSE, FALSE) /\ pc' = "config"
      /\ UNCHANGED <<machine, scancode_set, fault, stage>>
  BY <1>1, <1>0 DEF Drain, Becomes, BecomesNoting, Rest, drvVars, Clocks, Hardware
<1>3. Coming(hw', <<>>, <<>>, <<>>) /\ hw'.clock = [kbd |-> FALSE, mse |-> FALSE]
  BY <1>0, <1>2, WritesAdd DEF Adds, Idle
<1>4. Probe' /\ Probing' /\ ~Talking' /\ pc' \notin Late /\ pc' \notin Setting \cup {"drain"} /\ pc' # "loop"
  BY <1>0, <1>2, <1>3 DEF Probe, Due, Found, Probing, Probes, Talking, Late, Setting
<1> QED BY <1>0, <1>2, <1>4 DEF Scene

\* The last halves of the drivers' set-up.
LEMMA SceneUnmask ==
  ASSUME Kinds, Reading, Scene,
         Unmask("unmask 1", 1, "kbd cap") \/ Unmask("unmask 12", 12, "mse cap")
  PROVE  Scene'
<1>1. /\ UNCHANGED <<machine, hw, scancode_set, stage, fault>> /\ fault = ""
      /\ \/ pc = "unmask 1" /\ pc' = "kbd cap"
         \/ pc = "unmask 12" /\ pc' = "mse cap"
  BY DEF Unmask, At, Go, Quiet, drvVars
<1>2. stage = "send" /\ Talking /\ Talking' /\ Ready' = Ready /\ ~Probing' /\ pc' # "loop"
      /\ pc' \notin Setting \cup {"drain"} /\ pc \in Late /\ pc' \in Late
  BY <1>1 DEF Reading, Questions, Talking, Ready, Probing, Probes, Setting, Late
<1>3. ASSUME Ready PROVE Talk'
  <2>1. Talk
    BY <1>2, <1>3 DEF Scene
  <2>2. KeysDue' = KeysDue /\ MouseDue' = MouseDue
    BY <1>1, <1>2 DEF KeysDue, MouseDue
  <2> QED BY <1>1, <1>2, <2>1, <2>2 DEF Talk
<1>4. ASSUME ~Ready PROVE Mute'
  <2>1. Mute
    BY <1>2, <1>4 DEF Scene
  <2> QED BY <1>1, <1>2, <2>1 DEF Mute
<1> QED BY <1>1, <1>2, <1>3, <1>4 DEF Scene

LEMMA SceneBuffers ==
  ASSUME Kinds, Reading, Scene, Buffers
  PROVE  Scene'
<1>1. PICK d, how :
        /\ ring' = [ring EXCEPT ![d] = how]
        /\ \/ pc = "kbd cap" /\ pc' = "kbd buf"
           \/ pc = "kbd buf" /\ pc' = "mouse"
           \/ pc = "mse cap" /\ pc' = "mse buf"
           \/ d = "mse" /\ how = "ready" /\ pc = "mse buf" /\ pc' = "loop"
  BY DEF Buffers, Buffer, At, Go
<1>2. UNCHANGED <<machine, hw, scancode_set, stage, fault>> /\ fault = ""
  BY DEF Buffers, Buffer, At, Go
<1>3. stage = "send" /\ Talking /\ Ready' = Ready /\ ~Probing' /\ pc \in Late /\ pc' \in Late
      /\ pc' \notin Setting \cup {"drain"}
  BY <1>1, <1>2 DEF Reading, Questions, Talking, Ready, Probing, Probes, Setting, Late
<1>4. CASE pc' # "loop"
  <2>0. Talking'
    BY <1>3, <1>4 DEF Talking
  <2>1. ASSUME Ready PROVE Talk'
    <3>1. Talk
      BY <1>3, <2>1 DEF Scene
    <3>2. KeysDue' = KeysDue /\ MouseDue' = MouseDue
      BY <1>1, <1>2, <1>3 DEF KeysDue, MouseDue
    <3> QED BY <1>1, <1>2, <1>3, <3>1, <3>2 DEF Talk
  <2>2. ASSUME ~Ready PROVE Mute'
    <3>1. Mute
      BY <1>3, <2>2 DEF Scene
    <3> QED BY <1>1, <1>2, <1>3, <1>4, <3>1 DEF Mute
  <2> QED BY <1>2, <1>3, <1>4, <2>0, <2>1, <2>2 DEF Scene
<1>5. CASE pc' = "loop"
  <2>1. d = "mse" /\ how = "ready" /\ pc = "mse buf"
    BY <1>1, <1>5
  <2>2. ring'.mse = "ready"
    BY <1>1, <2>1 DEF Kinds
  <2>3. Ready /\ Talk
    BY <1>3, <2>1 DEF Scene, Mute
  <2>4. scancode_set = "02" /\ ~machine.keeps
    BY <1>3, <2>1, <2>3 DEF Talk
  <2>5. ~Talking'
    BY <1>5 DEF Talking, Late
  <2> QED BY <1>2, <1>3, <1>5, <2>2, <2>3, <2>4, <2>5 DEF Scene, Up
<1> QED BY <1>4, <1>5

\* kmain sees a byte.
LEMMA SceneWait ==
  ASSUME Kinds, Scene, NEW l \in Questions, Wait(l)
  PROVE  Scene'
<1>1. /\ pc = l /\ stage = "wait" /\ stage' = "read" /\ hw.obf.full /\ fault = ""
      /\ UNCHANGED <<machine, hw, scancode_set, fault, pc, data, ring>>
  BY DEF Wait, At, Rest, drvVars
<1>2. /\ Ready' = Ready /\ Probing' = Probing /\ Talking' = Talking /\ Due' = Due
      /\ Found' = Found /\ KeysDue' = KeysDue /\ MouseDue' = MouseDue
  BY <1>1 DEF Ready, Probing, Talking, Due, Found, KeysDue, MouseDue
<1>3. Probing => Probe'
  BY <1>1, <1>2 DEF Scene, Probe
<1>4. Talking /\ Ready => Talk'
  BY <1>1, <1>2 DEF Scene, Talk
<1>5. ~(Talking /\ ~Ready)
  BY <1>1 DEF Scene, Mute
<1>6. pc # "loop" /\ pc \notin Setting \cup {"drain"}
  BY <1>1 DEF Questions, Setting
<1> QED BY <1>1, <1>2, <1>3, <1>4, <1>5, <1>6 DEF Scene

-----------------------------------------------------------------------------
\* Questions.

\* What the question asked leaves to come, the ports being off.
LEMMA SentProbe ==
  ASSUME Kinds, Probe, stage = "send", pc \in Probes, NEW due, due' = due,
         due = IF pc = "test 2" /\ ~machine.dual THEN <<>>
               ELSE IF pc = "test" THEN <<IF machine.works THEN "55" ELSE "FC">>
               ELSE IF pc \in {"test 1", "test 2"} THEN <<"00">>
               ELSE <<Port(machine.dual /\ pc \notin {"config", "test"})>>
  PROVE  /\ Coming(Sent(pc), due, <<>>, <<>>)
         /\ Sent(pc).clock = [kbd |-> FALSE, mse |-> machine.dual /\ pc \notin {"config", "test"}]
<1>0. /\ hw \in Hardware /\ machine.dual \in BOOLEAN /\ hw.clock.kbd = FALSE
      /\ Coming(hw, <<>>, <<>>, <<>>) /\ hw.clock.mse = Found
      /\ hw.clock = [kbd |-> FALSE, mse |-> Found]
  <2>1. Due = <<>>
    BY DEF Due
  <2>2. hw \in Hardware /\ machine.dual \in BOOLEAN
    BY DEF Kinds, Machine
  <2>3. Coming(hw, <<>>, <<>>, <<>>) /\ hw.clock = [kbd |-> FALSE, mse |-> Found]
    BY <2>1 DEF Probe
  <2>4. hw.clock.kbd = FALSE /\ hw.clock.mse = Found
    BY <2>3, ClockFields, Zenon
  <2> QED BY <2>2, <2>3, <2>4, Zenon
<1>1. CASE pc \in {"config", "config 2"}
  <2>1. Sent(pc) = ReadConfig(hw) /\ due = <<Port(Found)>>
        /\ Found = (machine.dual /\ pc \notin {"config", "test"})
    BY <1>1 DEF Sent, Found
  <2> QED BY <1>0, <2>1, ConfigAdds DEF Adds
<1>2. CASE pc = "test"
  <2> DEFINE b == IF machine.works THEN "55" ELSE "FC"
  <2>1. Sent(pc) = Answer(Ints(hw, FALSE, FALSE), b) /\ due = <<b>> /\ b \in Byte /\ Found = FALSE
    BY <1>2 DEF Sent, Byte, Answers, Found
  <2> HIDE DEF b
  <2>2. /\ Ints(hw, FALSE, FALSE) \in Hardware /\ Ints(hw, FALSE, FALSE).clock = hw.clock
        /\ Coming(Ints(hw, FALSE, FALSE), <<>>, <<>>, <<>>)
    BY <1>0, WritesAdd, ZenonT(60) DEF Adds
  <2> QED BY <1>0, <1>2, <2>1, <2>2, AnswerAdds DEF Adds
<1>3. CASE pc = "dual"
  <2> DEFINE h == Clocks(hw, FALSE, machine.dual)
  <2>1. Sent(pc) = ReadConfig(h) /\ due = <<Port(machine.dual)>>
    BY <1>0, <1>3 DEF Sent
  <2>2. h \in Hardware /\ h.clock = [kbd |-> FALSE, mse |-> machine.dual] /\ Coming(h, <<>>, <<>>, <<>>)
    BY <1>0, WritesAdd DEF Adds
  <2> HIDE DEF h
  <2>3. h.clock.mse = machine.dual
    BY <2>2, ClockFields, Zenon
  <2>4. /\ Adds(h, Sent(pc), due) /\ Sent(pc).clock = h.clock
    BY <2>1, <2>2, <2>3, ConfigAdds
  <2>5. Coming(Sent(pc), due, <<>>, <<>>)
    BY <2>2, <2>4 DEF Adds
  <2>6. (machine.dual /\ pc \notin {"config", "test"}) = machine.dual
    BY <1>0, <1>3
  <2> QED BY <2>2, <2>4, <2>5, <2>6, Zenon
<1>4. CASE pc = "test 1"
  <2>0. data = Port(machine.dual) /\ due = <<"00">> /\ "00" \in Byte
    BY <1>4 DEF Probe, Byte, Answers
  <2>9. Found = machine.dual
    BY <1>0, <1>4 DEF Found
  <2> DEFINE on == Clocks(hw, FALSE, TRUE)
             h == IF machine.dual THEN Ints(on, hw.int.kbd, FALSE) ELSE hw
  <2>1. Sent(pc) = Answer(h, "00")
    BY <1>0, <1>4, <2>0 DEF Sent, Port
  <2>2. on \in Hardware /\ on.clock = [kbd |-> FALSE, mse |-> TRUE] /\ Coming(on, <<>>, <<>>, <<>>)
    BY <1>0, WritesAdd DEF Adds
  <2> HIDE DEF on
  <2>3. hw.int.kbd \in BOOLEAN
    BY <1>0 DEF Hardware
  <2>4. h \in Hardware /\ h.clock = [kbd |-> FALSE, mse |-> machine.dual] /\ Coming(h, <<>>, <<>>, <<>>)
    <3>1. CASE machine.dual
      <4>1. /\ Ints(on, hw.int.kbd, FALSE) \in Hardware /\ Ints(on, hw.int.kbd, FALSE).clock = on.clock
            /\ Coming(Ints(on, hw.int.kbd, FALSE), <<>>, <<>>, <<>>)
        BY <2>2, <2>3, WritesAdd DEF Adds
      <4> QED BY <3>1, <4>1, <2>2, <1>0
    <3>2. CASE ~machine.dual
      BY <3>2, <1>0, <2>9, Zenon
    <3> QED BY <3>1, <3>2
  <2> HIDE DEF h
  <2>5. Adds(h, Sent(pc), due) /\ Sent(pc).clock = h.clock
    BY <2>0, <2>1, <2>4, AnswerAdds
  <2>6. Coming(Sent(pc), due, <<>>, <<>>)
    BY <2>4, <2>5 DEF Adds
  <2>7. (machine.dual /\ pc \notin {"config", "test"}) = machine.dual
    BY <1>0, <1>4
  <2> QED BY <2>4, <2>5, <2>6, <2>7, Zenon
<1>5. CASE pc = "test 2"
  <2>1. Sent(pc) = (IF machine.dual THEN Answer(hw, "00") ELSE hw)
        /\ due = (IF machine.dual THEN <<"00">> ELSE <<>>) /\ "00" \in Byte
    BY <1>5 DEF Sent, Byte, Answers
  <2>9. Found = machine.dual
    BY <1>0, <1>5 DEF Found
  <2>2. Coming(Answer(hw, "00"), <<"00">>, <<>>, <<>>) /\ Answer(hw, "00").clock = hw.clock
    BY <1>0, <2>1, AnswerAdds DEF Adds
  <2>3. Sent(pc).clock = hw.clock /\ Coming(Sent(pc), due, <<>>, <<>>)
    BY <1>0, <2>1, <2>2
  <2> QED BY <1>0, <1>5, <2>3, <2>9, Zenon
<1> QED BY <1>1, <1>2, <1>3, <1>4, <1>5 DEF Probes

\* The reset of the keyboard, its port and the mouse's being on.
LEMMA SentReset ==
  ASSUME Kinds, Probe, stage = "send", pc = "reset"
  PROVE  Coming(Sent("reset"), <<>>, <<ACK, "AA">>, <<>>) /\ Sent("reset").clock = [kbd |-> TRUE, mse |-> TRUE]
<1>0. hw \in Hardware /\ machine.dual = TRUE /\ machine.keeps \in BOOLEAN /\ Coming(hw, <<>>, <<>>, <<>>)
  BY DEF Kinds, Machine, Probe, Due
<1> DEFINE g == Ints(hw, TRUE, TRUE)
           h == Clocks(g, TRUE, TRUE)
           bytes == <<ACK, "AA">>
<1>1. Sent("reset") = Reply(h, "kbd", bytes, machine.keeps)
  BY <1>0 DEF Sent
<1>2. g \in Hardware /\ Coming(g, <<>>, <<>>, <<>>)
  BY <1>0, WritesAdd DEF Adds
<1> HIDE DEF g
<1>3. h \in Hardware /\ Coming(h, <<>>, <<>>, <<>>) /\ h.clock = [kbd |-> TRUE, mse |-> TRUE]
  BY <1>2, WritesAdd DEF Adds
<1> HIDE DEF h
<1>4. bytes \in Seq(Byte)
  <2>1. ACK \in Byte /\ "AA" \in Byte
    BY DEF Byte, Answers
  <2> QED BY <2>1
<1> HIDE DEF bytes
<1>5. Asks(h, Sent("reset"), "kbd", bytes, machine.keeps)
  BY <1>0, <1>1, <1>3, <1>4, ReplyAsks
<1> QED BY <1>3, <1>5 DEF Asks, Coming, bytes

\* The questions to the keyboard and to the mouse.
LEMMA SentTalk ==
  ASSUME Kinds, stage = "send", pc \in {"F0", "00", "set", "mouse"}
  PROVE  /\ Sent(pc).obf = hw.obf /\ Sent(pc).clock = hw.clock /\ FromCtrl(Sent(pc)) = FromCtrl(hw)
         /\ pc = "F0" => Asks(hw, Sent(pc), "kbd", <<ACK>>, machine.keeps)
         /\ pc = "00" => Asks(hw, Sent(pc), "kbd", <<ACK, "02">>, machine.keeps)
         /\ pc = "set" => Sent(pc) = hw
         /\ pc = "mouse" /\ machine.dual => Asks(hw, Sent(pc), "mse", <<ACK>>, machine.keeps)
<1>0. hw \in Hardware /\ machine.keeps \in BOOLEAN /\ <<ACK>> \in Seq(Byte) /\ <<ACK, "02">> \in Seq(Byte)
  <2>1. ACK \in Byte /\ "02" \in Byte
    BY DEF Byte, Answers
  <2> QED BY <2>1 DEF Kinds, Machine
<1>1. ASSUME NEW g, NEW d, NEW bytes, Asks(hw, g, d, bytes, machine.keeps)
      PROVE  g.obf = hw.obf /\ g.clock = hw.clock /\ FromCtrl(g) = FromCtrl(hw)
  BY <1>1 DEF Asks
<1>2. CASE pc = "F0"
  <2>1. Sent(pc) = Reply(hw, "kbd", <<ACK>>, machine.keeps)
    BY <1>2 DEF Sent
  <2>2. Asks(hw, Sent(pc), "kbd", <<ACK>>, machine.keeps)
    BY <2>1, <1>0, ReplyAsks
  <2> QED BY <1>1, <1>2, <2>2
<1>3. CASE pc = "00"
  <2>1. Sent(pc) = Reply(hw, "kbd", <<ACK, "02">>, machine.keeps)
    BY <1>3 DEF Sent
  <2>2. Asks(hw, Sent(pc), "kbd", <<ACK, "02">>, machine.keeps)
    BY <2>1, <1>0, ReplyAsks
  <2> QED BY <1>1, <1>3, <2>2
<1>4. CASE pc = "set"
  BY <1>4 DEF Sent
<1>5. CASE pc = "mouse"
  <2> DEFINE h == Reply(hw, "mse", <<ACK>>, machine.keeps)
             g == [h EXCEPT !.reporting = TRUE]
  <2>1. Sent(pc) = IF machine.dual THEN g ELSE hw
    BY <1>5 DEF Sent
  <2>2. Asks(hw, h, "mse", <<ACK>>, machine.keeps) /\ h \in Hardware
    <3>1. Asks(hw, h, "mse", <<ACK>>, machine.keeps)
      BY <1>0, ReplyAsks
    <3> HIDE DEF h
    <3> QED BY <3>1 DEF Asks
  <2> HIDE DEF h
  <2>3. /\ g \in Hardware /\ g.obf = h.obf /\ g.clock = h.clock
        /\ g.answers = h.answers /\ g.kbd = h.kbd /\ g.mse = h.mse
    BY <2>2 DEF Hardware
  <2> HIDE DEF g
  <2>4. FromCtrl(g) = FromCtrl(h) /\ \A e \in {"kbd", "mse"} : Stream(g, e) = Stream(h, e)
    BY <2>3 DEF FromCtrl, Stream, Holds
  <2>5. Asks(hw, g, "mse", <<ACK>>, machine.keeps)
    BY <2>2, <2>3, <2>4 DEF Asks
  <2> QED BY <1>1, <1>5, <2>1, <2>5
<1> QED BY <1>2, <1>3, <1>4, <1>5

LEMMA SceneSend ==
  ASSUME Kinds, Scene, NEW l \in Questions, Send(l)
  PROVE  Scene'
<1>0. /\ pc = l /\ stage = "send" /\ stage' = "wait" /\ fault = "" /\ hw' = Sent(l)
      /\ UNCHANGED <<machine, scancode_set, fault, pc, data, ring>>
  BY DEF Send, At, Becomes, BecomesNoting, Rest, drvVars
<1>1. Ready' = Ready /\ pc \notin Setting \cup {"drain"} /\ pc # "loop"
      /\ (pc \in Probes \/ pc = "reset" \/ pc \in {"F0", "00", "set", "mouse"})
  BY <1>0 DEF Ready, Setting, Questions, Probes
<1>2. CASE pc \in Probes
  <2>1. Probing /\ Probing' /\ ~Talking' /\ Probe /\ pc \notin Late
    BY <1>0, <1>2 DEF Probing, Probes, Talking, Late, Scene
  <2>2. Found' = (machine.dual /\ pc \notin {"config", "test"})
    BY <1>0 DEF Found
  <2> DEFINE due == IF pc = "test 2" /\ ~machine.dual THEN <<>>
                    ELSE IF pc = "test" THEN <<IF machine.works THEN "55" ELSE "FC">>
                    ELSE IF pc \in {"test 1", "test 2"} THEN <<"00">>
                    ELSE <<Port(machine.dual /\ pc \notin {"config", "test"})>>
  <2>3. Due' = due /\ due' = due
    BY <1>0, <2>2 DEF Due
  <2>4. Coming(hw', Due', <<>>, <<>>) /\ hw'.clock = [kbd |-> FALSE, mse |-> Found']
    <3>1. PICK d : d = due /\ d' = d
      BY <2>3
    <3>2. Coming(Sent(pc), d, <<>>, <<>>)
          /\ Sent(pc).clock = [kbd |-> FALSE, mse |-> machine.dual /\ pc \notin {"config", "test"}]
      BY <1>0, <1>2, <2>1, <3>1, SentProbe
    <3> QED BY <1>0, <2>2, <2>3, <3>1, <3>2
  <2>5. Probe'
    BY <1>0, <2>1, <2>4 DEF Probe
  <2> QED BY <1>0, <1>1, <2>1, <2>5 DEF Scene
<1>3. CASE pc = "reset"
  <2>1. Probing /\ ~Probing' /\ Talking' /\ Probe /\ pc \notin Late
    BY <1>0, <1>3 DEF Probing, Probes, Talking, Late, Scene
  <2>2. Ready
    BY <1>3, <2>1 DEF Probe, Ready
  <2>3. Coming(hw', <<>>, <<ACK, "AA">>, <<>>) /\ hw'.clock = [kbd |-> TRUE, mse |-> TRUE]
    BY <1>0, <1>3, <2>1, SentReset
  <2>4. KeysDue' = {<<ACK, "AA">>} /\ MouseDue' = <<>>
    BY <1>0, <1>3 DEF KeysDue, MouseDue
  <2>5. Talk'
    BY <1>0, <1>3, <2>1, <2>3, <2>4 DEF Talk
  <2> QED BY <1>0, <1>1, <2>1, <2>2, <2>5 DEF Scene
<1>4. CASE pc \in {"F0", "00", "set", "mouse"}
  <2>1. Talking /\ Talking' /\ ~Probing'
    BY <1>0, <1>4 DEF Probing, Probes, Talking, Late
  <2>2. /\ hw'.obf = hw.obf /\ hw'.clock = hw.clock /\ FromCtrl(hw') = FromCtrl(hw)
        /\ pc = "F0" => Asks(hw, hw', "kbd", <<ACK>>, machine.keeps)
        /\ pc = "00" => Asks(hw, hw', "kbd", <<ACK, "02">>, machine.keeps)
        /\ pc = "set" => hw' = hw
        /\ pc = "mouse" /\ machine.dual => Asks(hw, hw', "mse", <<ACK>>, machine.keeps)
    BY <1>0, <1>4, SentTalk
  <2>3. ASSUME Ready PROVE Talk'
    <3>1. Talk
      BY <2>1, <2>3 DEF Scene
    <3>2. PICK k \in KeysDue : Coming(hw, <<>>, k, MouseDue)
      BY <3>1 DEF Talk
    <3>3. MouseDue = <<>> /\ Stream(hw, "kbd") = k /\ Stream(hw, "mse") = <<>> /\ FromCtrl(hw) = <<>>
      BY <1>0, <3>2 DEF MouseDue, Coming
    <3>4. \E b \in KeysDue' : Coming(hw', <<>>, b, MouseDue')
      <4>1. CASE pc = "F0"
        <5>1. k = <<"AA">> /\ "AA" \in Byte
          BY <1>0, <3>2, <4>1 DEF KeysDue, Byte, Answers
        <5>2. \/ Stream(hw', "kbd") = <<"AA">> \o <<ACK>>
              \/ ~machine.keeps /\ Stream(hw', "kbd") = <<ACK>>
          <6>1. /\ \A b \in Byte : Stream(hw, "kbd") = <<b>> =>
                     Stream(hw', "kbd") = <<b>> \o <<ACK>> \/ (~machine.keeps /\ Stream(hw', "kbd") = <<ACK>>)
            BY <2>2, <4>1 DEF Asks
          <6> QED BY <3>3, <5>1, <6>1
        <5>4. Stream(hw', "mse") = <<>>
          BY <2>2, <3>3, <4>1 DEF Asks
        <5>5. Stream(hw', "kbd") \in KeysDue' /\ MouseDue' = <<>>
          BY <1>0, <4>1, <5>2 DEF KeysDue, MouseDue
        <5> QED BY <2>2, <3>3, <5>4, <5>5 DEF Coming
      <4>2. CASE pc = "00"
        <5>1. k = <<>>
          BY <1>0, <3>2, <4>2 DEF KeysDue
        <5>2. Stream(hw', "kbd") = <<ACK, "02">> /\ Stream(hw', "mse") = <<>>
          BY <2>2, <3>3, <4>2, <5>1 DEF Asks
        <5>3. Stream(hw', "kbd") \in KeysDue' /\ MouseDue' = <<>>
          BY <1>0, <4>2, <5>2 DEF KeysDue, MouseDue
        <5> QED BY <2>2, <3>3, <5>2, <5>3 DEF Coming
      <4>3. CASE pc = "set"
        <5>1. KeysDue' = KeysDue /\ MouseDue' = MouseDue
          BY <1>0, <4>3 DEF KeysDue, MouseDue
        <5> QED BY <2>2, <3>2, <4>3, <5>1
      <4>4. CASE pc = "mouse"
        <5>1. KeysDue = {<<>>} /\ KeysDue' = {<<>>} /\ MouseDue' = <<ACK>>
          BY <1>0, <4>4 DEF KeysDue, MouseDue
        <5>2. Stream(hw', "mse") = <<ACK>> /\ Stream(hw', "kbd") = <<>>
          BY <2>2, <2>3, <3>2, <3>3, <4>4, <5>1 DEF Asks, Ready
        <5> QED BY <2>2, <3>3, <5>1, <5>2 DEF Coming
      <4> QED BY <1>4, <4>1, <4>2, <4>3, <4>4
    <3> QED BY <1>0, <2>2, <3>1, <3>4 DEF Talk
  <2>4. ASSUME ~Ready PROVE Mute'
    BY <1>0, <2>1, <2>2, <2>4 DEF Scene, Mute
  <2> QED BY <1>0, <1>1, <2>1, <2>3, <2>4 DEF Scene
<1> QED BY <1>1, <1>2, <1>3, <1>4

-----------------------------------------------------------------------------
\* Answers.

\* Sequences of a byte or two, and the bytes of the answers.
LEMMA ShortSeqs ==
  /\ \A b \in Byte : <<b>> # <<>> /\ <<b>>[1] = b /\ Tail(<<b>>) = <<>>
  /\ \A b, c \in Byte : <<b, c>> # <<>> /\ <<b, c>>[1] = b /\ Tail(<<b, c>>) = <<c>>
<1>1. ASSUME NEW b \in Byte PROVE <<b>> # <<>> /\ <<b>>[1] = b /\ Tail(<<b>>) = <<>>
  OBVIOUS
<1>2. ASSUME NEW b \in Byte, NEW c \in Byte
      PROVE  <<b, c>> # <<>> /\ <<b, c>>[1] = b /\ Tail(<<b, c>>) = <<c>>
  OBVIOUS
<1> QED BY <1>1, <1>2

LEMMA BytesSent ==
  /\ ACK \in Byte /\ "AA" \in Byte /\ "02" \in Byte /\ "00" \in Byte
  /\ "55" \in Byte /\ "FC" \in Byte /\ "port 2 on" \in Byte /\ "port 2 off" \in Byte
  /\ <<"AA">> \o <<ACK>> # <<>> /\ (<<"AA">> \o <<ACK>>)[1] = "AA" /\ Tail(<<"AA">> \o <<ACK>>) = <<ACK>>
  /\ ACK # "AA"
<1>1. /\ ACK \in Byte /\ "AA" \in Byte /\ "02" \in Byte /\ "00" \in Byte
      /\ "55" \in Byte /\ "FC" \in Byte /\ "port 2 on" \in Byte /\ "port 2 off" \in Byte
  BY DEF Byte, Answers
<1>2. <<ACK>> \in Seq(Byte)
  <2>1. \A b \in Byte : <<b>> \in Seq(Byte)
    OBVIOUS
  <2> QED BY <1>1, <2>1
<1>3. <<"AA">> \o <<ACK>> # <<>> /\ (<<"AA">> \o <<ACK>>)[1] = "AA" /\ Tail(<<"AA">> \o <<ACK>>) = <<ACK>>
  <2>1. \A b \in Byte : <<b>> \o <<ACK>> # <<>> /\ (<<b>> \o <<ACK>>)[1] = b /\ Tail(<<b>> \o <<ACK>>) = <<ACK>>
    <3> DEFINE s == <<ACK>>
    <3>1. s \in Seq(Byte)
      BY <1>2
    <3> HIDE DEF s
    <3>2. \A b \in Byte : <<b>> \o s # <<>> /\ (<<b>> \o s)[1] = b /\ Tail(<<b>> \o s) = s
      BY <3>1, SeqTwo
    <3> QED BY <3>2 DEF s
  <2> QED BY <1>1, <2>1
<1> QED BY <1>1, <1>3 DEF ACK

\* Where an answer leads.
LEMMA Leads ==
  ASSUME NEW byte
  PROVE  /\ After("config", byte) = "test" /\ After("dual", byte) = "test 1"
         /\ After("test", "55") = "dual" /\ (byte # "55" => After("test", byte) = "F0")
         /\ After("test 1", "00") = "test 2"
         /\ After("test 2", "00") = "config 2" /\ (byte # "00" => After("test 2", byte) = "F0")
         /\ After("config 2", byte) = "reset" /\ After("reset", byte) = "F0"
         /\ After("F0", ACK) = "00" /\ (byte # ACK => After("F0", byte) = "unmask 1")
         /\ After("00", ACK) = "set" /\ After("set", byte) = "unmask 1"
         /\ After("mouse", ACK) = "unmask 12" /\ (byte # ACK => After("mouse", byte) = "loop")
<1>1. After("config", byte) = "test" /\ After("dual", byte) = "test 1"
  BY DEF After
<1>2. After("test", "55") = "dual" /\ (byte # "55" => After("test", byte) = "F0")
  BY DEF After
<1>3. After("test 1", "00") = "test 2"
  BY DEF After
<1>4. After("test 2", "00") = "config 2" /\ (byte # "00" => After("test 2", byte) = "F0")
  BY DEF After
<1>5. After("config 2", byte) = "reset" /\ After("reset", byte) = "F0"
  BY DEF After
<1>6. After("F0", ACK) = "00" /\ (byte # ACK => After("F0", byte) = "unmask 1")
  BY DEF After
<1>7. After("00", ACK) = "set" /\ After("set", byte) = "unmask 1"
  BY DEF After
<1>8. After("mouse", ACK) = "unmask 12" /\ (byte # ACK => After("mouse", byte) = "loop")
  BY DEF After
<1> QED BY <1>1, <1>2, <1>3, <1>4, <1>5, <1>6, <1>7, <1>8

\* The answer to a question of ps2_init.
LEMMA SceneReadProbe ==
  ASSUME Kinds, Sourced(hw), Scene, pc \in Probes, stage = "read", stage' = "send", hw.obf.full,
         hw' = Emptied(hw), data' = hw.obf.byte, pc' = After(pc, hw.obf.byte), fault = "",
         UNCHANGED <<machine, scancode_set, fault>>
  PROVE  Scene'
<1>0. /\ hw \in Hardware /\ Probing /\ Probe /\ scancode_set = "0" /\ machine.dual \in BOOLEAN
      /\ Coming(hw, Due, <<>>, <<>>) /\ hw.clock = [kbd |-> FALSE, mse |-> Found]
  BY DEF Kinds, Machine, Probing, Scene, Late, Probes, Probe
<1>1. Due # <<>> /\ hw.obf.byte = Due[1] /\ Coming(hw', Tail(Due), <<>>, <<>>)
  BY <1>0, ComingWhere
<1>2. hw'.clock = hw.clock /\ ~hw'.obf.full
  BY <1>0, EmptiedClock
<1>3. /\ Ready' = Ready /\ (pc = "test 2" => machine.dual)
      /\ Due = IF pc = "test" THEN <<IF machine.works THEN "55" ELSE "FC">>
               ELSE IF pc \in {"test 1", "test 2"} THEN <<"00">>
               ELSE <<Port(Found)>>
  BY <1>1 DEF Due, Ready
<1>4. /\ Due[1] = IF pc = "test" THEN IF machine.works THEN "55" ELSE "FC"
                  ELSE IF pc \in {"test 1", "test 2"} THEN "00" ELSE Port(Found)
      /\ Tail(Due) = <<>>
  <2>1. \A b \in Byte : <<b>>[1] = b /\ Tail(<<b>>) = <<>>
    BY ShortSeqs
  <2>2. Port(Found) \in Byte
    BY BytesSent DEF Port
  <2>3. CASE pc = "test"
    <3>1. CASE machine.works
      BY <1>3, <2>1, <2>3, <3>1, BytesSent
    <3>2. CASE ~machine.works
      BY <1>3, <2>1, <2>3, <3>2, BytesSent
    <3> QED BY <3>1, <3>2
  <2>4. CASE pc \in {"test 1", "test 2"}
    BY <1>3, <2>1, <2>4, BytesSent
  <2>5. CASE pc \notin {"test", "test 1", "test 2"}
    BY <1>3, <2>1, <2>2, <2>5
  <2> QED BY <2>3, <2>4, <2>5
<1>5. Coming(hw', <<>>, <<>>, <<>>) /\ hw'.clock = [kbd |-> FALSE, mse |-> Found]
  BY <1>0, <1>1, <1>2, <1>4
<1>6. ASSUME pc' \in {"test", "dual", "test 1", "test 2", "config 2", "reset"}, Found' = Found,
             pc' # "test" => machine.works, pc' \in {"config 2", "reset"} => machine.dual,
             pc' = "test 1" => data' = Port(machine.dual)
      PROVE  Scene'
  <2>1. Probing' /\ ~Talking' /\ pc' \notin Late /\ pc' # "loop" /\ pc' \notin Setting \cup {"drain"}
    BY <1>6 DEF Probing, Probes, Talking, Late, Setting
  <2>2. Due' = <<>>
    BY DEF Due
  <2>3. Probe'
    BY <1>5, <1>6, <2>2 DEF Probe
  <2> QED BY <1>0, <2>1, <2>3 DEF Scene
<1>7. CASE pc = "config"
  <2>1. pc' = "test" /\ Found' = Found
    BY <1>7, Leads DEF Found
  <2> QED BY <1>6, <2>1
<1>8. CASE pc = "test" /\ machine.works
  <2>1. pc' = "dual" /\ Found' = Found
    <3>1. hw.obf.byte = "55"
      BY <1>1, <1>4, <1>8
    <3> QED BY <1>8, <3>1, Leads DEF Found
  <2> QED BY <1>6, <1>8, <2>1
<1>9. CASE pc = "test" /\ ~machine.works
  <2>1. pc' = "F0" /\ ~Ready /\ Found = FALSE
    BY <1>1, <1>4, <1>9, Leads DEF Found, Ready
  <2>2. ~Probing' /\ Talking' /\ pc' \notin Late /\ pc' # "loop" /\ pc' \notin Setting \cup {"drain"}
    BY <2>1 DEF Probing, Probes, Talking, Late, Setting
  <2>3. Mute'
    BY <1>2, <1>5, <2>1 DEF Mute, Coming, Late
  <2> QED BY <1>0, <1>3, <2>1, <2>2, <2>3 DEF Scene
<1>10. CASE pc = "dual"
  <2>1. pc' = "test 1" /\ Found' = Found /\ machine.works /\ Found = machine.dual
    BY <1>0, <1>10, Leads DEF Found, Probe
  <2>2. data' = Port(machine.dual)
    BY <1>1, <1>4, <1>10, <2>1
  <2> QED BY <1>6, <2>1, <2>2
<1>11. CASE pc = "test 1"
  <2>1. pc' = "test 2" /\ Found' = Found /\ machine.works
    BY <1>0, <1>1, <1>4, <1>11, Leads DEF Found, Probe
  <2> QED BY <1>6, <2>1
<1>12. CASE pc = "test 2"
  <2>1. pc' = "config 2" /\ Found' = Found /\ machine.works
    BY <1>0, <1>1, <1>4, <1>12, Leads DEF Found, Probe
  <2> QED BY <1>3, <1>6, <1>12, <2>1
<1>13. CASE pc = "config 2"
  <2>1. pc' = "reset" /\ Found' = Found /\ machine.works /\ machine.dual
    BY <1>0, <1>13, Leads DEF Found, Probe
  <2> QED BY <1>6, <2>1
<1> QED BY <1>7, <1>8, <1>9, <1>10, <1>11, <1>12, <1>13 DEF Probes

\* The answer of a device.
LEMMA SceneReadTalk ==
  ASSUME Kinds, Sourced(hw), Scene, pc \in {"reset", "F0", "00", "set", "mouse"}, stage = "read",
         stage' = "send", hw.obf.full, hw.obf.byte # "AA",
         hw' = Emptied(hw), pc' = After(pc, hw.obf.byte), fault = "",
         scancode_set' = IF pc = "set" THEN hw.obf.byte
                         ELSE IF pc \in {"F0", "00"} /\ hw.obf.byte # ACK THEN Timeout ELSE scancode_set,
         UNCHANGED <<machine, fault>>
  PROVE  Scene'
<1>0. hw \in Hardware /\ Talking /\ Ready' = Ready
  BY DEF Kinds, Talking, Late, Ready
<1>1. Ready /\ Talk
  BY <1>0 DEF Scene, Mute
<1>2. PICK k \in KeysDue : Coming(hw, <<>>, k, MouseDue)
  BY <1>1 DEF Talk
<1>3. hw'.clock = [kbd |-> TRUE, mse |-> TRUE]
  BY <1>0, <1>1, EmptiedClock DEF Talk
<1>4. ASSUME pc' \in {"F0", "00", "set", "unmask 1", "unmask 12"},
             \E t \in KeysDue' : Coming(hw', <<>>, t, <<>>),
             pc' # "F0" => ~machine.keeps,
             scancode_set' = IF pc' \in {"unmask 1", "unmask 12"} THEN "02" ELSE "0"
      PROVE  Scene'
  <2>1. /\ Talking' /\ ~Probing' /\ pc' # "loop" /\ pc' \notin Setting \cup {"drain"}
        /\ pc' \in Late <=> pc' \in {"unmask 1", "unmask 12"}
    BY <1>4 DEF Talking, Probing, Probes, Late, Setting
  <2>2. MouseDue' = <<>>
    BY DEF MouseDue
  <2>3. Talk'
    BY <1>3, <1>4, <2>1, <2>2 DEF Talk
  <2> QED BY <1>0, <1>1, <1>4, <2>1, <2>3 DEF Scene
<1>5. pc # "mouse" => MouseDue = <<>> /\ k # <<>> /\ hw.obf.byte = k[1] /\ Coming(hw', <<>>, Tail(k), <<>>)
  <2>1. pc # "mouse" => MouseDue = <<>>
    BY DEF MouseDue
  <2>2. \/ k # <<>> /\ hw.obf.byte = k[1] /\ Coming(Emptied(hw), <<>>, Tail(k), MouseDue)
        \/ MouseDue # <<>> /\ hw.obf.byte = MouseDue[1] /\ Coming(Emptied(hw), <<>>, k, Tail(MouseDue))
    BY <1>0, <1>2, ComingWhere
  <2>3. Emptied(hw) = hw'
    OBVIOUS
  <2> QED BY <2>1, <2>2, <2>3
<1>6. pc \notin {"mouse"} => scancode_set = "0"
  BY DEF Scene, Late
<1>8. CASE pc = "reset"
  <2>1. k = <<ACK, "AA">>
    BY <1>2, <1>8 DEF KeysDue
  <2>2. pc' = "F0" /\ Tail(k) = <<"AA">>
    <3>1. Tail(<<ACK, "AA">>) = <<"AA">>
      BY ShortSeqs, BytesSent
    <3> QED BY <1>8, <2>1, <3>1, Leads
  <2>3. KeysDue' = {<<"AA">>}
    BY <2>2 DEF KeysDue
  <2>4. scancode_set' = "0"
    BY <1>6, <1>8
  <2>5. \E t \in KeysDue' : Coming(hw', <<>>, t, <<>>)
    BY <1>5, <1>8, <2>2, <2>3
  <2> QED BY <1>4, <2>2, <2>4, <2>5
<1>9. CASE pc = "F0"
  <2>1. k = <<"AA">> \o <<ACK>> \/ (k = <<ACK>> /\ ~machine.keeps)
    BY <1>2, <1>9 DEF KeysDue
  <2>2. k # <<"AA">> \o <<ACK>>
    BY <1>5, <1>9, BytesSent
  <2>3. k = <<ACK>> /\ k[1] = ACK /\ Tail(k) = <<>> /\ ~machine.keeps
    <3>1. k = <<ACK>> /\ ~machine.keeps
      BY <2>1, <2>2
    <3>2. <<ACK>>[1] = ACK /\ Tail(<<ACK>>) = <<>>
      BY ShortSeqs, BytesSent
    <3> QED BY <3>1, <3>2
  <2>4. pc' = "00" /\ scancode_set' = "0"
    BY <1>5, <1>6, <1>9, <2>3, Leads
  <2>5. KeysDue' = {<<>>}
    BY <2>4 DEF KeysDue
  <2>6. \E t \in KeysDue' : Coming(hw', <<>>, t, <<>>)
    BY <1>5, <1>9, <2>3, <2>5
  <2> QED BY <1>4, <2>3, <2>4, <2>6
<1>10. CASE pc = "00"
  <2>1. k = <<ACK, "02">> /\ ~machine.keeps
    BY <1>1, <1>2, <1>10 DEF KeysDue, Talk
  <2>2. k[1] = ACK /\ Tail(k) = <<"02">>
    <3>1. ACK \in Byte /\ "02" \in Byte
      BY BytesSent
    <3>2. <<ACK, "02">>[1] = ACK /\ Tail(<<ACK, "02">>) = <<"02">>
      BY <3>1, ShortSeqs, ZenonT(60)
    <3> QED BY <2>1, <3>2
  <2>3. pc' = "set" /\ scancode_set' = "0"
    BY <1>5, <1>6, <1>10, <2>2, Leads
  <2>4. KeysDue' = {<<"02">>}
    BY <2>3 DEF KeysDue
  <2>5. \E t \in KeysDue' : Coming(hw', <<>>, t, <<>>)
    BY <1>5, <1>10, <2>2, <2>4
  <2> QED BY <1>4, <2>1, <2>3, <2>5
<1>11. CASE pc = "set"
  <2>1. k = <<"02">> /\ ~machine.keeps
    BY <1>1, <1>2, <1>11 DEF KeysDue, Talk
  <2>2. k[1] = "02" /\ Tail(k) = <<>>
    BY <2>1, ShortSeqs, BytesSent
  <2>3. pc' = "unmask 1" /\ scancode_set' = "02"
    BY <1>5, <1>11, <2>2, Leads
  <2>4. KeysDue' = {<<>>}
    BY <2>3 DEF KeysDue
  <2>5. \E t \in KeysDue' : Coming(hw', <<>>, t, <<>>)
    BY <1>5, <1>11, <2>2, <2>4
  <2> QED BY <1>4, <2>1, <2>3, <2>5
<1>12. CASE pc = "mouse"
  <2>1. k = <<>> /\ MouseDue = <<ACK>> /\ ~machine.keeps /\ scancode_set = "02"
    <3>1. KeysDue = {<<>>} /\ MouseDue = <<ACK>>
      BY <1>12 DEF KeysDue, MouseDue
    <3>2. pc \in Late /\ pc \notin {"reset", "F0"}
      BY <1>12 DEF Late
    <3> QED BY <1>1, <1>2, <3>1, <3>2 DEF Talk
  <2>2. <<ACK>> # <<>> /\ <<ACK>>[1] = ACK /\ Tail(<<ACK>>) = <<>>
    BY ShortSeqs, BytesSent
  <2>3. hw.obf.byte = ACK /\ Coming(hw', <<>>, <<>>, <<>>)
    <3>1. \/ k # <<>> /\ hw.obf.byte = k[1] /\ Coming(Emptied(hw), <<>>, Tail(k), MouseDue)
          \/ MouseDue # <<>> /\ hw.obf.byte = MouseDue[1] /\ Coming(Emptied(hw), <<>>, k, Tail(MouseDue))
      BY <1>0, <1>2, ComingWhere
    <3>2. Emptied(hw) = hw'
      OBVIOUS
    <3> QED BY <2>1, <2>2, <3>1, <3>2
  <2>4. pc' = "unmask 12" /\ scancode_set' = "02"
    BY <1>12, <2>1, <2>3, Leads
  <2>5. KeysDue' = {<<>>}
    BY <2>4 DEF KeysDue
  <2> QED BY <1>4, <2>1, <2>3, <2>4, <2>5
<1> QED BY <1>8, <1>9, <1>10, <1>11, <1>12

LEMMA SceneRead ==
  ASSUME Kinds, Reading, Sourced(hw), Scene, Ordinary', NEW l \in Questions, Read(l)
  PROVE  Scene'
<1>0. /\ pc = l /\ stage = "read" /\ fault = "" /\ hw' = Emptied(hw)
      /\ data' = hw.obf.byte /\ stage' = "send" /\ pc' = After(l, hw.obf.byte)
      /\ scancode_set' = IF l = "set" THEN hw.obf.byte
                         ELSE IF l \in {"F0", "00"} /\ hw.obf.byte # ACK THEN Timeout ELSE scancode_set
      /\ UNCHANGED <<machine, fault>>
  BY DEF Read, At, Answered, BecomesRead, BecomesNoting, Rest
<1>1. hw.obf.full
  <2>1. CASE pc # "mouse"
    BY <1>0, <2>1 DEF Reading
  <2>2. CASE pc = "mouse"
    <3>1. Talking
      BY <2>2 DEF Talking, Late
    <3> QED BY <1>0, <3>1 DEF Scene, Talk, Mute
  <2> QED BY <2>1, <2>2
<1>2. hw.obf.byte # "AA"
  <2>1. SUFFICES ASSUME hw.obf.byte = "AA" PROVE FALSE
    OBVIOUS
  <2>2. Emptied(hw).obf.byte = "AA"
    BY <2>1, EmptiedFacts DEF Kinds
  <2>3. odd' \cap {"stray", "AA"} # {}
    BY <2>2 DEF Read, BecomesRead, BecomesNoting
  <2> QED BY <2>3 DEF Ordinary
<1>3. CASE pc \in Probes
  BY <1>0, <1>1, <1>3, SceneReadProbe DEF Probes
<1>4. CASE pc \notin Probes
  <2>1. pc \in {"reset", "F0", "00", "set", "mouse"}
    BY <1>0, <1>4 DEF Probes, Questions
  <2> QED BY <1>0, <1>1, <1>2, <2>1, SceneReadTalk
<1> QED BY <1>3, <1>4

\* kmain gives up, when nothing is on its way: there is no second port, or none is on.
LEMMA SceneGiveUp ==
  ASSUME Kinds, Sourced(hw), Scene, Ordinary', NEW l \in Questions, GiveUp(l)
  PROVE  Scene'
<1>0. /\ pc = l /\ stage = "wait" /\ fault = "" /\ hw' = hw /\ ~hw.obf.full
      /\ data' = Timeout /\ stage' = "send" /\ pc' = After(l, Timeout)
      /\ scancode_set' = IF l = "set" THEN Timeout
                         ELSE IF l \in {"F0", "00"} /\ Timeout # ACK THEN Timeout ELSE scancode_set
      /\ UNCHANGED <<machine, fault>>
  BY DEF GiveUp, At, Answered, Rest
<1>1. hw \in Hardware /\ Fillings(hw) = {} /\ Ready' = Ready /\ Timeout \notin {ACK, "00"}
  <2>1. Fillings(hw) # {} => "late" \in odd'
    BY DEF GiveUp
  <2> QED BY <1>0, <2>1 DEF Kinds, Ordinary, Ready, Timeout, ACK
<1>2. \A a, k, m : Coming(hw, a, k, m) =>
        a = <<>> /\ (hw.clock.kbd => k = <<>>) /\ (hw.clock.mse => m = <<>>)
  BY <1>0, <1>1, FillWhen
<1>3. CASE Probing
  <2>1. Probe /\ scancode_set = "0" /\ pc \in Probes
    BY <1>0, <1>3, Phases DEF Scene, Probing
  <2>2. Due = <<>> /\ Coming(hw, <<>>, <<>>, <<>>)
    BY <1>2, <2>1 DEF Probe
  <2>3. pc = "test 2" /\ ~machine.dual
    <3>1. Port(Found) \in Byte
      BY BytesSent DEF Port
    <3>2. <<Port(Found)>> # <<>> /\ <<"55">> # <<>> /\ <<"FC">> # <<>> /\ <<"00">> # <<>>
      BY <3>1, ShortSeqs, BytesSent
    <3> QED BY <1>0, <2>2, <3>2 DEF Due
  <2>4. pc' = "F0" /\ ~Ready /\ Found = FALSE /\ scancode_set' = "0"
    BY <1>0, <1>1, <2>1, <2>3, Leads DEF Ready, Found
  <2>5. ~Probing' /\ Talking' /\ pc' \notin Late /\ pc' # "loop" /\ pc' \notin Setting \cup {"drain"}
    BY <2>4 DEF Probing, Probes, Talking, Late, Setting
  <2>6. Mute'
    BY <1>0, <2>1, <2>2, <2>4 DEF Probe, Mute, Coming, Late
  <2> QED BY <1>0, <1>1, <2>4, <2>5, <2>6 DEF Scene
<1>4. CASE Talking /\ Ready
  <2>1. Talk
    BY <1>4 DEF Scene
  <2>2. PICK k \in KeysDue : Coming(hw, <<>>, k, MouseDue)
    BY <2>1 DEF Talk
  <2>3. hw.clock.kbd /\ hw.clock.mse
    BY <2>1, ClockFields DEF Talk
  <2>4. k = <<>> /\ MouseDue = <<>>
    BY <1>2, <2>2, <2>3
  <2>5. pc \notin {"reset", "F0", "00", "set", "mouse"}
    <3>1. <<ACK>> # <<>> /\ <<"02">> # <<>> /\ <<"AA">> # <<>> /\ <<ACK, "AA">> # <<>> /\ <<ACK, "02">> # <<>>
      BY ShortSeqs, BytesSent
    <3>2. <<"AA">> \o <<ACK>> # <<>>
      BY BytesSent
    <3>3. pc # "mouse"
      BY <1>0, <2>4, <3>1 DEF MouseDue
    <3>4. pc \notin {"reset", "00", "set"}
      BY <1>0, <2>2, <2>4, <3>1 DEF KeysDue
    <3>5. pc # "F0"
      BY <1>0, <2>2, <2>4, <3>1, <3>2 DEF KeysDue
    <3> QED BY <3>3, <3>4, <3>5
  <2> QED BY <1>0, <1>4, <2>5 DEF Talking, Questions, Late
<1>5. CASE Talking /\ ~Ready
  <2>1. Mute
    BY <1>5 DEF Scene
  <2>2. pc \in {"F0", "mouse"}
    BY <1>0, <1>5, <2>1 DEF Mute, Talking, Questions, Late
  <2>3. CASE pc = "F0"
    <3>1. pc' = "unmask 1" /\ scancode_set' = Timeout
      BY <1>0, <1>1, <2>3, Leads
    <3>2. ~Probing' /\ Talking' /\ pc' \in Late /\ pc' # "loop" /\ pc' \notin Setting \cup {"drain"}
      BY <3>1 DEF Probing, Probes, Talking, Late, Setting
    <3>3. Mute'
      BY <1>0, <2>1, <3>1 DEF Mute
    <3> QED BY <1>0, <1>1, <1>5, <3>2, <3>3 DEF Scene
  <2>4. CASE pc = "mouse"
    <3>1. pc' = "loop" /\ scancode_set' = Timeout
      <4>1. pc \in Late
        BY <2>4 DEF Late
      <4>2. scancode_set = Timeout
        BY <2>1, <4>1 DEF Mute
      <4>3. pc' = "loop"
        <5>1. Timeout # ACK
          BY <1>1
        <5>2. After("mouse", Timeout) = "loop"
          BY <5>1 DEF After
        <5> QED BY <1>0, <2>4, <5>2
      <4>4. scancode_set' = scancode_set
        BY <1>0, <2>4
      <4> QED BY <4>2, <4>3, <4>4
    <3>2. ~Probing' /\ ~Talking' /\ pc' \in Late /\ pc' \notin Setting \cup {"drain"}
      BY <3>1 DEF Probing, Probes, Talking, Late, Setting
    <3> QED BY <1>0, <1>1, <1>5, <3>1, <3>2 DEF Scene, Up
  <2> QED BY <2>2, <2>3, <2>4
<1>6. Probing \/ Talking
  BY <1>0 DEF Probing, Probes, Talking, Questions, Late
<1> QED BY <1>3, <1>4, <1>5, <1>6

-----------------------------------------------------------------------------
\* What is not kmain's doing.

\* A byte is passed on.
LEMMA SceneFill ==
  ASSUME Kinds, Sourced(hw), Scene, Fill
  PROVE  Scene'
<1>0. hw \in Hardware /\ hw' \in Fillings(hw) /\ UNCHANGED Place
  BY DEF Kinds, Fill, Becomes, BecomesNoting, Rest, Place, drvVars
<1>1. /\ \A a, k, m : Coming(hw, a, k, m) => Coming(hw', a, k, m)
      /\ hw'.clock = hw.clock /\ hw'.obf.full
  <2>1. Coming(hw, FromCtrl(hw), Stream(hw, "kbd"), Stream(hw, "mse"))
    BY DEF Coming
  <2> QED BY <1>0, <2>1, FillComing
<1>2. ~(Talking /\ ~Ready)
  <2>1. SUFFICES ASSUME Talking, ~Ready PROVE FALSE
    OBVIOUS
  <2>2. Mute
    BY <2>1 DEF Scene
  <2>3. Coming(hw, <<>>, Stream(hw, "kbd"), Stream(hw, "mse"))
    BY <2>2 DEF Mute, Coming
  <2>4. ~hw.obf.full /\ ~hw.clock.kbd /\ ~hw.clock.mse
    BY <2>2, ClockFields DEF Mute
  <2>5. Fillings(hw) = {}
    BY <1>0, <2>3, <2>4, FillWhen
  <2> QED BY <1>0, <2>5
<1> QED BY <1>0, <1>1, <1>2, SceneStays

\* Keys and movements come in the loop.
LEMMA SceneOutside ==
  ASSUME Scene, Ordinary', Type \/ Move
  PROVE  Scene'
<1>1. pc = "loop"
  <2>1. pc # "loop" => odd' \cap {"typed", "moved"} # {}
    BY DEF Type, Move, Happened
  <2> QED BY <2>1 DEF Ordinary
<1>2. UNCHANGED Place
  BY DEF Type, Move, Place, drvVars
<1> QED BY <1>1, <1>2, SceneStays

\* Nothing is read, sent or passed on.
LEMMA SceneAside ==
  ASSUME Inv, Kinds, Reading, Scene, Ordinary', Aside
  PROVE  Scene'
<1>0. Calm
  BY AsideCalm
<1>1. CASE IdtInit \/ PicInit \/ UsePic \/ PitInit \/ SleepStart \/ StartTimer \/ PicDisable
             \/ Registers \/ UseApic
  <2>1. pc \in Setting /\ pc' \in Setting \cup {"drain"} /\ fault' = fault
    <3>1. CASE IdtInit \/ PicInit \/ UsePic
      BY <1>1, <3>1 DEF IdtInit, PicInit, PicStep, UsePic, UseController, At, Go, Quiet, Setting
    <3>2. CASE PitInit \/ SleepStart \/ StartTimer
      BY <1>1, <3>2 DEF PitInit, PicStep, SleepStart, StartTimer, At, Go, Quiet, Setting
    <3>3. CASE PicDisable \/ Registers \/ UseApic
      BY <1>1, <3>3 DEF PicDisable, PicStep, Registers, RegisterLine, UseApic, UseController, At, Go,
                        Quiet, Setting
    <3> QED BY <1>1, <3>1, <3>2, <3>3
  <2> QED BY <1>0, <2>1, SceneSetting DEF Calm, drvVars
<1>2. CASE LoopFaults
  <2>1. pc = "loop" /\ pc' = pc /\ ring.mse # "ready" /\ fault' = "no mouse"
        /\ UNCHANGED <<machine, scancode_set, ring>>
    BY <1>0, <1>2 DEF LoopFaults, At, Calm, drvVars
  <2>2. Up /\ ~Ready /\ Ready' = Ready /\ Up'
    BY <2>1 DEF Scene, Up, Ready
  <2>3. ~Probing' /\ ~Talking' /\ pc' \in Late /\ pc' \notin Setting \cup {"drain"}
    BY <2>1 DEF Probing, Probes, Talking, Late, Setting
  <2> QED BY <2>1, <2>2, <2>3 DEF Scene
<1>3. ~HandlerFaults
  <2>1. HandlerFaults => "early interrupt" \in odd'
    BY DEF HandlerFaults
  <2>2. "early interrupt" \notin odd'
    BY DEF Ordinary
  <2> QED BY <2>1, <2>2
<1>4. CASE \/ Ticks \/ UNCHANGED <<vars, machine>>
           \/ (\E from \in {"PIC", "APIC"} : Interrupt /\ TimerVector \in Pending(from) /\ Timer(from))
  <2>1. hw' = hw /\ UNCHANGED Place
    <3>1. UNCHANGED <<pc, stage, data, fault>>
      BY <1>4 DEF Ticks, vars, Interrupt, Timer
    <3> QED BY <1>0, <3>1 DEF Calm, Place, drvVars
  <2>2. Talking /\ ~Ready => ~hw.obf.full
    BY DEF Scene, Mute
  <2> QED BY <2>1, <2>2, SceneStays
<1>5. CASE \E l \in Questions : Wait(l)
  BY <1>5, SceneWait
<1>6. CASE Unmask("unmask 1", 1, "kbd cap") \/ Unmask("unmask 12", 12, "mse cap")
  BY <1>6, SceneUnmask
<1> QED BY <1>1, <1>2, <1>3, <1>4, <1>5, <1>6 DEF Aside

\* A handler finds what is coming in the buffer, or nothing: a byte that comes meanwhile
\* would be its own.
LEMMA CalledReads ==
  ASSUME Kinds, TwoIsKbds(hw), Sourced(hw), NEW d, NEW irq, NEW from, Called(d, irq, from),
         ~hw.obf.full, Fillings(hw) = {}
  PROVE  /\ hw' = Emptied(hw)
         /\ IF d = "kbd" THEN KeyboardCallback(Timeout) ELSE MouseCallback(Timeout)
<1>0. Callback(d, Vector(irq), from)
  BY DEF Called
<1>1. PICK h, byte :
        /\ h = hw \/ (~hw.obf.full /\ h \in Fillings(hw))
        /\ byte = IF h.obf.full THEN h.obf.byte ELSE Timeout
        /\ IF d = "kbd" THEN KeyboardCallback(byte) ELSE MouseCallback(byte)
        /\ hw' = Emptied(h)
  BY <1>0, CallbackRead
<1>2. h = hw /\ byte = Timeout
  BY <1>1
<1> QED BY <1>1, <1>2

\* The handlers write no event to a buffer that is not there.
LEMMA NoEvent ==
  ASSUME NEW byte
  PROVE  /\ KeyboardCallback(byte) /\ scancode_set \in {"02", Timeout}
              /\ (ring.kbd # "cap" \/ scancode_set # "02") => fault' = ""
         /\ MouseCallback(byte) /\ (ring.mse # "cap" \/ byte = Timeout) => fault' = ""
<1>1. ASSUME KeyboardCallback(byte), scancode_set \in {"02", Timeout}, ring.kbd # "cap" \/ scancode_set # "02"
      PROVE  fault' = ""
  <2>1. PICK key : fault' = CASE scancode_set \in {"01", "03"} -> "todo"
                              [] FaultsWriting("kbd", Decode(decoder, byte, key).ev) -> "no buffer"
                              [] OTHER -> ""
    BY <1>1 DEF KeyboardCallback
  <2>2. ~FaultsWriting("kbd", Decode(decoder, byte, key).ev)
    <3>1. scancode_set # "02" => Decode(decoder, byte, key).ev = <<>>
      BY DecodeFacts
    <3> QED BY <1>1, <3>1 DEF FaultsWriting
  <2>3. scancode_set \notin {"01", "03"}
    BY <1>1 DEF Timeout
  <2> QED BY <2>1, <2>2, <2>3
<1>2. ASSUME MouseCallback(byte), ring.mse # "cap" \/ byte = Timeout
      PROVE  fault' = ""
  <2> DEFINE r == IF byte = Timeout THEN [rest |-> packet, ev |-> <<>>] ELSE Collect(byte)
  <2>1. fault' = IF FaultsWriting("mse", r.ev) THEN "no buffer" ELSE ""
    BY <1>2 DEF MouseCallback
  <2>2. byte = Timeout => r.ev = <<>>
    OBVIOUS
  <2> HIDE DEF r
  <2> QED BY <1>2, <2>1, <2>2 DEF FaultsWriting
<1> QED BY <1>1, <1>2

LEMMA SceneCalled ==
  ASSUME Inv, Kinds, Masks, Latched, TwoIsKbds(hw), Edge, SetUp, Sourced(hw), Scene, Ordinary,
         NEW d, NEW irq, NEW from, Called(d, irq, from)
  PROVE  Scene'
<1>0. /\ hw \in Hardware /\ fault = "" /\ UNCHANGED <<machine, pc, stage, data, scancode_set, ring>>
      /\ "stray" \notin odd
      /\ d = "kbd" => \E byte : KeyboardCallback(byte)
      /\ d # "kbd" => \E byte : MouseCallback(byte)
  <2>1. hw \in Hardware /\ fault = "" /\ UNCHANGED <<machine, pc, stage, data>> /\ Callback(d, Vector(irq), from)
    BY DEF Kinds, Called, Interrupt, Rest
  <2>2. \E byte : IF d = "kbd" THEN KeyboardCallback(byte) ELSE MouseCallback(byte)
    BY <2>1 DEF Callback
  <2>3. UNCHANGED <<scancode_set, ring>>
    BY <2>2 DEF KeyboardCallback, MouseCallback
  <2> QED BY <2>1, <2>2, <2>3 DEF Ordinary
<1>1. \/ d = "kbd" /\ pc \in KeysOn
      \/ d = "mse" /\ pc \in MouseOn
  BY CalledFacts
<1>2. fault' = "" => UNCHANGED Place
  BY <1>0 DEF Place
<1>3. CASE pc = "loop"
  <2>1. scancode_set \in {"02", Timeout}
    BY <1>3 DEF Scene, Up
  <2>2. ring.kbd # "cap" /\ ring.mse # "cap"
    BY <1>3 DEF SetUp
  <2>3. fault' = ""
    BY <1>0, <1>1, <2>1, <2>2, NoEvent
  <2> QED BY <1>2, <1>3, <2>3, SceneStays
<1>4. ASSUME pc # "loop", ~hw.obf.full, Fillings(hw) = {},
             d = "kbd" => scancode_set = Timeout
      PROVE  Scene'
  <2>1. /\ hw' = Emptied(hw)
        /\ d = "kbd" => KeyboardCallback(Timeout)
        /\ d # "kbd" => MouseCallback(Timeout)
    BY <1>4, CalledReads
  <2>2. fault' = ""
    <3>1. Timeout # "02"
      BY DEF Timeout
    <3> QED BY <1>1, <1>4, <2>1, <3>1, NoEvent
  <2>3. \A a, k, m : Coming(hw, a, k, m) => Coming(hw', a, k, m)
    BY <1>0, <1>4, <2>1, EmptiedComing
  <2>4. hw'.clock = hw.clock /\ ~hw'.obf.full
    BY <1>0, <2>1, EmptiedClock
  <2> QED BY <1>2, <1>4, <2>2, <2>3, <2>4, SceneStays
<1>5. CASE d = "kbd" /\ pc \in KeysOn \ {"loop"}
  <2>1. Talking /\ pc \in Late /\ pc # "loop" /\ pc \notin {"reset", "F0", "00", "set"}
    BY <1>5 DEF Talking, KeysOn, Late
  <2>2. CASE Ready
    <3>1. Talk /\ scancode_set = "02"
      BY <2>1, <2>2 DEF Scene, Talk
    <3>2. KeysDue = {<<>>}
      BY <2>1 DEF KeysDue
    <3>3. Stream(hw, "kbd") = <<>>
      BY <3>1, <3>2 DEF Talk, Coming
    <3>4. Holds(hw, "kbd")
      BY <1>0, <1>5, <3>1, CalledHolds
    <3> QED BY <1>0, <3>3, <3>4, StreamFacts
  <2>3. CASE ~Ready
    <3>1. Mute
      BY <2>1, <2>3 DEF Scene
    <3>2. Coming(hw, <<>>, Stream(hw, "kbd"), Stream(hw, "mse"))
      BY <3>1 DEF Mute, Coming
    <3>3. ~hw.obf.full /\ ~hw.clock.kbd /\ ~hw.clock.mse /\ scancode_set = Timeout
      BY <2>1, <3>1, ClockFields DEF Mute
    <3>4. Fillings(hw) = {}
      BY <1>0, <3>2, <3>3, FillWhen
    <3> QED BY <1>4, <2>1, <3>3, <3>4
  <2> QED BY <2>2, <2>3
<1>6. CASE d = "mse" /\ pc \in MouseOn \ {"loop"}
  <2>1. Talking /\ pc \in {"mse cap", "mse buf"}
    BY <1>6 DEF Talking, MouseOn, Late
  <2>2. Ready /\ Talk
    BY <2>1 DEF Scene, Mute
  <2>3. KeysDue = {<<>>} /\ MouseDue = <<>>
    BY <2>1 DEF KeysDue, MouseDue
  <2>4. Coming(hw, <<>>, <<>>, <<>>)
    BY <2>2, <2>3 DEF Talk
  <2>5. ~hw.obf.full
    BY <1>0, <2>4, IdleEmpty DEF Idle
  <2>6. Fillings(hw) = {}
    BY <1>0, <2>4, <2>5, FillWhen
  <2> QED BY <1>4, <1>6, <2>1, <2>5, <2>6
<1> QED BY <1>1, <1>3, <1>5, <1>6

-----------------------------------------------------------------------------
\* Start-up comes up.
UpInv == BytesInv /\ Sourced(hw) /\ SetUp /\ (Ordinary => Scene)

LEMMA InitUp == Init => UpInv
<1> SUFFICES ASSUME Init PROVE UpInv
  OBVIOUS
<1>1. BytesInv
  BY InitBytes
<1>2. /\ pc = "idt_init" /\ fault = "" /\ scancode_set = "0" /\ ring.kbd = "zeroed" /\ ring.mse = "zeroed"
      /\ ~hw.obf.full /\ hw.answers = <<>> /\ hw.kbd = <<>> /\ hw.mse = <<>>
  BY DEF Init, Ps2Init, Empty
<1>3. hw \in Hardware
  BY <1>1 DEF BytesInv, Kinds
<1>4. Idle(hw)
  <2>1. hw["kbd"] = hw.kbd /\ hw["mse"] = hw.mse
    OBVIOUS
  <2>2. ~Holds(hw, "ctrl") /\ ~Holds(hw, "kbd") /\ ~Holds(hw, "mse")
    BY <1>2 DEF Holds
  <2>3. Stream(hw, "kbd") = <<>> /\ Stream(hw, "mse") = <<>>
    BY <1>2, <1>3, <2>1, <2>2, StreamFacts
  <2>4. FromCtrl(hw) = <<>> \o <<>>
    BY <1>2, <2>2 DEF FromCtrl
  <2>5. <<>> \o <<>> = <<>>
    OBVIOUS
  <2> QED BY <2>3, <2>4, <2>5 DEF Idle, Coming
<1>5. pc \in Setting /\ pc \notin Late /\ ~Probing /\ ~Talking /\ pc # "loop"
  BY <1>2 DEF Setting, Late, Probing, Probes, Talking
<1>6. Scene
  BY <1>2, <1>4, <1>5 DEF Scene
<1>7. SetUp
  BY <1>2 DEF SetUp, Polling, Questions, KeysOn, KeysReady, Late
<1> QED BY <1>1, <1>2, <1>6, <1>7 DEF UpInv, Sourced

LEMMA NextUp == UpInv /\ [Next]_<<vars, machine>> => UpInv'
<1> SUFFICES ASSUME UpInv, [Next]_<<vars, machine>> PROVE UpInv'
  OBVIOUS
<1>0. /\ Inv /\ Kinds /\ Masks /\ Reading /\ Latched /\ TwoIsKbds(hw) /\ Edge
      /\ BytesInv /\ Sourced(hw) /\ SetUp
  BY DEF UpInv, BytesInv
<1>1. BytesInv'
  BY <1>0, NextBytes
<1>2. Sourced(hw') /\ SetUp'
  BY <1>0, SourcedStep, SetUpStep
<1>3. ASSUME Ordinary' PROVE Scene'
  <2>1. Ordinary /\ Scene
    BY <1>3, OrdinaryKept DEF UpInv
  <2>2. CASE Aside
    BY <1>0, <1>3, <2>1, <2>2, SceneAside
  <2>3. CASE Buffers
    BY <1>0, <2>1, <2>3, SceneBuffers
  <2>4. CASE Drain
    BY <1>0, <2>1, <2>4, SceneDrain
  <2>5. CASE Fill
    BY <1>0, <2>1, <2>5, SceneFill
  <2>6. CASE Type \/ Move
    BY <1>3, <2>1, <2>6, SceneOutside
  <2>7. ASSUME NEW l \in Questions, Send(l) PROVE Scene'
    BY <1>0, <2>1, <2>7, SceneSend
  <2>8. ASSUME NEW l \in Questions, Read(l) PROVE Scene'
    BY <1>0, <1>3, <2>1, <2>8, SceneRead
  <2>9. ASSUME NEW l \in Questions, GiveUp(l) PROVE Scene'
    BY <1>0, <1>3, <2>1, <2>9, SceneGiveUp
  <2>10. ASSUME NEW d, NEW irq, NEW from, Called(d, irq, from) PROVE Scene'
    BY <1>0, <2>1, <2>10, SceneCalled
  <2> QED BY <2>2, <2>3, <2>4, <2>5, <2>6, <2>7, <2>8, <2>9, <2>10, Shapes
<1> QED BY <1>1, <1>2, <1>3 DEF UpInv

LEMMA UpComes == UpInv => ComesUp
<1> SUFFICES ASSUME UpInv, odd \ {"edge lost"} = {}
             PROVE  /\ fault \in {"", "no mouse"}
                    /\ fault = "no mouse" => ~(machine.works /\ machine.dual)
                    /\ pc = "loop" /\ machine.works /\ machine.dual =>
                         /\ ring = [kbd |-> "ready", mse |-> "ready"]
                         /\ scancode_set = "02" /\ ~machine.keeps
                         /\ machine.apic => ioapic.open = {1, 12}
  BY DEF ComesUp
<1>1. Scene /\ SetUp /\ Inv /\ Kinds
  BY DEF UpInv, BytesInv, Ordinary
<1>2. fault \in {"", "no mouse"} /\ (fault = "no mouse" => ~(machine.works /\ machine.dual))
  BY <1>1 DEF Scene, Ready
<1>3. ASSUME pc = "loop", machine.works, machine.dual
      PROVE  /\ ring = [kbd |-> "ready", mse |-> "ready"]
             /\ scancode_set = "02" /\ ~machine.keeps
             /\ machine.apic => ioapic.open = {1, 12}
  <2>1. scancode_set = "02" /\ ~machine.keeps /\ ring.mse = "ready"
    BY <1>1, <1>3 DEF Scene, Up, Ready
  <2>2. ring.kbd = "ready"
    BY <1>1, <1>3 DEF SetUp, KeysReady, KeysOn, Late
  <2>3. ring = [kbd |-> "ready", mse |-> "ready"]
    BY <1>1, <2>1, <2>2 DEF Kinds
  <2>4. machine.apic => ioapic.open = {1, 12}
    <3>1. SUFFICES ASSUME machine.apic PROVE ioapic.open = {1, 12}
      OBVIOUS
    <3>2. interrupt_controller = "APIC" /\ 1 \in ioapic.open /\ 12 \in ioapic.open
      BY <1>1, <1>3, <2>1, <3>1 DEF SetUp, Polling, KeysOn, Late
    <3>3. ioapic.open \subseteq {1, 12}
      BY <1>1, <3>2 DEF Inv, IoapicSilent
    <3> QED BY <3>2, <3>3
  <2> QED BY <2>1, <2>3, <2>4
<1> QED BY <1>2, <1>3

\* ComesUp: as long as nothing is late, early, typed or moved, kmain stops at no fault but
\* that of the loop for want of a mouse that the controller has no working port for, and
\* when it is in its loop both drivers are set up, the keyboard's set is known and both
\* lines are let through; for every machine, whatever the order of ticks, fillings and
\* interrupts.  That it gets there is not part of it.
THEOREM QuietStartRight == Spec => []ComesUp
<1> QED BY InitUp, NextUp, UpComes, PTL DEF Spec
=============================================================================
