--------------------------------- MODULE Ps2 ---------------------------------
(***************************************************************************)
(* The PS/2 controller with its keyboard and mouse, as far as the drivers  *)
(* see them (external), and the drivers' interrupt halves in              *)
(* kernel/src/drvs/ps2: the scancode decoder and the assembly of mouse     *)
(* packets.  Bytes are named by what they mean to the drivers.             *)
(***************************************************************************)
EXTENDS Integers, Sequences, SequencesExt

CONSTANTS Strokes,  \* the byte sequences the keyboard sends for a key pressed or released
          Packets   \* the mouse's packets, in the order it sends them

VARIABLES
  hw,             \* the controller and the devices
  scancode_set,   \* current_scancode_set
  decoder,        \* released and extended
  packet,         \* packet[0 .. packet_idx - 1]
  ring,           \* how far the event buffers are: "zeroed", "cap" set, "ready"
  kbd_events, mse_events,  \* what the drivers have written to them
  fault           \* why the processor has stopped for good, or nothing

drvVars == <<scancode_set, decoder, packet, ring, kbd_events, mse_events>>

ACK == "FA"
Timeout == "-1"
Empty == [full |-> FALSE, from |-> "none", byte |-> "none"]
-----------------------------------------------------------------------------
(* The controller: one output buffer for its own answers and both devices. *)

\* The firmware may have left the mouse reporting its movements.
Ps2Init(reporting) ==
  /\ hw = [obf |-> Empty, answers |-> <<>>, kbd |-> <<>>, mse |-> <<>>,
           clock |-> [kbd |-> TRUE, mse |-> TRUE], int |-> [kbd |-> TRUE, mse |-> FALSE],
           reporting |-> reporting]
  /\ scancode_set = "0" /\ decoder = [released |-> FALSE, extended |-> FALSE]
  /\ packet = <<>>
  /\ ring = [kbd |-> "zeroed", mse |-> "zeroed"]
  /\ kbd_events = <<>> /\ mse_events = <<>> /\ fault = ""

\* The line a full buffer holds up.
IrqOf == [kbd |-> 1, mse |-> 12]
Line(h) == {IrqOf[d] : d \in {e \in {"kbd", "mse"} : h.obf.full /\ h.obf.from = e /\ h.int[e]}}

\* What an empty buffer may be filled with: the controller's answer before a device's byte.
Fillings(h) ==
  IF h.obf.full THEN {}
  ELSE IF h.answers # <<>>
    THEN {[h EXCEPT !.obf = [full |-> TRUE, from |-> "ctrl", byte |-> Head(h.answers)],
                    !.answers = Tail(@)]}
  ELSE {[h EXCEPT !.obf = [full |-> TRUE, from |-> d, byte |-> Head(h[d])], ![d] = Tail(@)]
          : d \in {e \in {"kbd", "mse"} : h.clock[e] /\ h[e] # <<>>}}

\* inb(PS2_DATA_PORT): an empty buffer gives its last byte again.
Emptied(h) == [h EXCEPT !.obf.full = FALSE]

Answer(h, byte) == [h EXCEPT !.answers = Append(@, byte)]

\* A device answers a command; what it had not sent yet it may drop.
Reply(h, d, bytes, keep) == [h EXCEPT ![d] = (IF keep THEN @ ELSE <<>>) \o bytes]

\* The ports' clocks, and whether the controller holds up a line for their bytes.
Clocks(h, kbd, mse) == [h EXCEPT !.clock = [kbd |-> kbd, mse |-> mse]]
Ints(h, kbd, mse) == [h EXCEPT !.int = [kbd |-> kbd, mse |-> mse]]

\* PS2_CMD_READ_CONFIG
ReadConfig(h) == Answer(h, IF h.clock.mse THEN "port 2 on" ELSE "port 2 off")
-----------------------------------------------------------------------------
(* Decoding.                                                               *)

\* Codes with an entry in scancode_set_2 and scancode_set_2_extended.  Other bytes
\* are past the end of the tables, and what is there is read as a key.
Listed == (UNION {Range(s) : s \in Strokes}) \ {"E0", "F0"}

\* The bytes of keys and movements, as against answers.
Input == UNION {Range(s) : s \in Strokes \cup Range(Packets)}

NoKey == "KEY_NONE"

\* A key's code is its last byte, with E0 before it for an extended key and F0 for
\* its release.
ASSUME StrokesAssumption ==
  \A s \in Strokes :
    /\ s \in Seq(STRING) /\ s # <<>> /\ s[Len(s)] \notin {"E0", "F0", NoKey}
    /\ \A i \in 1 .. Len(s) - 1 : s[i] = "F0" \/ (i = 1 /\ s[i] = "E0")

ASSUME PacketsAssumption == Packets \in Seq(Seq(STRING)) /\ \A p \in Range(Packets) : Len(p) = 3

\* No byte of a key or a movement has the name of an answer.
ASSUME NamesAssumption == Input \cap {ACK, "02", Timeout} = {}

Keys(byte, extended) ==
  IF byte \in Listed THEN {<<byte, extended>>} ELSE {<<NoKey, FALSE>>, <<"garbage", FALSE>>}

\* Mutated form of Decode: the prefix of a release undoes that of an extended key.
DecodeForgets(d, byte, key) ==
  IF scancode_set # "02" THEN [d |-> d, ev |-> <<>>]
  ELSE IF byte = "E0" THEN [d |-> [d EXCEPT !.extended = TRUE], ev |-> <<>>]
  ELSE IF byte = "F0" THEN [d |-> [released |-> TRUE, extended |-> FALSE], ev |-> <<>>]
  ELSE [d |-> [released |-> FALSE, extended |-> FALSE],
        ev |-> IF key[1] = NoKey THEN <<>> ELSE <<<<key, d.released>>>>]

\* ps2_decodeFromScancode, key being what the table gives, and the test for KEY_NONE
\* of ps2_keyboard_callback: at most one event.
Decode(d, byte, key) ==
  IF scancode_set # "02" THEN [d |-> d, ev |-> <<>>]
  ELSE IF byte = "E0" THEN [d |-> [d EXCEPT !.extended = TRUE], ev |-> <<>>]
  ELSE IF byte = "F0" THEN [d |-> [d EXCEPT !.released = TRUE], ev |-> <<>>]
  ELSE [d |-> [released |-> FALSE, extended |-> FALSE],
        ev |-> IF key[1] = NoKey THEN <<>> ELSE <<<<key, d.released>>>>]

\* ringbuf_write before ringbuf_init is done: zeroed, the buffer counts as full and
\* the event is refused; with its capacity set, it is copied through NULL.
Written(events, d, ev) == IF ring[d] = "ready" THEN events \o ev ELSE events
FaultsWriting(d, ev) == ev # <<>> /\ ring[d] = "cap"

\* ps2_keyboard_callback, byte being what ps2_readData returned: -1, for a timeout,
\* passes the test for more than 0xFF and is decoded as 0xFF.  Sets 1 and 3 halt.
KeyboardCallback(byte) ==
  \E key \in Keys(byte, decoder.extended) :
    LET r == Decode(decoder, byte, key)
    IN  /\ decoder' = r.d
        /\ kbd_events' = Written(kbd_events, "kbd", r.ev)
        /\ fault' = CASE scancode_set \in {"01", "03"} -> "todo"
                     [] FaultsWriting("kbd", r.ev) -> "no buffer"
                     [] OTHER -> ""
        /\ UNCHANGED <<scancode_set, packet, ring, mse_events>>

\* packet[packet_idx++] = data; three bytes are an event, whatever they are.
Collect(byte) ==
  IF Len(packet) = 2 THEN [rest |-> <<>>, ev |-> <<Append(packet, byte)>>]
  ELSE [rest |-> Append(packet, byte), ev |-> <<>>]

\* ps2_mouse_callback
MouseCallback(byte) ==
  LET r == IF byte = Timeout THEN [rest |-> packet, ev |-> <<>>] ELSE Collect(byte)
  IN  /\ packet' = r.rest
      /\ mse_events' = Written(mse_events, "mse", r.ev)
      /\ fault' = IF FaultsWriting("mse", r.ev) THEN "no buffer" ELSE ""
      /\ UNCHANGED <<scancode_set, decoder, ring, kbd_events>>
=============================================================================
