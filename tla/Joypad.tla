------------------------------- MODULE Joypad -------------------------------
(***************************************************************************)
(* The joypads (hw/input/joypad.cpp): two serial ports that the program    *)
(* clocks itself through $4016 and $4017, and the automatic read that      *)
(* clocks them during VBlank.  The automatic read is a sequence of edges   *)
(* every EdgeCycles cycles, performed only when somebody catches the       *)
(* device up, and at each edge it looks at bit 0 of NMITIMEN, which is     *)
(* passed in: every caller in CpuMmio catches the device up first.         *)
(***************************************************************************)
EXTENDS Integers

CONSTANTS
  PadBits,      \* buttons in a shift register, 16
  EdgeCycles,   \* 128
  PhaseCycles,  \* 256
  FirstStart,   \* first automatic read, cycles into VBlank, 298
  EarliestStart \* later ones, at the earliest, 130

ASSUME JoypadAssumption ==
  {PadBits, EdgeCycles, PhaseCycles, FirstStart, EarliestStart} \subseteq Nat \ {0}

Pads == 0..1
LastEdge == 2 * PadBits + 1

(***************************************************************************)
(* Joypad::Reset.  The buttons held are not the device's to clear.         *)
(***************************************************************************)
ResetJoypad(buttons) ==
  [local_time |-> 0, states |-> buttons,
   shift |-> [port \in Pads |-> 0], count |-> [port \in Pads |-> 0], strobe |-> FALSE,
   results |-> [port \in Pads |-> 0], sampled |-> [port \in Pads |-> 0],
   active |-> FALSE, edge |-> 0, next_edge |-> 0, start_seen |-> FALSE, last_start |-> 0]

SetButtons(j, port, buttons) == [j EXCEPT !.states[port] = buttons]

(***************************************************************************)
(* ReadSerial: the value and the port afterwards.                          *)
(***************************************************************************)
TopBit(x) == x \div 2^(PadBits - 1)

SerialValue(j, port) ==
  CASE j.strobe -> TopBit(j.states[port])
    [] ~j.strobe /\ j.count[port] >= PadBits -> 1
    [] ~j.strobe /\ j.count[port] < PadBits -> TopBit(j.shift[port])

AfterSerial(j, port) ==
  CASE j.strobe -> [j EXCEPT !.shift[port] = j.states[port], !.count[port] = 0]
    [] ~j.strobe /\ j.count[port] >= PadBits -> j
    [] ~j.strobe /\ j.count[port] < PadBits ->
         [j EXCEPT !.shift[port] = (2 * @) % 2^PadBits, !.count[port] = @ + 1]

LoadPads(j) == [j EXCEPT !.shift = j.states, !.count = [port \in Pads |-> 0]]

WriteJoySer0(j, strobe) ==
  [(IF strobe \/ j.strobe THEN LoadPads(j) ELSE j) EXCEPT !.strobe = strobe]

(***************************************************************************)
(* One edge of the automatic read: the first releases the latch, an even   *)
(* one samples both ports, an odd one shifts the samples into the results. *)
(* A sequence that finds automatic reading off is over.                    *)
(***************************************************************************)
SamplePads(j) ==
  [AfterSerial(AfterSerial(j, 0), 1) EXCEPT !.sampled = [port \in Pads |-> SerialValue(j, port)]]

ShiftResults(j) ==
  [j EXCEPT !.results = [port \in Pads |-> (2 * @[port] + j.sampled[port]) % 2^PadBits]]

Edge(j, enabled) ==
  LET k == j.edge + 1
      q == CASE k = 1 -> j
             [] k # 1 /\ ~enabled -> [j EXCEPT !.active = FALSE]
             [] k # 1 /\ enabled /\ k % 2 = 0 -> SamplePads(j)
             [] k # 1 /\ enabled /\ k % 2 = 1 -> [ShiftResults(j) EXCEPT !.active = k # LastEdge]
  IN  [q EXCEPT !.edge = k, !.next_edge = @ + EdgeCycles]

RECURSIVE RunEdges(_, _, _)
RunEdges(j, target, enabled) ==
  IF j.active /\ j.next_edge <= target THEN RunEdges(Edge(j, enabled), target, enabled) ELSE j

CatchUpJoypad(j, target, enabled) ==
  IF target <= j.local_time THEN j
  ELSE [RunEdges(j, target, enabled) EXCEPT !.local_time = target]

(***************************************************************************)
(* OnVblankStart fixes when the automatic read begins: the clock of the    *)
(* sequence runs freely in steps of PhaseCycles from its first start.      *)
(***************************************************************************)
AutoStart(j, boundary) ==
  LET steps == (boundary + EarliestStart - j.last_start + PhaseCycles - 1) \div PhaseCycles
  IN  IF j.start_seen THEN j.last_start + steps * PhaseCycles ELSE boundary + FirstStart

OnVblankStart(j, boundary) ==
  [j EXCEPT !.start_seen = TRUE, !.last_start = AutoStart(j, boundary)]

StartAutoRead(j, start, enabled) ==
  LET q == CatchUpJoypad(j, start, enabled)
      r == IF enabled THEN [LoadPads(q) EXCEPT !.results = [port \in Pads |-> 0]] ELSE q
  IN  [r EXCEPT !.active = TRUE, !.edge = 0, !.next_edge = start + EdgeCycles]

AutoReadBusy(j, enabled) == j.active /\ enabled
=============================================================================
