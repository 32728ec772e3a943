------------------------------ MODULE SerialLed ------------------------------
(***************************************************************************)
(* The LEDs of the SoC on one wire: LEDCtrl of led_ctrl.py and              *)
(* SerialLedController of serial_led.py, one step per clock.  The LEDs may  *)
(* change in any clock, and the generator reads them bit by bit.            *)
(*                                                                         *)
(* chain is what hangs on the wire: it takes a long pulse for a one and a   *)
(* short one for a zero, and a pause ends the frame.                       *)
(***************************************************************************)
EXTENDS Integers, Sequences

CONSTANTS
  LedCount,    \* LEDs on the wire (5)
  ColourBits,  \* bits of a colour (8)
  Brightness,  \* a colour that is on, its bits, the uppermost first (8)
  BitTime,     \* time_bit_4
  EndTime,     \* time_end
  LedStates,   \* what the SoC may show on an LED, and a register may force: sets of colours
  Forced       \* which LEDs the register may force

ASSUME LedAssumption ==
  /\ {LedCount, ColourBits, BitTime} \subseteq Nat \ {0}
  /\ Brightness \in [1 .. ColourBits -> BOOLEAN]
  /\ EndTime \in Nat /\ EndTime > 3 * BitTime + 2

VARIABLES
  inputs,     \* LEDCtrl: what the SoC shows
  storage,    \* LEDCtrl: the register, [force, leds]
  led,        \* Generator: cnt
  mux,        \* Converter: the bit of the LED
  out,        \* Output: state, cnt, data, last
  chain       \* the LEDs on the wire, and what they had to get

ledVars == <<inputs, storage, led, mux, out, chain>>

Leds == 0 .. LedCount - 1
LedBits == 3 * ColourBits

LedInit ==
  /\ inputs \in [Leds -> LedStates]
  /\ storage = [force |-> {}, leds |-> inputs]
  /\ led = 0 /\ mux = 0
  /\ out = [state |-> "IDLE", cnt |-> 0, data |-> FALSE, last |-> FALSE]
  /\ chain = [high |-> 0, low |-> 0, bits |-> 0, seen |-> {}, good |-> TRUE]

-----------------------------------------------------------------------------
\* LEDCtrl.
outputs(i) == IF i \in storage.force THEN storage.leds[i] ELSE inputs[i]

\* Cast: blue lies lowest, green highest, and the Converter sends the highest bit first.
Colour(n) == <<"g", "r", "b">>[(n \div ColourBits) + 1]

\* BrightnessController: bit n of LED i as it is sent.
Bit(i, n) == Colour(n) \in outputs(i) /\ Brightness[(n % ColourBits) + 1]

LastBit == mux = LedBits - 1

\* Mutant of OutputReady: the data is taken as its pulse begins, and again as it ends.
OutputReadyTwice == out.cnt = 0 /\ out.state \in {"IDLE", "HIGH"}

OutputReady == out.state = "HIGH" /\ out.cnt = 0

\* Generator and Converter: the next bit, and after the last one of an LED the next LED.
SourceStep ==
  /\ mux' = IF OutputReady THEN (mux + 1) % LedBits ELSE mux
  /\ led' = IF OutputReady /\ LastBit THEN (led + 1) % LedCount ELSE led

\* Output: a quarter high, a quarter the bit, and two low; a pause after the last.
Enter(state, time) == [out EXCEPT !.state = state, !.cnt = time]
OutputStep ==
  out' =
    CASE out.state = "IDLE" -> Enter("HIGH", BitTime)
      [] out.state # "IDLE" /\ out.cnt # 0 -> [out EXCEPT !.cnt = @ - 1]
      [] out.state = "HIGH" /\ out.cnt = 0 ->
           [Enter("DATA", BitTime) EXCEPT !.data = Bit(led, mux),
                                          !.last = LastBit /\ led = LedCount - 1]
      [] out.state = "DATA" /\ out.cnt = 0 -> Enter("LOW", 2 * BitTime)
      [] out.state = "LOW" /\ out.cnt = 0 ->
           IF out.last THEN Enter("END", EndTime) ELSE Enter("HIGH", BitTime)
      [] out.state = "END" /\ out.cnt = 0 -> Enter("IDLE", 0)

Wire == out.state = "HIGH" \/ (out.state = "DATA" /\ out.data)

-----------------------------------------------------------------------------
\* The chain on the wire.  A pulse of more than one and a half quarters is a one; its
\* bit is right if its LED had that colour, or not, in a clock since the pulse before.  A
\* pause of EndTime shows the frame, which has to be whole.
Pulse == 2 * chain.high > 3 * (BitTime + 1)

FrameBits == LedCount * LedBits

\* Whether the LED that bit n of a frame belongs to has the bit's colour.
Asked(n) == Colour(n % LedBits) \in outputs((n % FrameBits) \div LedBits)

PulseRight ==
  /\ chain.bits < FrameBits
  /\ IF Brightness[(chain.bits % ColourBits) + 1] THEN Pulse \in chain.seen ELSE ~Pulse

Paused == chain.low >= EndTime

ChainStep ==
  chain' =
    IF Wire
    THEN [chain EXCEPT !.high = @ + 1, !.low = 0, !.seen = @ \cup {Asked(chain.bits)},
                       !.bits = IF Paused THEN 0 ELSE @,
                       !.good = @ /\ (Paused => chain.bits \in {0, FrameBits})]
    ELSE IF chain.high # 0
    THEN [chain EXCEPT !.high = 0, !.low = 1, !.bits = @ + 1, !.seen = {Asked(chain.bits + 1)},
                       !.good = @ /\ PulseRight]
    ELSE [chain EXCEPT !.low = IF Paused THEN @ ELSE @ + 1, !.seen = @ \cup {Asked(chain.bits)}]

\* The SoC shows something else, or the register is written.
Show == inputs' \in [Leds -> LedStates] /\ UNCHANGED storage
WriteRegister ==
  /\ \E force \in SUBSET Forced, i \in Forced, s \in LedStates :
       storage' = [force |-> force, leds |-> [storage.leds EXCEPT ![i] = s]]
  /\ UNCHANGED inputs

LedNext ==
  /\ SourceStep /\ OutputStep /\ ChainStep
  /\ Show \/ WriteRegister

LedSpec == LedInit /\ [][LedNext]_ledVars

-----------------------------------------------------------------------------
\* Every LED of the chain gets its own colours, one the register forces the register's,
\* whatever changes while the frame is sent, and every frame has the bits of all LEDs and
\* ends with the pause that shows it: no bit is sent to the LED before or after.
LedsRight == chain.good
=============================================================================
