--------------------------------- MODULE Swo ---------------------------------
(***************************************************************************)
(* orbtrace/trace/swo.py with its wiring in core.py: a single line, sampled *)
(* twice a clock, becomes lengths of pulses, and these become bytes: a UART  *)
(* (NRZ) or Manchester frames, as input_format says.                        *)
(*                                                                         *)
(* The line is drawn by its time: a frame is a gap and then bits of BitTime  *)
(* each, in the unit of time of which a sample takes SampleTime.  Where the  *)
(* edges fall between the samples differs from frame to frame with the gap.  *)
(* Words of the code that hold a bit for each of eight data bits have one    *)
(* for each of ByteBits here.                                               *)
(***************************************************************************)
EXTENDS Naturals, Sequences, SequencesExt

CONSTANTS
  SampleTime,           \* of a sample, in units of time
  BitTimes,             \* of a bit: for each format a set of times
  Gaps,                 \* how long the line may rest before a frame
  ByteBits,
  FlushCount,           \* the count at which a pulse is given out anyway (2^15)
  PulseDepth,            \* of swo2x_fifo
  EdgeLimit,            \* the bits of a Manchester frame before a forced reset (128)
  Scale,                \* the fixed-point one of a count (16)
  Thresholds,           \* <<c, short, long>>: the fixed thresholds for pulses up to c
  Formats,              \* of input_format: "nrz", "manchester"
  SwoFrames                \* what is sent: for each format a set of sequences of bits

VARIABLES
  format, BitTime,
  gap, bits, t,                  \* the frame on the line, and the time since it began
  state, count, last,            \* PulseLengthCapture, last is its output
  pulses,                        \* swo2x_fifo
  acc, cnt, level,               \* NRZDecoder
  uart, sr,                      \* UARTDecoder; sr is also that of BitsToBytes
  fsm, short, long, edges, first,\* ManchesterDecoder
  sent, right                    \* history: the bytes sent and not yet decoded, and
                                 \* whether all decoded were the next of them

source == <<gap, bits, t>>
capture == <<state, count, last>>
nrz == <<acc, cnt, level, uart>>
manchester == <<fsm, short, long, edges, first>>
conf == <<format, BitTime>>
swoVars == <<conf, source, capture, pulses, nrz, sr, manchester, sent, right>>

Zeros(n) == [i \in 1 .. n |-> 0]
NoPulse == [level |-> 0, count |-> 0, valid |-> FALSE]

\* The level of the line at rest.
Rest == IF format = "nrz" THEN 1 ELSE 0

SwoInit ==
  /\ format \in Formats /\ BitTime \in BitTimes[format]
  /\ gap = 0 /\ bits = << >> /\ t = 0
  /\ state = <<Rest, Rest, Rest>> /\ count = 0 /\ last = NoPulse
  /\ pulses = << >>
  /\ acc = 0 /\ cnt = 0 /\ level = 0 /\ uart = "WAITSTART"
  /\ sr = Zeros(ByteBits + IF format = "nrz" THEN 2 ELSE 1)
  /\ fsm = "IDLE" /\ short = 0 /\ long = 0 /\ edges = 0 /\ first = FALSE
  /\ sent = << >> /\ right = TRUE

-----------------------------------------------------------------------------
\* The level of the line at a time: in NRZ a bit is its level, in Manchester a bit
\* is high and low, or low and high.
LevelAt(time) ==
  LET i == ((time - gap) \div BitTime) + 1
      later == (time - gap) % BitTime >= BitTime \div 2
  IN  IF time < gap \/ i > Len(bits) THEN Rest
      ELSE IF format = "manchester" /\ later THEN 1 - bits[i] ELSE bits[i]

FrameTime == gap + Len(bits) * BitTime

\* In NRZ a frame is a byte between a start and a stop bit, in Manchester any number
\* of bits after a start bit, and at least a bit of rest.
Framed(data) == IF format = "nrz" THEN <<0>> \o data \o <<1>> ELSE <<1>> \o data

\* The bytes in the bits of a frame.
BytesOf(data) ==
  [k \in 1 .. Len(data) \div ByteBits |-> SubSeq(data, (k - 1) * ByteBits + 1, k * ByteBits)]

\* At the end of a frame the next begins, or the line rests for good (t = 1).
SendFrame ==
  /\ bits = << >> /\ t = 0
  /\ \E data \in SwoFrames[format], g \in Gaps :
       /\ gap' = g + (IF format = "manchester" THEN BitTime ELSE 0)
       /\ bits' = Framed(data)
       /\ sent' = sent \o BytesOf(data)
  /\ UNCHANGED <<conf, t, capture, pulses, nrz, sr, manchester, right>>

\* One of the two new samples still belongs to the pulse that ends.
SplitCount == count + 1

\* A level that stays is given out from time to time.
Flush == count >= FlushCount

\* Two samples, and what they make of the count: state is the sample before them,
\* then the two as they were a clock ago.
Sample ==
  /\ last.valid => Len(pulses) < PulseDepth
  /\ state' = <<state[3], LevelAt(t), LevelAt(t + SampleTime)>>
  /\ LET both == state[2] # state[1] /\ state[3] # state[1]
         one == state[2] = state[1] /\ state[3] # state[1]
     IN  /\ last' = [level |-> state[1], valid |-> Flush \/ both \/ one,
                     count |-> CASE both -> count [] one -> SplitCount [] Flush -> count [] OTHER -> 0]
         /\ count' = CASE both -> 2 [] one -> 1 [] Flush -> 0 [] OTHER -> (count + 2) % (2 * FlushCount)
  /\ pulses' = IF last.valid THEN Append(pulses, [level |-> last.level, count |-> last.count]) ELSE pulses
  /\ IF bits = << >> THEN t' = 1 /\ UNCHANGED <<gap, bits>>
     ELSE IF t + 2 * SampleTime >= FrameTime THEN t' = 0 /\ gap' = 0 /\ bits' = << >>
     ELSE t' = t + 2 * SampleTime /\ UNCHANGED <<gap, bits>>
  /\ UNCHANGED <<conf, nrz, sr, manchester, sent, right>>

\* A byte comes out.
Decoded(b) ==
  /\ right' = (right /\ sent # << >> /\ Head(sent) = b)
  /\ sent' = IF sent = << >> THEN sent ELSE Tail(sent)

-----------------------------------------------------------------------------
\* bitlen, by the divider of core.py.
BitLen == (BitTime * Scale) \div SampleTime

\* Mutant of Bias: counts are cut off, not rounded.
BiasNone == 0

Bias == BitLen \div 2

\* A pulse is so many bits at most: a byte, start and stop, and a few of rest.
MaxBits == ByteBits + 4

nrz_valid == acc >= BitLen /\ cnt < MaxBits

\* What is left of a pulse after a bit, forgotten if it gives no more.
Left == IF acc - BitLen < BitLen \/ cnt + 1 = MaxBits THEN 0 ELSE acc - BitLen

Shifted(b) == Append(Tail(sr), b)

\* A clock of NRZDecoder and UARTDecoder: a pulse is cut into bits of BitLen, the
\* bits are shifted in until the one that was set when the start came is at the end.
Nrz ==
  /\ format = "nrz"
  /\ LET valid == sr[1] = 1 /\ sr[ByteBits + 2] = 1
         shift == nrz_valid /\ ~valid
         take == ~nrz_valid /\ pulses # << >>
     IN  /\ shift \/ take \/ valid \/ (uart = "GETBITS" /\ sr[1] = 1)
         /\ pulses' = IF take THEN Tail(pulses) ELSE pulses
         /\ acc' = CASE take -> Head(pulses).count * Scale + Bias [] shift -> Left [] OTHER -> acc
         /\ cnt' = CASE take -> 0 [] shift /\ Left # 0 -> cnt + 1 [] OTHER -> cnt
         /\ level' = IF take THEN Head(pulses).level ELSE level
         /\ uart' = IF uart = "WAITSTART" THEN IF shift /\ level = 0 THEN "GETBITS" ELSE uart
                    ELSE IF sr[1] = 1 THEN "WAITSTART" ELSE uart
         /\ sr' = CASE valid -> Zeros(ByteBits + 1) \o <<1>>
                    [] shift /\ uart = "WAITSTART" /\ level = 0 -> Zeros(ByteBits + 1) \o <<1>>
                    [] shift /\ uart = "GETBITS" -> Shifted(level)
                    [] OTHER -> sr
         /\ IF valid THEN Decoded(SubSeq(sr, 2, ByteBits + 1)) ELSE UNCHANGED <<sent, right>>
  /\ UNCHANGED <<conf, source, capture, manchester>>

-----------------------------------------------------------------------------
\* The pulse that starts a frame is half a bit and says how long the others are.
Measured(c) ==
  IF c > Thresholds[1] THEN <<c + c \div 2, 2 * c + c \div 2>> ELSE <<Thresholds[2], Thresholds[3]>>

\* The next bit is the first of a frame.
Marked == TRUE

\* A frame begins.
Sync(p) ==
  /\ fsm' = "CENTER" /\ first' = Marked /\ edges' = 0
  /\ short' = Measured(p.count)[1] /\ long' = Measured(p.count)[2]

\* A frame ends: what was measured of it is forgotten.
Idle == fsm' = "IDLE" /\ short' = 0 /\ long' = 0 /\ edges' = 0 /\ UNCHANGED first

\* A bit goes to BitsToBytes: the first of a frame is put behind a mark, which comes
\* to the end with the last bit of a byte.
Capture(b) ==
  /\ first' = FALSE /\ edges' = edges + 1
  /\ fsm' = IF edges + 1 = EdgeLimit THEN "IDLE" ELSE "CENTER"
  /\ LET next == IF first THEN Zeros(ByteBits - 1) \o <<1, b>> ELSE Append(Tail(sr), b)
     IN  IF next[1] = 1
         THEN Decoded(SubSeq(next, 2, ByteBits + 1)) /\ sr' = Zeros(ByteBits) \o <<1>>
         ELSE sr' = next /\ UNCHANGED <<sent, right>>

\* ManchesterDecoder takes a pulse, BitsToBytes is ready before the next comes.
Manchester ==
  /\ format = "manchester" /\ pulses # << >>
  /\ pulses' = Tail(pulses)
  /\ LET p == Head(pulses)
         isShort == p.count <= short
         isLong == p.count > short /\ p.count <= long
     IN  CASE fsm = "IDLE" /\ p.level = 1 /\ p.count < FlushCount \div 2 ->
                Sync(p) /\ UNCHANGED <<sr, sent, right>>
           [] (fsm = "CENTER" /\ isLong) \/ (fsm = "EDGE" /\ isShort) ->
                Capture(p.level) /\ UNCHANGED <<short, long>>
           [] fsm = "CENTER" /\ isShort -> fsm' = "EDGE" /\ UNCHANGED <<sr, sent, right, short, long, edges, first>>
           [] OTHER -> Idle /\ UNCHANGED <<sr, sent, right>>
  /\ UNCHANGED <<conf, source, capture, nrz>>

SwoNext == SendFrame \/ Sample \/ Nrz \/ Manchester

SwoSpec == SwoInit /\ [][SwoNext]_swoVars

\* All clocks run.
SwoFairSpec == SwoSpec /\ WF_swoVars(Sample) /\ WF_swoVars(Nrz) /\ WF_swoVars(Manchester)

-----------------------------------------------------------------------------
\* The bytes decoded are those sent, in order, wherever the edges fall between the
\* samples, however many bits alike come in a row, and, in Manchester, although a
\* frame breaks off in the middle of a byte.
BytesRight == right

\* The last byte comes out too, although no edge may follow it.
LineRests == bits = << >> /\ t = 1
AllOut == sent = << >>
=============================================================================
