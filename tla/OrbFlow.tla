------------------------------ MODULE OrbFlow ------------------------------
(***************************************************************************)
(* The framing end of the trace pipeline, as orbtrace/trace/core.py wires   *)
(* it: ChecksumAppender, COBSEncoder (GroupSplitter, two FIFOs,             *)
(* GroupCombiner, DelimiterAppender) and SuperFramer, one step per clock.   *)
(*                                                                         *)
(* The blocks are joined by valid/ready streams: an item moves in a cycle   *)
(* in which both are high.  in gives what the packetiser offers and whether *)
(* the output FIFO is ready in that cycle; the packetiser may withdraw an   *)
(* offered byte, as the one in tpiu.py does when it times out.  The two     *)
(* FIFOs are sequences: the cycle a byte spends in a FIFO's output register *)
(* is left out.                                                            *)
(*                                                                         *)
(* pend and dec are history: the packets taken and not yet received by a    *)
(* host that undoes COBS, and the state of that host's decoder.             *)
(***************************************************************************)
EXTENDS Integers, Sequences, SequencesExt

CONSTANTS
  ByteMod,    \* number of byte values (256)
  Data,       \* byte values a packet may contain
  Interval,   \* interval of SuperFramer, in cycles
  Threshold,  \* threshold of SuperFramer, in bytes
  MaxBytes    \* bound: bytes taken from the packetiser

ASSUME ByteAssumption ==
  /\ ByteMod \in Nat /\ ByteMod > 3
  /\ Data \subseteq 0 .. ByteMod - 1

ASSUME FramerAssumption ==
  /\ Interval \in Nat \ {0}
  /\ Threshold \in Nat \ {0}
  /\ MaxBytes \in Nat

Byte == 0 .. ByteMod - 1

delimiter == 0

MaxGroup == ByteMod - 2   \* 254

FifoDepth == ByteMod      \* 256

VARIABLES
  ca,        \* ChecksumAppender: state, checksum
  gs,        \* GroupSplitter: cnt, last
  fifo_len,  \* lengths of finished groups
  fifo_data, \* data of the groups
  gc,        \* GroupCombiner: state, cnt, last
  da,        \* DelimiterAppender: state
  sf,        \* SuperFramer
  taken,     \* number of bytes taken from the packetiser
  sum,       \* history: sum of the packet being taken
  pend,      \* history: bytes and packet ends still to be received
  dec        \* history: the host's COBS decoder

flowVars == <<ca, gs, fifo_len, fifo_data, gc, da, sf, taken, sum, pend, dec>>

FlowInit ==
  /\ ca = [state |-> "DATA", checksum |-> 0]
  /\ gs = [cnt |-> 0, last |-> FALSE]
  /\ fifo_len = << >>
  /\ fifo_data = << >>
  /\ gc = [state |-> "HEADER", cnt |-> 0, last |-> FALSE]
  /\ da = "DATA"
  /\ sf = [data |-> 0, last |-> FALSE, valid |-> FALSE, flush |-> FALSE,
           interval_cnt |-> 0, byte_cnt |-> 0]
  /\ taken = 0
  /\ sum = 0
  /\ pend = << >>
  /\ dec = [left |-> 0, code |-> 0, good |-> TRUE, event |-> "none"]

\* What the packetiser offers in a cycle, if anything, and the output FIFO.
FlowInputs ==
  [valid : {taken < MaxBytes}, data : Data, last : BOOLEAN, ready : BOOLEAN]
    \cup [valid : {FALSE}, data : {0}, last : {FALSE}, ready : BOOLEAN]

-----------------------------------------------------------------------------
\* The wires, from the input end: valid and payload of each stream.

ChecksumOut(in) ==
  IF ca.state = "DATA"
  THEN [valid |-> in.valid, data |-> in.data, last |-> FALSE]
  ELSE [valid |-> TRUE, data |-> ca.checksum, last |-> TRUE]

SplitterReady ==
  /\ Len(fifo_data) < FifoDepth
  /\ Len(fifo_len) < FifoDepth
  /\ gs.cnt < MaxGroup
  /\ ~gs.last

SplitterTakes(in) == SplitterReady /\ ChecksumOut(in).valid

\* Mutant of GroupEnds: the maximal length does not finish a group.
GroupEndsOpen(in) ==
  gs.last \/ (SplitterTakes(in) /\ ChecksumOut(in).data = delimiter)

\* GroupSplitter: a group is finished by a delimiter, at the maximal length,
\* or after the packet's last byte.
GroupEnds(in) ==
  \/ gs.cnt = MaxGroup
  \/ gs.last
  \/ SplitterTakes(in) /\ ChecksumOut(in).data = delimiter

GroupByte(in) == SplitterTakes(in) /\ ChecksumOut(in).data # delimiter

\* The code byte: no code is the delimiter.
Header(n) == IF n >= delimiter THEN (n + 1) % ByteMod ELSE n

CombinerOut ==
  IF gc.state = "HEADER"
  THEN IF fifo_len = << >>
       THEN [valid |-> FALSE]
       ELSE LET group == Head(fifo_len)
            IN  [valid |-> TRUE, data |-> Header(group.n),
                 last |-> group.last /\ group.n = 0]
  ELSE IF fifo_data = << >>
       THEN [valid |-> FALSE]
       ELSE [valid |-> TRUE, data |-> Head(fifo_data),
             last |-> gc.last /\ gc.cnt = 0]

\* Mutant of AppenderOut: the packet's own last mark is passed on.
AppenderOutMarked ==
  IF da = "DATA" THEN CombinerOut
  ELSE [valid |-> TRUE, data |-> delimiter, last |-> TRUE]

AppenderOut ==
  IF da = "DATA"
  THEN IF CombinerOut.valid
       THEN [valid |-> TRUE, data |-> CombinerOut.data, last |-> FALSE]
       ELSE [valid |-> FALSE]
  ELSE [valid |-> TRUE, data |-> delimiter, last |-> TRUE]

FlowValid == sf.valid /\ (AppenderOut.valid \/ sf.flush)

OutLast == sf.last /\ sf.flush

OutFires(in) == in.ready /\ FlowValid

FramerTakes(in) == (~sf.valid \/ OutFires(in)) /\ AppenderOut.valid

CombinerFires(in) == da = "DATA" /\ FramerTakes(in)

TakesInput(in) == ca.state = "DATA" /\ in.valid /\ SplitterReady

-----------------------------------------------------------------------------
ChecksumStep(in) ==
  ca' = IF ca.state = "DATA"
        THEN IF TakesInput(in)
             THEN [state    |-> IF in.last THEN "CHECKSUM" ELSE "DATA",
                   checksum |-> (ca.checksum - in.data) % ByteMod]
             ELSE ca
        ELSE IF SplitterReady
             THEN [state |-> "DATA", checksum |-> 0]
             ELSE ca

\* cnt is cleared when the group's length is accepted.
SplitterStep(in) ==
  LET handed == GroupEnds(in) /\ Len(fifo_len) < FifoDepth
  IN  gs' = [cnt  |-> IF handed THEN 0
                      ELSE IF GroupByte(in) THEN gs.cnt + 1 ELSE gs.cnt,
             last |-> \/ SplitterTakes(in) /\ ChecksumOut(in).last
                      \/ gs.last /\ Len(fifo_len) >= FifoDepth]

FifoLenStep(in) ==
  LET pop  == gc.state = "HEADER" /\ fifo_len # << >> /\ CombinerFires(in)
      push == GroupEnds(in) /\ Len(fifo_len) < FifoDepth
  IN  fifo_len' = (IF pop THEN Tail(fifo_len) ELSE fifo_len)
                    \o (IF push THEN <<[n |-> gs.cnt, last |-> gs.last]>> ELSE << >>)

FifoDataStep(in) ==
  LET pop == gc.state = "DATA" /\ CombinerFires(in)
  IN  fifo_data' = (IF pop THEN Tail(fifo_data) ELSE fifo_data)
                     \o (IF GroupByte(in) THEN <<ChecksumOut(in).data>> ELSE << >>)

CombinerStep(in) ==
  gc' = IF ~CombinerFires(in) THEN gc
        ELSE IF gc.state = "HEADER"
        THEN LET group == Head(fifo_len)
             IN  IF group.n > 0
                 THEN [state |-> "DATA", cnt |-> group.n - 1, last |-> group.last]
                 ELSE gc
        ELSE [gc EXCEPT !.state = IF gc.cnt = 0 THEN "HEADER" ELSE "DATA",
                        !.cnt   = (@ - 1) % ByteMod]

AppenderStep(in) ==
  da' = IF da = "DATA"
        THEN IF CombinerFires(in) /\ CombinerOut.last THEN "DELIMITER" ELSE "DATA"
        ELSE IF FramerTakes(in) THEN "DATA" ELSE "DELIMITER"

\* flush is raised after an interval with little traffic, and lowered by the
\* end of packet it closes a superframe with.
FlushNext(in) ==
  IF sf.interval_cnt = Interval /\ sf.byte_cnt < Threshold THEN TRUE
  ELSE sf.flush /\ ~(OutFires(in) /\ OutLast)

\* SuperFramer keeps one byte back until the next one comes or flush is up.
FramerStep(in) ==
  LET over == sf.interval_cnt = Interval
  IN  sf' =
        [data  |-> IF FramerTakes(in) THEN AppenderOut.data ELSE sf.data,
         last  |-> IF FramerTakes(in) THEN AppenderOut.last ELSE sf.last,
         valid |-> FramerTakes(in) \/ (sf.valid /\ ~OutFires(in)),
         flush |-> FlushNext(in),
         interval_cnt |-> IF over THEN 0
                          ELSE IF sf.valid THEN sf.interval_cnt + 1
                          ELSE sf.interval_cnt,
         byte_cnt |-> IF over THEN 0
                      ELSE IF OutFires(in) /\ sf.byte_cnt < Threshold
                           THEN sf.byte_cnt + 1 ELSE sf.byte_cnt]

-----------------------------------------------------------------------------
\* History.  A packet is its bytes, the byte that makes their sum zero, and
\* its end.
End == -1

\* COBS as a host decodes it: a code byte of a group that was not maximal
\* stands for a delimiter in the packet, unless it is the packet's first.
FlowDecoded(b) ==
  IF b = delimiter THEN <<End>>
  ELSE IF dec.left > 0 THEN <<b>>
  ELSE IF dec.code \in {0, MaxGroup + 1} THEN << >>
  ELSE <<delimiter>>

PendStep(in) ==
  /\ taken' = IF TakesInput(in) THEN taken + 1 ELSE taken
  /\ sum' = IF ~TakesInput(in) THEN sum
            ELSE IF in.last THEN 0 ELSE (sum + in.data) % ByteMod
  /\ LET closing == <<-(sum + in.data) % ByteMod, End>>
         new     == IF ~TakesInput(in) THEN << >>
                    ELSE IF in.last THEN <<in.data>> \o closing ELSE <<in.data>>
         gone    == IF OutFires(in) THEN Len(FlowDecoded(sf.data)) ELSE 0
     IN  pend' = SubSeq(pend \o new, 1 + gone, Len(pend \o new))

DecodeStep(in) ==
  IF ~OutFires(in)
  THEN dec' = [dec EXCEPT !.event = "none"]
  ELSE dec' =
    [left  |-> IF sf.data = delimiter THEN 0
               ELSE IF dec.left > 0 THEN dec.left - 1 ELSE sf.data - 1,
     code  |-> IF sf.data = delimiter THEN 0
               ELSE IF dec.left > 0 THEN dec.code ELSE sf.data,
     good  |-> /\ dec.good
               /\ IsPrefix(FlowDecoded(sf.data), pend)
               /\ sf.data = delimiter => dec.left = 0,
     event |-> IF sf.data = delimiter THEN "end" ELSE "byte"]

\* One clock edge.
FlowClock(in) ==
  /\ ChecksumStep(in)
  /\ SplitterStep(in)
  /\ FifoLenStep(in)
  /\ FifoDataStep(in)
  /\ CombinerStep(in)
  /\ AppenderStep(in)
  /\ FramerStep(in)
  /\ PendStep(in)
  /\ DecodeStep(in)

FlowNext == \E in \in FlowInputs : FlowClock(in)

FlowSpec == FlowInit /\ [][FlowNext]_flowVars

\* The clock runs and the output FIFO is not full for ever: the host reads it.
FlowFairness ==
  /\ WF_flowVars(FlowNext)
  /\ WF_flowVars(\E in \in FlowInputs : in.ready /\ FlowClock(in))

FlowFairSpec == FlowSpec /\ FlowFairness

-----------------------------------------------------------------------------
\* The registers stay in their range and the FIFOs in their depth.
FlowTypeOK ==
  /\ ca.state \in {"DATA", "CHECKSUM"} /\ ca.checksum \in Byte
  /\ gs.cnt \in 0 .. MaxGroup
  /\ Len(fifo_len) <= FifoDepth
  /\ Len(fifo_data) <= FifoDepth
  /\ ToSet(fifo_data) \subseteq Byte \ {delimiter}
  /\ gc.state \in {"HEADER", "DATA"} /\ gc.cnt \in Byte
  /\ da \in {"DATA", "DELIMITER"}
  /\ sf.data \in Byte
  /\ sf.interval_cnt \in 0 .. Interval
  /\ sf.byte_cnt \in 0 .. Threshold

\* The host's COBS decoder gets back the packets that went in, each followed
\* by the byte that makes its sum zero, in order and without loss, and a
\* delimiter only where a packet ends.
DecodesBack == dec.good

\* A superframe, which becomes one USB transfer, ends where a packet ends.
SuperframeWhole ==
  FlowValid /\ OutLast => sf.data = delimiter /\ dec.left = 0

\* A COBS decoder gets back the packets that went in, each with the byte that
\* makes its sum zero, and a superframe ends where a packet ends.
FlowRight == FlowTypeOK /\ DecodesBack /\ SuperframeWhole

\* A packet that was taken as a whole reaches the host: no group is left open
\* and no full FIFO blocks the one that would empty it.
PacketTaken == Contains(pend, End)
PacketOut == dec.event = "end"
=============================================================================
