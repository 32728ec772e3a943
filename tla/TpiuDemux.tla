----------------------------- MODULE TpiuDemux -----------------------------
(***************************************************************************)
(* TPIUDemux of orbtrace/trace/tpiu.py: Unmangle, Serializer, TrackStream,  *)
(* StripChannelZero and Packetizer, or the bypass into the Packetizer, one  *)
(* step per clock.                                                          *)
(*                                                                         *)
(* A TPIU frame has FrameLen bytes and an auxiliary byte (15 and one).  Of  *)
(* an even byte bit 0 says that it is an ID, and its bit of the auxiliary   *)
(* byte is bit 0 of a data byte, or says that the ID counts only after the  *)
(* next data byte.  A byte is the number 2 * (its upper bits) + bit 0.      *)
(*                                                                         *)
(* expect, owed and rx are history: the channel before the frame at hand    *)
(* and the places in it of the bytes it has still to yield, the bytes taken *)
(* by the Packetizer and not yet sent, and the packet its reader is in.     *)
(***************************************************************************)
EXTENDS Integers, Sequences, FiniteSetsExt

CONSTANTS
  FrameLen,   \* bytes of a frame besides the auxiliary byte
  TpiuFrames,     \* frames the trace port may carry: [bytes, aux]
  RawBytes,   \* bytes that may come through the bypass
  Timeout,    \* timeout of the Packetizer, in cycles
  max_size,   \* bytes of a packet
  Bypass,     \* values of the bypass input
  MaxItems    \* bound: frames and bypassed bytes

\* Nothing follows the last byte of a frame that its ID could wait for.
ASSUME FrameAssumption ==
  /\ FrameLen \in Nat /\ FrameLen % 2 = 1
  /\ << >> \notin TpiuFrames
  /\ \A fr \in TpiuFrames :
       /\ fr.bytes \in [0 .. FrameLen - 1 -> Nat]
       /\ fr.aux \in [0 .. FrameLen \div 2 -> {0, 1}]
       /\ fr.bytes[FrameLen - 1] % 2 = 1 => fr.aux[FrameLen \div 2] = 0

ASSUME PacketizerAssumption ==
  /\ Timeout \in Nat \ {0}
  /\ max_size \in Nat \ {0, 1}
  /\ Bypass \subseteq BOOLEAN
  /\ MaxItems \in Nat

None == -1

VARIABLES
  frame,    \* the frame offered by the FIFO in front, or << >>
  bypass,   \* the bypass input
  idx,      \* Serializer
  ts,       \* TrackStream: channel, next_channel, next_channel_valid
  pk,       \* Packetizer: state, channel, data, byte_cnt, timeout_cnt
  items,    \* number of frames and bypassed bytes so far
  expect, owed, rx

demuxVars == <<frame, bypass, idx, ts, pk, items, expect, owed, rx>>

DemuxInit ==
  /\ frame = << >>
  /\ bypass \in Bypass
  /\ idx = 0
  /\ ts = [channel |-> 0, next |-> 0, next_valid |-> FALSE]
  /\ pk = [state |-> "HEADER", channel |-> 0, data |-> 0, byte_cnt |-> 0,
           timeout_cnt |-> 0]
  /\ items = 0
  /\ expect = [before |-> 0, left |-> {}, good |-> TRUE]
  /\ owed = << >>
  /\ rx = [channel |-> None, size |-> 0, good |-> TRUE]

-----------------------------------------------------------------------------
\* Wires.

IsIdByte(b) == b % 2 = 1

\* Unmangle and Serializer: byte idx of the frame.
Unmangled(i) ==
  IF i % 2 = 0
  THEN [is_id |-> IsIdByte(frame.bytes[i]),
        data  |-> 2 * (frame.bytes[i] \div 2) + frame.aux[i \div 2]]
  ELSE [is_id |-> FALSE, data |-> frame.bytes[i]]

\* TrackStream: IDs go no further.
TrackValid == frame # << >> /\ ~Unmangled(idx).is_id

\* StripChannelZero: the bytes of channel zero go no further.
StripValid == TrackValid /\ ts.channel # 0

\* The Packetizer's input: the bytes of the frame, or the bypass, all of it
\* channel 1.
PkIn(in) ==
  IF bypass
  THEN [valid |-> in.raw # None, data |-> in.raw, channel |-> 1]
  ELSE IF StripValid
  THEN [valid |-> TRUE, data |-> Unmangled(idx).data, channel |-> ts.channel]
  ELSE [valid |-> FALSE, data |-> 0, channel |-> 0]

StartNewPacket(in) ==
  \/ PkIn(in).valid /\ PkIn(in).channel # pk.channel
  \/ pk.byte_cnt >= max_size - 1
  \/ pk.timeout_cnt = 0

PkReady(in) ==
  /\ in.ready
  /\ pk.state = "HEADER" \/ (pk.state = "DATA" /\ ~StartNewPacket(in))

PkTakes(in) == PkReady(in) /\ PkIn(in).valid

PkOut(in) ==
  CASE pk.state = "HEADER" ->
         [valid |-> PkIn(in).valid, data |-> PkIn(in).channel, last |-> FALSE]
    [] pk.state = "DATA" ->
         [valid |-> PkIn(in).valid /\ ~StartNewPacket(in), data |-> pk.data, last |-> FALSE]
    [] pk.state = "END" ->
         [valid |-> TRUE, data |-> pk.data, last |-> TRUE]

\* Mutant of ByteTaken: the frame moves on while the bypass has the Packetizer.
ByteTakenAlways(in) == frame # << >> /\ PkReady(in)

\* The byte offered by the Serializer is taken.
ByteTaken(in) == frame # << >> /\ ~bypass /\ PkReady(in)

-----------------------------------------------------------------------------
SerializerStep(in) ==
  idx' = IF ByteTaken(in) THEN (idx + 1) % FrameLen ELSE idx

\* TrackStream: an ID changes the channel at once or after one data byte.
TrackStep(in) ==
  ts' = IF frame # << >> /\ Unmangled(idx).is_id
        THEN LET id == Unmangled(idx).data
             IN  IF id % 2 = 1
                 THEN [ts EXCEPT !.next = id \div 2, !.next_valid = TRUE]
                 ELSE [ts EXCEPT !.channel = id \div 2]
        ELSE IF ByteTaken(in) /\ ts.next_valid
        THEN [ts EXCEPT !.channel = ts.next, !.next_valid = FALSE]
        ELSE ts

CountDown(in) ==
  IF pk.state = "HEADER" /\ PkTakes(in) THEN Timeout
  ELSE IF pk.timeout_cnt = 0 THEN 0 ELSE pk.timeout_cnt - 1

\* Packetizer: each byte is kept back until it is known whether it is the
\* packet's last.
PacketizerStep(in) ==
  pk' =
    [state    |-> CASE pk.state = "HEADER" -> IF PkTakes(in) THEN "DATA" ELSE "HEADER"
                    [] pk.state = "DATA"   -> IF StartNewPacket(in) THEN "END" ELSE "DATA"
                    [] pk.state = "END"    -> IF in.ready THEN "HEADER" ELSE "END",
     channel  |-> IF pk.state = "HEADER" /\ PkTakes(in) THEN PkIn(in).channel ELSE pk.channel,
     data     |-> IF PkTakes(in) THEN PkIn(in).data ELSE pk.data,
     byte_cnt |-> IF ~PkTakes(in) THEN pk.byte_cnt
                  ELSE IF pk.state = "HEADER" THEN 0 ELSE (pk.byte_cnt + 1) % max_size,
     timeout_cnt |-> CountDown(in)]

-----------------------------------------------------------------------------
\* History.

\* What the trace port says of frame fr, given the channel before it: an ID
\* counts from the next byte, or, marked in the auxiliary byte, from the next
\* but one.
Ids(fr, i) ==
  {j \in 0 .. i - 1 : /\ j % 2 = 0 /\ IsIdByte(fr.bytes[j])
                      /\ fr.aux[j \div 2] = 1 => j + 1 < i}

ChannelAt(fr, i, before) ==
  IF Ids(fr, i) = {} THEN before ELSE fr.bytes[Max(Ids(fr, i))] \div 2

\* The places of the bytes of fr that are no IDs and not of channel zero, and what the
\* trace port says of such a byte.
Yields(fr, before) ==
  {i \in 0 .. FrameLen - 1 : /\ ~(i % 2 = 0 /\ IsIdByte(fr.bytes[i]))
                             /\ ChannelAt(fr, i, before) # 0}

Yield(fr, i, before) ==
  [channel |-> ChannelAt(fr, i, before),
   data    |-> IF i % 2 = 0 THEN fr.bytes[i] + fr.aux[i \div 2] ELSE fr.bytes[i]]

\* What the Packetizer takes and sends.
HistoryStep(in) ==
  LET taken == IF PkTakes(in)
               THEN <<[channel |-> PkIn(in).channel, data |-> PkIn(in).data]>>
               ELSE << >>
      sent  == PkOut(in).valid /\ in.ready
      head  == rx.channel = None
  IN  /\ owed' = (IF sent /\ ~head /\ owed # << >> THEN Tail(owed) ELSE owed) \o taken
      /\ rx' =
           IF ~sent THEN rx
           ELSE IF head
           THEN [rx EXCEPT !.channel = PkOut(in).data, !.size = 0]
           ELSE [channel |-> IF PkOut(in).last THEN None ELSE rx.channel,
                 size    |-> rx.size + 1,
                 good    |-> /\ rx.good
                             /\ owed # << >>
                             /\ Head(owed) = [channel |-> rx.channel, data |-> PkOut(in).data]]

\* The FIFO in front shows its next frame when there is none or the last byte
\* of this one is taken.
FrameStep(in) ==
  LET done   == ByteTaken(in) /\ idx = FrameLen - 1
      load   == (frame = << >> \/ done) /\ in.load # << >>
      taken  == PkTakes(in) /\ ~bypass
      first  == Min(expect.left)
      rest   == IF taken /\ expect.left # {} THEN expect.left \ {first} ELSE expect.left
      before == IF done THEN ChannelAt(frame, FrameLen, expect.before) ELSE expect.before
  IN  /\ frame' = IF load THEN in.load ELSE IF done THEN << >> ELSE frame
      /\ expect' =
           [before |-> before,
            left   |-> IF load THEN Yields(in.load, before) ELSE rest,
            good   |-> /\ expect.good
                       /\ taken => /\ expect.left # {}
                                   /\ Yield(frame, first, expect.before) =
                                        [channel |-> PkIn(in).channel, data |-> PkIn(in).data]
                       /\ done => rest = {}]
      /\ bypass' = in.bypass
      /\ items' = items + (IF load THEN 1 ELSE 0)
                        + (IF bypass /\ PkTakes(in) THEN 1 ELSE 0)

DemuxInputs ==
  [load   : {<< >>} \cup (IF items < MaxItems /\ (frame = << >> \/ idx = FrameLen - 1)
                          THEN TpiuFrames ELSE {}),
   raw    : {None} \cup (IF bypass /\ items < MaxItems THEN RawBytes ELSE {}),
   bypass : Bypass,
   ready  : BOOLEAN]

\* One clock edge.
DemuxClock(in) ==
  /\ FrameStep(in)
  /\ SerializerStep(in)
  /\ TrackStep(in)
  /\ PacketizerStep(in)
  /\ HistoryStep(in)

DemuxNext == \E in \in DemuxInputs : DemuxClock(in)

DemuxSpec == DemuxInit /\ [][DemuxNext]_demuxVars

\* The clock runs, and the blocks behind take a byte now and then.
DemuxFairness ==
  /\ WF_demuxVars(DemuxNext)
  /\ WF_demuxVars(\E in \in DemuxInputs : in.ready /\ DemuxClock(in))

DemuxFairSpec == DemuxSpec /\ DemuxFairness

-----------------------------------------------------------------------------
\* The registers stay in their range; byte_cnt has range(max_size).
DemuxTypeOK ==
  /\ idx \in 0 .. FrameLen - 1
  /\ pk.state \in {"HEADER", "DATA", "END"}
  /\ pk.byte_cnt \in 0 .. max_size - 1
  /\ pk.timeout_cnt \in 0 .. Timeout
  /\ Len(owed) <= 1

\* Every byte of a frame that is not of channel zero goes to the Packetizer,
\* once, in order and under the channel the trace port gave it, and nothing
\* else does, however long the Packetizer makes the Serializer wait.
ChannelsRight == expect.good

\* The reader of the packets gets every byte the Packetizer took, in order,
\* in a packet that has the byte's channel as its header.
PacketsRight == rx.good

\* No packet is longer than max_size, although byte_cnt cannot count so far.
PacketBounded == rx.size <= max_size

\* Every byte comes out under the channel the trace port gave it, once, in order and in a
\* packet of that channel no longer than the limit, however long a block waits for the
\* next and whenever the bypass is switched.
DemuxRight == DemuxTypeOK /\ ChannelsRight /\ PacketsRight /\ PacketBounded

\* A packet that was begun is finished.
PacketBegun == pk.state = "DATA"
PacketDone == pk.state = "HEADER"
=============================================================================
