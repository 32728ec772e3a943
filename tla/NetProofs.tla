----------------------------- MODULE NetProofs -----------------------------
(***************************************************************************)
(* Proofs about the two ends of the UDP link.                               *)
(*                                                                         *)
(* SelfTx, for every header and payload size, every limit of the timeouts    *)
(* and all sizes of the host's requests: a frame is whole because three      *)
(* things agree all the time: whose frame udp_complete is in, whether the    *)
(* state machine sends, and how many bytes are still promised (PortInv).  A  *)
(* datagram is a packet because the packetiser does not move unless the      *)
(* state machine sends, and then both move together (PacketInv).            *)
(*                                                                         *)
(* StreamCapture, for every size of payload, ring and write and any number   *)
(* of packets below that of their numbers: the ring holds, from the tail to   *)
(* the head, the bytes of the packets pushed that are at those counts        *)
(* (RingInv), whatever the receiver has read of the tail and the writer of    *)
(* the head; the file has those before (FileInv); and as long as nothing was  *)
(* dropped the last number seen is that of the last packet kept (RowInv).     *)
(***************************************************************************)
EXTENDS SelfTx, StreamCapture, ModFacts, SequenceTheorems, TLAPS

(***************************************************************************)
(* The transmit side.                                                       *)
(***************************************************************************)
\* Every register has its width, every wire bundle its fields.
RegInv ==
  /\ pk \in [active : BOOLEAN, pos : 0 .. PKT - 1]
  /\ have \in BOOLEAN
  /\ st \in {"IDLE", "HDR", "SEND", "BACKOFF"}
  /\ bcnt \in 0 .. PKT - 1
  /\ hdr_timeout \in 0 .. 2 * HdrLimit - 1
  /\ send_timeout \in 0 .. 2 * SendLimit - 1
  /\ backoff_cnt \in 0 .. 2 * BackoffLimit - 1
  /\ echo \in [req : BOOLEAN, left : Nat]
  /\ owner \in {"none", "self", "echo"}
  /\ promised \in Nat
  /\ whole \in BOOLEAN
  /\ padded \in BOOLEAN

\* The state machine sends exactly while its frame is on the port and bcnt
\* counts the promised bytes; a reply on the port has its bytes still to send
\* and keeps the next request's header away.
PortInv ==
  /\ st = "SEND" <=> owner = "self"
  /\ owner = "self" => promised = PKT - bcnt
  /\ owner = "echo" => ~echo.req /\ echo.left > 0 /\ promised = echo.left
  /\ echo.req => echo.left > 0
  /\ st = "HDR" => bcnt = 0
  /\ whole

\* Without padding the packetiser waits at the first byte of a packet until the
\* state machine sends, and then both count together.
PacketInv ==
  ~padded => /\ st = "SEND" => pk.active /\ pk.pos = bcnt
             /\ st # "SEND" => pk.pos = 0
             /\ st = "HDR" => pk.active

IndInv == RegInv /\ PortInv /\ PacketInv

-----------------------------------------------------------------------------
\* A counter that wraps stays below its width.
LEMMA WrapRange ==
  ASSUME NEW a \in Nat, NEW n \in Nat \ {0}
  PROVE  a % (2 * n) \in 0 .. 2 * n - 1
  OBVIOUS

\* The constants are positive.
LEMMA Limits ==
  /\ HdrBytes \in Nat \ {0} /\ Payload \in Nat \ {0}
  /\ HdrLimit \in Nat \ {0} /\ SendLimit \in Nat \ {0}
  /\ BackoffLimit \in Nat \ {0} /\ EchoLens \subseteq Nat \ {0}
  BY LimitAssumption

\* A packet has a header and a payload.
LEMMA PacketSize == PKT \in Nat /\ PKT > 1
  BY Limits DEF PKT

\* Reset establishes the invariant.
LEMMA InitIndInv == Init => IndInv
<1> SUFFICES ASSUME Init PROVE IndInv
  OBVIOUS
<1>1. RegInv
  <2>1. /\ have \in BOOLEAN /\ whole \in BOOLEAN /\ padded \in BOOLEAN
        /\ st \in {"IDLE", "HDR", "SEND", "BACKOFF"}
        /\ owner \in {"none", "self", "echo"}
    BY Zenon DEF Init
  <2>2. /\ 0 \in 0 .. PKT - 1 /\ 0 \in 0 .. 2 * HdrLimit - 1
        /\ 0 \in 0 .. 2 * SendLimit - 1 /\ 0 \in 0 .. 2 * BackoffLimit - 1
        /\ 0 \in Nat
    BY Limits, PacketSize
  <2>3. /\ pk \in [active : BOOLEAN, pos : 0 .. PKT - 1]
        /\ echo \in [req : BOOLEAN, left : Nat]
    BY <2>2 DEF Init
  <2> QED
    BY <2>1, <2>2, <2>3, Zenon DEF Init, RegInv
<1>2. PortInv /\ PacketInv
  BY DEF Init, PortInv, PacketInv
<1> QED
  BY <1>1, <1>2 DEF IndInv

\* One clock, whatever its inputs.
LEMMA ClockIndInv ==
  ASSUME IndInv, NEW in \in Inputs, Clock(in)
  PROVE  IndInv'
<1> USE Limits, PacketSize DEF StreamPktBytes
<1>1. /\ in.byte \in BOOLEAN /\ in.fifo \in BOOLEAN
      /\ in.hdr \in BOOLEAN /\ in.take \in BOOLEAN
      /\ in.ask \in Nat
      /\ in.ask > 0 => echo.left = 0
  <2>1. in.ask \in {0} \cup (IF echo.left = 0 THEN EchoLens ELSE {})
    BY DEF Inputs
  <2>2. /\ in.byte \in BOOLEAN /\ in.fifo \in BOOLEAN
        /\ in.hdr \in BOOLEAN /\ in.take \in BOOLEAN
    BY DEF Inputs
  <2>3. in.ask = 0 \/ (in.ask \in EchoLens /\ echo.left = 0)
    BY <2>1, Zenon
  <2>4. in.ask \in Nat /\ (in.ask > 0 => echo.left = 0)
    <3>1. CASE in.ask = 0
      BY <3>1
    <3>2. CASE in.ask \in EchoLens /\ echo.left = 0
      <4>1. in.ask \in Nat
        BY <3>2
      <4> QED
        BY <3>2, <4>1, Zenon
    <3> QED
      BY <2>3, <3>1, <3>2
  <2> QED
    BY <2>2, <2>4, Zenon
<1>2. PKT \in Nat /\ PKT > 1
  OBVIOUS
<1>3. RegInv'
  <2>1. pk' \in [active : BOOLEAN, pos : 0 .. PKT - 1] /\ have' \in BOOLEAN
    BY <1>1, <1>2 DEF IndInv, RegInv, Clock, PacketiserStep, in_header, stream_tvalid, stream_tready, PayloadReady, send_pad
  <2>2. /\ st' \in {"IDLE", "HDR", "SEND", "BACKOFF"}
        /\ bcnt' \in 0 .. PKT - 1
        /\ hdr_timeout' \in 0 .. 2 * HdrLimit - 1
        /\ send_timeout' \in 0 .. 2 * SendLimit - 1
        /\ backoff_cnt' \in 0 .. 2 * BackoffLimit - 1
    <3>1. CASE st = "IDLE" /\ IdleStep(in)
      BY <3>1, <1>2 DEF IndInv, RegInv, IdleStep
    <3>2. CASE st = "HDR" /\ HdrStep(in)
      <4>1. hdr_timeout' \in 0 .. 2 * HdrLimit - 1
        BY <3>2, WrapRange DEF IndInv, RegInv, HdrStep
      <4> QED
        BY <4>1, <3>2, <1>2 DEF IndInv, RegInv, HdrStep
    <3>3. CASE st = "SEND" /\ SendStep(in)
      <4>1. send_timeout' \in 0 .. 2 * SendLimit - 1
        <5>1. (send_timeout + 1) % (2 * SendLimit) \in 0 .. 2 * SendLimit - 1
          <6>1. send_timeout + 1 \in Nat
            BY DEF IndInv, RegInv
          <6> QED
            BY <6>1, WrapRange
        <5>2. send_timeout' \in {0, (send_timeout + 1) % (2 * SendLimit), send_timeout}
          BY <3>3 DEF SendStep
        <5> QED
          BY <5>1, <5>2 DEF IndInv, RegInv
      <4>2. bcnt' \in 0 .. PKT - 1
        BY <3>3, <1>2 DEF IndInv, RegInv, SendStep, PayloadLast, self_busy
      <4> QED
        BY <4>1, <4>2, <3>3 DEF IndInv, RegInv, SendStep
    <3>4. CASE st = "BACKOFF" /\ BackoffStep(in)
      <4>1. backoff_cnt' \in 0 .. 2 * BackoffLimit - 1
        BY <3>4, WrapRange DEF IndInv, RegInv, BackoffStep
      <4> QED
        BY <4>1, <3>4 DEF IndInv, RegInv, BackoffStep
    <3> QED
      BY <3>1, <3>2, <3>3, <3>4 DEF Clock, FsmStep
  <2>3. echo' \in [req : BOOLEAN, left : Nat]
    BY <1>1 DEF IndInv, RegInv, Clock, EchoStep, Beat, PayloadReady, PayloadValid, HdrTaken
  <2>4. /\ owner' \in {"none", "self", "echo"}
        /\ whole' \in BOOLEAN /\ padded' \in BOOLEAN
    BY DEF IndInv, RegInv, Clock, UdpStep
  <2>5. promised' \in Nat
    <3>1. CASE HdrTaken(in)
      BY <3>1, <1>2 DEF IndInv, RegInv, Clock, UdpStep
    <3>2. CASE ~HdrTaken(in) /\ Beat(in)
      <4>1. promised > 0
        BY <3>2, <1>2 DEF IndInv, RegInv, PortInv, Beat, PayloadReady
      <4> QED
        BY <4>1, <3>2 DEF IndInv, RegInv, Clock, UdpStep
    <3>3. CASE ~HdrTaken(in) /\ ~Beat(in)
      BY <3>3 DEF IndInv, RegInv, Clock, UdpStep
    <3> QED
      BY <3>1, <3>2, <3>3
  <2> QED
    BY <2>1, <2>2, <2>3, <2>4, <2>5 DEF RegInv
<1>4. PortInv'
  <2>1. CASE HdrTaken(in) /\ st = "HDR"
    <3>1. owner = "none" /\ ~Beat(in) /\ self_busy
      BY <2>1 DEF HdrTaken, Beat, PayloadReady, self_busy
    <3>2. st' = "SEND" /\ bcnt' = 0
      BY <2>1 DEF IndInv, PortInv, Clock, FsmStep, HdrStep
    <3>3. owner' = "self" /\ promised' = PKT /\ whole'
      BY <2>1, <3>1 DEF IndInv, PortInv, Clock, UdpStep
    <3>4. echo'.req => echo'.left > 0
      BY <1>1, <3>1 DEF IndInv, RegInv, PortInv, Clock, EchoStep
    <3> QED
      BY <3>2, <3>3, <3>4, <1>2 DEF PortInv
  <2>2. CASE HdrTaken(in) /\ st # "HDR"
    <3>1. /\ owner = "none" /\ ~Beat(in)
          /\ echo.req /\ ~self_busy /\ st \in {"IDLE", "BACKOFF"}
      BY <2>2 DEF IndInv, RegInv, HdrTaken, Beat, PayloadReady, self_busy
    <3>2. st' \in {"IDLE", "HDR", "BACKOFF"} /\ (st' = "HDR" => bcnt' = 0)
      BY <3>1 DEF Clock, FsmStep, IdleStep, BackoffStep
    <3>3. owner' = "echo" /\ promised' = echo.left /\ whole'
      BY <2>2, <3>1 DEF IndInv, PortInv, Clock, UdpStep
    <3>4. echo.left > 0 /\ in.ask = 0
      BY <1>1, <3>1 DEF IndInv, RegInv, PortInv
    <3>5. echo' = [req |-> FALSE, left |-> echo.left]
      <4>1. ~(in.ask > 0)
        BY <3>4
      <4> QED
        BY <4>1, <2>2, <3>1, Zenon DEF Clock, EchoStep
    <3> QED
      BY <3>2, <3>3, <3>4, <3>5 DEF PortInv
  <2>3. CASE ~HdrTaken(in) /\ st = "SEND"
    <3>1. owner = "self" /\ self_busy /\ promised = PKT - bcnt
      BY <2>3 DEF IndInv, PortInv, self_busy
    <3>2. PayloadLast <=> promised = 1
      BY <2>3, <3>1, <1>2 DEF IndInv, RegInv, PayloadLast
    <3>3. whole'
      BY <3>1, <3>2 DEF IndInv, PortInv, Clock, UdpStep
    <3>4. echo'.req => echo'.left > 0
      BY <1>1, <3>1 DEF IndInv, RegInv, PortInv, Clock, EchoStep
    <3>5. CASE Beat(in) /\ PayloadLast
      <4>1. st' = "IDLE" /\ owner' = "none"
        BY <2>3, <3>5 DEF Clock, FsmStep, SendStep, UdpStep
      <4> QED
        BY <4>1, <3>3, <3>4 DEF PortInv
    <3>6. CASE Beat(in) /\ ~PayloadLast
      <4>1. st' = "SEND" /\ bcnt' = bcnt + 1
        BY <2>3, <3>6 DEF Clock, FsmStep, SendStep
      <4>2. owner' = "self" /\ promised' = promised - 1
        BY <2>3, <3>1, <3>6 DEF Clock, UdpStep
      <4> QED
        BY <4>1, <4>2, <3>1, <3>3, <3>4, <1>2 DEF PortInv, IndInv, RegInv
    <3>7. CASE ~Beat(in)
      <4>1. st' = "SEND" /\ bcnt' = bcnt
        BY <2>3, <3>7 DEF Clock, FsmStep, SendStep
      <4>2. owner' = "self" /\ promised' = promised
        BY <2>3, <3>1, <3>7 DEF Clock, UdpStep
      <4> QED
        BY <4>1, <4>2, <3>1, <3>3, <3>4 DEF PortInv
    <3> QED
      BY <3>5, <3>6, <3>7
  <2>4. CASE ~HdrTaken(in) /\ st # "SEND"
    <3>1. owner # "self" /\ st \in {"IDLE", "HDR", "BACKOFF"}
      BY <2>4 DEF IndInv, RegInv, PortInv
    <3>2. st' \in {"IDLE", "HDR", "BACKOFF"} /\ (st' = "HDR" => bcnt' = 0)
      BY <2>4, <3>1 DEF IndInv, PortInv, Clock, FsmStep, IdleStep, HdrStep, BackoffStep
    <3>3. CASE Beat(in)
      <4>1. owner = "echo" /\ ~self_busy /\ echo.left > 0
        BY <2>4, <3>1, <3>3 DEF IndInv, RegInv, Beat, PayloadReady, PayloadValid, self_busy
      <4>2. ~echo.req /\ promised = echo.left /\ in.ask = 0
        BY <4>1, <1>1 DEF IndInv, PortInv
      <4>3. PayloadLast <=> promised = 1
        BY <4>1, <4>2 DEF PayloadLast
      <4>4. whole'
        BY <4>1, <4>3 DEF IndInv, PortInv, Clock, UdpStep
      <4>5. /\ owner' = (IF promised = 1 THEN "none" ELSE "echo")
            /\ promised' = promised - 1
        BY <2>4, <3>3, <4>1, <4>3 DEF Clock, UdpStep
      <4>6. echo' = [req |-> FALSE, left |-> echo.left - 1]
        <5>1. ~(in.ask > 0)
          BY <4>2
        <5> QED
          BY <5>1, <2>4, <3>3, <4>1, <4>2, Zenon DEF Clock, EchoStep
      <4>7. echo.left \in Nat
        BY DEF IndInv, RegInv
      <4> QED
        BY <4>1, <4>2, <4>4, <4>5, <4>6, <4>7, <3>2 DEF PortInv
    <3>4. CASE ~Beat(in)
      <4>1. owner' = owner /\ promised' = promised /\ whole'
        BY <2>4, <3>4 DEF IndInv, PortInv, Clock, UdpStep
      <4>2. CASE in.ask > 0
        <5>1. owner = "none" /\ echo' = [req |-> TRUE, left |-> in.ask]
          BY <4>2, <1>1, <3>1 DEF IndInv, RegInv, PortInv, Clock, EchoStep
        <5> QED
          BY <5>1, <4>1, <4>2, <3>1, <3>2 DEF PortInv
      <4>3. CASE ~(in.ask > 0)
        <5>1. echo' = [req |-> echo.req, left |-> echo.left]
          BY <4>3, <2>4, <3>4 DEF IndInv, RegInv, Clock, EchoStep
        <5> QED
          BY <5>1, <4>1, <3>1, <3>2 DEF PortInv, IndInv
      <4> QED
        BY <4>2, <4>3
    <3> QED
      BY <3>3, <3>4
  <2> QED
    BY <2>1, <2>2, <2>3, <2>4
<1>5. PacketInv'
  <2> SUFFICES ASSUME ~padded'
               PROVE  /\ st' = "SEND" => pk'.active /\ pk'.pos = bcnt'
                      /\ st' # "SEND" => pk'.pos = 0
                      /\ st' = "HDR" => pk'.active
    BY DEF PacketInv
  <2>1. ~padded /\ ~(Beat(in) /\ send_pad)
    BY DEF Clock, UdpStep
  <2>2. CASE st = "SEND"
    <3>1. pk.active /\ pk.pos = bcnt
      BY <2>1, <2>2 DEF IndInv, PacketInv
    <3>2. Beat(in) <=> stream_tvalid /\ stream_tready(in)
      BY <2>1, <2>2 DEF Beat, PayloadValid, self_busy, send_pad, stream_tready
    <3>3. PayloadLast <=> pk.pos = PKT - 1
      BY <2>2, <3>1 DEF PayloadLast, self_busy
    <3>4. CASE Beat(in) /\ PayloadLast
      <4>1. st' = "IDLE"
        BY <2>2, <3>4 DEF Clock, FsmStep, SendStep
      <4>2. pk' = [active |-> FALSE, pos |-> 0]
        BY <3>1, <3>2, <3>3, <3>4 DEF Clock, PacketiserStep
      <4> QED
        BY <4>1, <4>2
    <3>5. CASE Beat(in) /\ ~PayloadLast
      <4>1. st' = "SEND" /\ bcnt' = bcnt + 1
        BY <2>2, <3>5 DEF Clock, FsmStep, SendStep
      <4>2. pk' = [pk EXCEPT !.pos = @ + 1]
        BY <3>1, <3>2, <3>3, <3>5 DEF Clock, PacketiserStep
      <4> QED
        BY <4>1, <4>2, <3>1 DEF IndInv, RegInv
    <3>6. CASE ~Beat(in)
      <4>1. st' = "SEND" /\ bcnt' = bcnt
        BY <2>2, <3>6 DEF Clock, FsmStep, SendStep
      <4>2. pk' = pk
        BY <3>1, <3>2, <3>6 DEF Clock, PacketiserStep
      <4> QED
        BY <4>1, <4>2, <3>1
    <3> QED
      BY <3>4, <3>5, <3>6
  <2>3. CASE st # "SEND"
    <3>1. pk.pos = 0 /\ (st = "HDR" => pk.active)
      BY <2>1, <2>3 DEF IndInv, PacketInv
    <3>2. pk' \in {pk, [active |-> TRUE, pos |-> 0]}
      BY <2>3 DEF Clock, PacketiserStep, stream_tready
    <3>3. pk'.pos = 0 /\ (pk.active => pk'.active)
      BY <3>1, <3>2
    <3>4. st' \in {"HDR", "SEND"} => pk.active /\ bcnt' = 0
      BY <2>3, <3>1 DEF IndInv, PortInv, Clock, FsmStep, IdleStep, HdrStep, BackoffStep, stream_tvalid
    <3> QED
      BY <3>3, <3>4
  <2> QED
    BY <2>2, <2>3
<1> QED
  BY <1>3, <1>4, <1>5 DEF IndInv

\* Every step keeps it.
LEMMA StepIndInv == IndInv /\ [Next]_vars => IndInv'
<1> SUFFICES ASSUME IndInv, [Next]_vars
             PROVE  IndInv'
  OBVIOUS
<1>1. CASE Next
  <2>1. PICK in \in Inputs : Clock(in)
    BY <1>1 DEF Next
  <2> QED
    BY <2>1, ClockIndInv
<1>2. CASE UNCHANGED vars
  BY <1>2 DEF vars, fsm, IndInv, RegInv, PortInv, PacketInv
<1> QED
  BY <1>1, <1>2

\* It holds in every reachable state.
LEMMA IndInvAlways == Spec => []IndInv
  BY InitIndInv, StepIndInv, PTL DEF Spec

-----------------------------------------------------------------------------
\* The counters of the state machine and of the packetiser stay in their range
\* (TypeOK): hdr_timeout, send_timeout and backoff_cnt wrap at twice their
\* limits and the position never leaves the packet.
THEOREM SelfTxType == Spec => []TypeOK
<1>1. IndInv => TypeOK
  BY DEF IndInv, RegInv, TypeOK, StreamPktBytes
<1> QED
  BY <1>1, IndInvAlways, PTL

\* The self-TX state machine of fpga_core_net.v and the replies never break
\* each other's frames, nor does a timeout or a trace that stops.
THEOREM SelfTxFramesWhole == Spec => []FramesWhole
<1>1. IndInv => FramesWhole
  BY DEF IndInv, PortInv, FramesWhole
<1> QED
  BY <1>1, IndInvAlways, PTL

\* bcnt of fpga_core_net.v and the packetiser's position in
\* trace_ddr_stream_top.v agree as long as nothing was padded.
THEOREM SelfTxDatagramIsPacket == Spec => []DatagramIsPacket
<1>1. IndInv => DatagramIsPacket
  BY DEF IndInv, PacketInv, DatagramIsPacket
<1> QED
  BY <1>1, IndInvAlways, PTL

\* Both together, for every header and payload size and every limit (the property that
\* the run net checks of fpga_core_net.v).
THEOREM SelfTxFramesRight == Spec => []FramesRight
<1>1. FramesWhole /\ DatagramIsPacket => FramesRight
  BY DEF FramesRight
<1> QED
  BY <1>1, SelfTxFramesWhole, SelfTxDatagramIsPacket, PTL

-----------------------------------------------------------------------------
(***************************************************************************)
(* The capture tools.                                                       *)
(***************************************************************************)
\* The packets the FPGA may send.
Pkts == {pkt \in [n : 0 .. MaxPackets - 1, seq : 0 .. NumMod - 1] : pkt.seq = (First + pkt.n) % NumMod}
AnyByte == [pkt : Pkts \cup {Beyond.pkt}, byte : 0 .. P]

CaptureTypes ==
  /\ tool \in Tools
  /\ sender \in [n : 0 .. MaxPackets, next : 0 .. NumMod - 1]
  /\ sender.next = (First + sender.n) % NumMod
  /\ sock \in Seq(Pkts)
  /\ rx \in [pc : {"recv", "push", "join", "done"}, prev : -1 .. NumMod - 1, gaps : Nat, took : Seq(Pkts),
             dropped : Nat, h : Nat, t : Nat, stop : BOOLEAN, back : BOOLEAN]
  /\ ring \in [head : Nat, tail : Nat, buf : [0 .. RingSize - 1 -> AnyByte]]
  /\ writer \in [pc : {"read", "idle", "write", "advance", "closed", "failed"}, n : Nat]
  /\ file \in Seq(AnyByte)

\* With nothing dropped, the last number is that of the last packet kept, and no gap and
\* no step back mean that the packets kept follow each other.
RowInv ==
  rx.dropped = 0 =>
    /\ rx.prev = IF rx.took = <<>> THEN -1 ELSE Last(rx.took).seq
    /\ (rx.gaps = 0 /\ (tool \in {"recv", "endurance"} \/ ~rx.back)) => InARow

\* Where the two threads are: a packet is pushed with the head as it is and a tail of some
\* time since, and the writer leaves an empty ring that nothing more comes to.
PhaseInv ==
  /\ rx.stop <=> rx.pc \in {"join", "done"}
  /\ rx.pc \in {"push", "join"} => tool = "grab"
  /\ rx.pc = "push" => rx.took # <<>> /\ rx.h = ring.head /\ rx.t \in 0 .. ring.tail
  /\ tool # "grab" => writer.pc = "closed" /\ ring.head = 0 /\ ring.tail = 0
  /\ tool = "grab" /\ rx.pc = "done" => writer.pc \in {"closed", "failed"}
  /\ tool = "grab" /\ writer.pc = "closed" => rx.stop /\ ring.head = ring.tail

\* The ring has the bytes of the packets pushed, from the tail to the head.
RingInv ==
  /\ tool = "grab" => ring.head = P * Len(Pushed)
  /\ ring.head - ring.tail \in 0 .. RingSize
  /\ \A p \in ring.tail .. ring.head - 1 : ring.buf[p % RingSize] = PayloadByte(Pushed, p)

\* What the writer has found is in the ring and, before it writes, in one piece.
WriterInv ==
  /\ writer.pc \in {"write", "advance"} => writer.n \in 1 .. ring.head - ring.tail
  /\ writer.pc = "write" => (ring.tail % RingSize) + writer.n <= RingSize

\* The bytes of the file.
Kept ==
  CASE tool = "recvmmsg" -> 0
    [] tool = "grab" -> ring.tail + (IF writer.pc = "advance" THEN writer.n ELSE 0)
    [] OTHER -> P * Len(rx.took)

FileInv ==
  /\ Len(file) = Kept
  /\ \A k \in 1 .. Len(file) : file[k] = PayloadByte(Pushed, k - 1)

CaptureInv == CaptureTypes /\ RowInv /\ PhaseInv /\ RingInv /\ WriterInv /\ FileInv

-----------------------------------------------------------------------------
(***************************************************************************)
(* Bytes of payloads.                                                       *)
(***************************************************************************)
LEMMA CaptureSizes ==
  /\ NumMod \in Nat /\ NumMod >= 1 /\ First \in Nat /\ First < NumMod
  /\ P \in Nat /\ P >= 1
  /\ RingSize \in Nat /\ RingSize >= 1
  /\ MaxWrite \in Nat /\ MaxWrite >= 1
  /\ SockMax \in Nat /\ MaxPackets \in Nat /\ MaxPackets < NumMod
BY CaptureAssumption

LEMMA Product ==
  ASSUME NEW n \in Nat
  PROVE  P * n \in Nat /\ P * (n + 1) = P * n + P
BY CaptureSizes

\* A byte of one of n payloads is in the packet it says.
LEMMA ByteOf ==
  ASSUME NEW n \in Nat, NEW b \in Nat, b < P * n
  PROVE  /\ b \div P \in 0 .. n - 1
         /\ b % P \in 0 .. P - 1
<1> DEFINE q == b \div P
           r == b % P
<1>1. q \in Int /\ r \in 0 .. P - 1 /\ b = P * q + r
  BY DivModBy, CaptureSizes
<1>2. q >= 0
  <2> SUFFICES ASSUME q < 0 PROVE FALSE
    BY <1>1
  <2>1. P * q + P <= 0
    <3>1. -1 - q \in Nat
      BY <1>1
    <3>2. P * (-1 - q) >= 0
      BY <3>1, CaptureSizes
    <3> QED
      BY <3>2, <1>1, CaptureSizes
  <2> QED
    BY <2>1, <1>1, CaptureSizes
<1>3. q < n
  <2> SUFFICES ASSUME q >= n PROVE FALSE
    BY <1>1
  <2>1. P * (q - n) >= 0
    BY <1>1, CaptureSizes
  <2> QED
    BY <2>1, <1>1, CaptureSizes
<1> QED
  BY <1>1, <1>2, <1>3

\* A byte of the payload behind n others.
LEMMA ByteBehind ==
  ASSUME NEW n \in Nat, NEW b \in Nat, P * n <= b, b < P * n + P
  PROVE  b \div P = n /\ b % P = b - P * n
<1>1. P * n \in Nat
  BY Product
<1>2. b - P * n \in 0 .. P - 1 /\ b = P * n + (b - P * n)
  BY <1>1, CaptureSizes
<1> QED
  BY <1>2, DivUniqueBy, ModUniqueBy, CaptureSizes

\* One more packet changes nothing about the bytes before it,
LEMMA ByteBefore ==
  ASSUME NEW pkts \in Seq(Pkts), NEW p \in Pkts, NEW b \in Nat, b < P * Len(pkts)
  PROVE  PayloadByte(Append(pkts, p), b) = PayloadByte(pkts, b)
<1>1. (b \div P) + 1 \in 1 .. Len(pkts)
  BY ByteOf
<1> DEFINE q == (b \div P) + 1
<1>2. Append(pkts, p)[q] = pkts[q]
  <2> HIDE DEF q
  <2>1. q \in 1 .. Len(pkts)
    BY <1>1 DEF q
  <2> QED
    BY <2>1
<1> QED
  BY <1>2 DEF PayloadByte

\* and the bytes behind them are its payload.
LEMMA ByteLast ==
  ASSUME NEW pkts \in Seq(Pkts), NEW p \in Pkts, NEW b \in Nat,
         P * Len(pkts) <= b, b < P * Len(pkts) + P
  PROVE  /\ b - P * Len(pkts) + 1 \in 1 .. P
         /\ PayloadByte(Append(pkts, p), b) = PayloadOf(p)[b - P * Len(pkts) + 1]
<1> DEFINE n == Len(pkts)
<1>1. n \in Nat /\ P * n \in Nat
  BY Product
<1>2. b \div P = n /\ b % P = b - P * n
  BY <1>1, ByteBehind
<1>3. Append(pkts, p)[n + 1] = p
  OBVIOUS
<1>4. b - P * n + 1 \in 1 .. P
  BY <1>1, CaptureSizes
<1>5. PayloadByte(Append(pkts, p), b) = [pkt |-> p, byte |-> b - P * n + 1]
  BY <1>2, <1>3 DEF PayloadByte
<1> QED
  BY <1>4, <1>5 DEF PayloadOf

LEMMA PayloadType ==
  ASSUME NEW p \in Pkts
  PROVE  /\ PayloadOf(p) \in Seq(AnyByte)
         /\ Len(PayloadOf(p)) = P
         /\ \A k \in 1 .. P : PayloadOf(p)[k] \in AnyByte
<1>1. \A k \in 1 .. P : [pkt |-> p, byte |-> k] \in AnyByte
  BY CaptureSizes DEF AnyByte
<1> QED
  BY <1>1, CaptureSizes DEF PayloadOf

LEMMA FrontOfAppend ==
  ASSUME NEW S, NEW s \in Seq(S), NEW x \in S
  PROVE  Front(Append(s, x)) = s
<1>1. Append(s, x) \in Seq(S) /\ Len(Append(s, x)) = Len(s) + 1
  OBVIOUS
<1>2. \A k \in 1 .. Len(s) : Append(s, x)[k] = s[k]
  OBVIOUS
<1>3. /\ Front(Append(s, x)) \in Seq(S)
      /\ Len(Front(Append(s, x))) = Len(s)
      /\ \A k \in 1 .. Len(s) : Front(Append(s, x))[k] = s[k]
  BY <1>1, <1>2 DEF Front
<1> QED
  BY <1>3, SeqEqual

LEMMA AppendToFront ==
  ASSUME NEW S, NEW s \in Seq(S), s # <<>>
  PROVE  /\ Front(s) \in Seq(S) /\ Last(s) \in S
         /\ Len(Front(s)) = Len(s) - 1 /\ Len(s) >= 1
         /\ s = Append(Front(s), Last(s))
<1>1. Len(s) \in Nat /\ Len(s) >= 1
  BY EmptySeq
<1>2. /\ Front(s) \in Seq(S)
      /\ Len(Front(s)) = Len(s) - 1
      /\ \A k \in 1 .. Len(s) - 1 : Front(s)[k] = s[k]
  <2>1. \A k \in 1 .. Len(s) - 1 : s[k] \in S
    BY <1>1
  <2> DEFINE n == Len(s) - 1
  <2>0. n \in Int /\ n >= 0 /\ 1 \in Int /\ \A k \in 1 .. n : s[k] \in S
    BY <1>1, <2>1
  <2> HIDE DEF n
  <2>2. /\ SubSeq(s, 1, n) \in Seq(S)
        /\ Len(SubSeq(s, 1, n)) = IF 1 <= n THEN n - 1 + 1 ELSE 0
        /\ \A k \in 1 .. n - 1 + 1 : SubSeq(s, 1, n)[k] = s[1 + k - 1]
    BY <2>0, SubSeqProperties
  <2>3. Len(SubSeq(s, 1, n)) = n
    BY <2>0, <2>2
  <2>4. ASSUME NEW k \in 1 .. n
        PROVE  SubSeq(s, 1, n)[k] = s[k]
    <3>1. k \in 1 .. n - 1 + 1 /\ 1 + k - 1 = k
      BY <2>0
    <3> QED
      BY <3>1, <2>2
  <2> QED
    BY <2>2, <2>3, <2>4 DEF Front, n
<1>3. Last(s) \in S
  BY <1>1 DEF Last
<1>4. Append(Front(s), Last(s)) \in Seq(S) /\ Len(Append(Front(s), Last(s))) = Len(s)
  BY <1>1, <1>2, <1>3
<1>5. \A k \in 1 .. Len(s) : Append(Front(s), Last(s))[k] = s[k]
  BY <1>1, <1>2, <1>3 DEF Last
<1> QED
  BY <1>1, <1>2, <1>3, <1>4, <1>5, SeqEqual

\* Two bytes of the ring that lie next to each other.
LEMMA RingPlace ==
  ASSUME NEW t \in Nat, NEW k \in Nat, (t % RingSize) + k < RingSize
  PROVE  (t + k) % RingSize = (t % RingSize) + k
<1>1. /\ t \div RingSize \in Int /\ t % RingSize \in 0 .. RingSize - 1
      /\ t = RingSize * (t \div RingSize) + (t % RingSize)
  BY DivModBy, CaptureSizes
<1> DEFINE q == t \div RingSize
           r == (t % RingSize) + k
<1>2. q \in Int /\ r \in 0 .. RingSize - 1 /\ t + k = RingSize * q + r
  BY <1>1, CaptureSizes
<1> HIDE DEF q, r
<1>3. t + k \in Int /\ q \in Int /\ r \in 0 .. RingSize - 1 /\ t + k = RingSize * q + r
  BY <1>2
<1>4. (t + k) % RingSize = r
  BY <1>3, ModUniqueBy, CaptureSizes
<1> QED
  BY <1>4 DEF r

\* How far a place of the ring is behind the head.
LEMMA RingBehind ==
  ASSUME NEW p \in Nat, NEW h \in Nat, h - p <= RingSize, p - h < RingSize
  PROVE  ((p % RingSize) - h) % RingSize = IF p >= h THEN p - h ELSE p - h + RingSize
<1> DEFINE y == 0 - h
<1>0. p \in Int /\ y \in Int /\ (p % RingSize) + y = (p % RingSize) - h /\ p + y = p - h
  BY DivModBy, CaptureSizes
<1> HIDE DEF y
<1>1. ((p % RingSize) + y) % RingSize = (p + y) % RingSize
  BY <1>0, ModSum, CaptureSizes
<1>2. ((p % RingSize) - h) % RingSize = (p - h) % RingSize
  BY <1>0, <1>1
<1>3. CASE p >= h
  <2>1. p - h = RingSize * 0 + (p - h) /\ p - h \in 0 .. RingSize - 1
    BY <1>3, CaptureSizes
  <2>2. (p - h) % RingSize = p - h
    BY <2>1, ModUniqueBy, CaptureSizes
  <2> QED
    BY <1>2, <1>3, <2>2
<1>4. CASE p < h
  <2>1. p - h = RingSize * (-1) + (p - h + RingSize) /\ p - h + RingSize \in 0 .. RingSize - 1
    BY <1>4, CaptureSizes
  <2>2. (p - h) % RingSize = p - h + RingSize
    BY <2>1, ModUniqueBy, CaptureSizes
  <2> QED
    BY <1>2, <1>4, <2>2
<1> QED
  BY <1>3, <1>4

-----------------------------------------------------------------------------
(***************************************************************************)
(* The packets on their way.                                                *)
(***************************************************************************)
LEMMA FitsType ==
  ASSUME NEW s \in Seq(Pkts)
  PROVE  Fits(s) \in Seq(Pkts)
<1>1. CASE Len(s) <= SockMax
  BY <1>1 DEF Fits
<1>2. CASE Len(s) > SockMax
  <2>1. SockMax \in Nat /\ Len(s) \in Nat
    BY CaptureSizes
  <2> DEFINE n == SockMax
  <2>2. n \in Int /\ 1 \in Int /\ \A k \in 1 .. n : s[k] \in Pkts
    BY <1>2, <2>1
  <2> HIDE DEF n
  <2>3. SubSeq(s, 1, n) \in Seq(Pkts)
    BY <2>2, SubSeqProperties
  <2> QED
    BY <2>3, <1>2, <2>1 DEF Fits, n
<1> QED
  BY <1>1, <1>2, CaptureSizes

LEMMA SendType ==
  ASSUME CaptureTypes, Send
  PROVE  sender' \in [n : 0 .. MaxPackets, next : 0 .. NumMod - 1]
         /\ sender'.next = (First + sender'.n) % NumMod
         /\ sock' \in Seq(Pkts)
<1> DEFINE p == Sent(sender.next)
<1>1. /\ sender \in [n : 0 .. MaxPackets, next : 0 .. NumMod - 1]
      /\ sender.next = (First + sender.n) % NumMod
      /\ sock \in Seq(Pkts) /\ sender.n < MaxPackets
      /\ sender' = [n |-> sender.n + 1, next |-> (sender.next + 1) % NumMod]
  BY DEF CaptureTypes, Send
<1>2. sender.n \in 0 .. MaxPackets - 1 /\ sender.next \in 0 .. NumMod - 1
  BY <1>1, CaptureSizes
<1>3. p \in Pkts
  BY <1>1, <1>2 DEF Sent, Pkts
<1>4. (sender.next + 1) % NumMod = (First + (sender.n + 1)) % NumMod
  <2> DEFINE x == First + sender.n
  <2>1. x \in Int /\ x + 1 = First + (sender.n + 1)
    BY <1>2, CaptureSizes
  <2> HIDE DEF x
  <2>2. ((x % NumMod) + 1) % NumMod = (x + 1) % NumMod
    BY <2>1, ModSum, CaptureSizes
  <2> QED
    BY <2>1, <2>2, <1>1 DEF x
<1>5. (sender.next + 1) % NumMod \in 0 .. NumMod - 1
  <2>1. sender.next + 1 \in Int
    BY <1>2, CaptureSizes
  <2> QED
    BY <2>1, DivModBy, CaptureSizes
<1>6. sock' \in Seq(Pkts)
  <2> HIDE DEF p
  <2>1. CASE sock' = Fits(Append(sock, p))
    <3>1. Append(sock, p) \in Seq(Pkts)
      BY <1>1, <1>3
    <3> QED
      BY <2>1, <3>1, FitsType
  <2>2. CASE sock' = Fits(sock \o <<p, p>>)
    <3>1. <<p, p>> \in Seq(Pkts)
      BY <1>3
    <3>2. sock \o <<p, p>> \in Seq(Pkts)
      BY <1>1, <3>1, ConcatProperties
    <3> QED
      BY <2>2, <3>2, FitsType
  <2>3. CASE Len(sock) > 0 /\ sock' = Fits(Front(sock) \o <<p, Last(sock)>>)
    <3>1. Front(sock) \in Seq(Pkts) /\ Last(sock) \in Pkts
      <4>1. sock # <<>>
        BY <2>3
      <4> QED
        BY <4>1, <1>1, AppendToFront
    <3>2. <<p, Last(sock)>> \in Seq(Pkts)
      BY <1>3, <3>1
    <3>3. Front(sock) \o <<p, Last(sock)>> \in Seq(Pkts)
      BY <3>1, <3>2, ConcatProperties
    <3> QED
      BY <2>3, <3>3, FitsType
  <2>4. CASE sock' = sock
    BY <2>4, <1>1
  <2> QED
    BY <2>1, <2>2, <2>3, <2>4 DEF Send, p
<1>7. sender.n + 1 \in 0 .. MaxPackets
  BY <1>2, CaptureSizes
<1>8. sender'.n = sender.n + 1 /\ sender'.next = (sender.next + 1) % NumMod
  BY <1>1
<1> QED
  BY <1>1, <1>4, <1>5, <1>6, <1>7, <1>8

\* Two packets whose numbers are one apart were sent one after the other.
LEMMA NextNumber ==
  ASSUME NEW p \in Pkts, NEW q \in Pkts, u32_delta(p.seq, q.seq) = 1
  PROVE  p.n = q.n + 1
<1> DEFINE x == First + p.n
           y == First + q.n
           d == p.n - q.n
<1>1. /\ p.n \in 0 .. MaxPackets - 1 /\ q.n \in 0 .. MaxPackets - 1
      /\ p.seq = x % NumMod /\ q.seq = y % NumMod
  BY DEF Pkts
<1>2. x \in Int /\ y \in Int /\ x - y = d /\ d \in Int
  <2>1. p.n \in Int /\ q.n \in Int /\ First \in Int
    BY <1>1, CaptureSizes
  <2> QED
    BY <2>1
<1>3. (d % NumMod) = 1
  <2> HIDE DEF x, y, d
  <2>1. ((x % NumMod) - (y % NumMod)) % NumMod = (x - y) % NumMod
    BY <1>2, ModDiffBy, CaptureSizes, ZenonT(60)
  <2> QED
    BY <2>1, <1>1, <1>2 DEF u32_delta
<1>4. d \div NumMod \in Int /\ d = NumMod * (d \div NumMod) + 1
  <2> HIDE DEF d
  <2> QED
    BY <1>2, <1>3, DivModBy, CaptureSizes
<1>5. d > -(NumMod - 1) /\ d < NumMod - 1
  BY <1>1, CaptureSizes
<1>6. d \div NumMod = 0
  <2> DEFINE k == d \div NumMod
  <2>1. k \in Int /\ d = NumMod * k + 1
    BY <1>4
  <2> HIDE DEF k, d
  <2>2. ~(k >= 1)
    <3> SUFFICES ASSUME k >= 1 PROVE FALSE
      OBVIOUS
    <3>1. NumMod * (k - 1) >= 0
      BY <2>1, CaptureSizes
    <3> QED
      BY <3>1, <2>1, <1>5, CaptureSizes
  <2>3. ~(k <= -1)
    <3> SUFFICES ASSUME k <= -1 PROVE FALSE
      OBVIOUS
    <3>1. NumMod * (-1 - k) >= 0
      BY <2>1, CaptureSizes
    <3> QED
      BY <3>1, <2>1, <1>5, CaptureSizes
  <2> QED
    BY <2>1, <2>2, <2>3 DEF k
<1>7. d = 1
  BY <1>4, <1>6, CaptureSizes
<1> QED
  BY <1>7, <1>1, CaptureSizes

-----------------------------------------------------------------------------
(***************************************************************************)
(* What a step that does not touch a part leaves of it.                     *)
(***************************************************************************)
LEMMA RowKept ==
  ASSUME RowInv, tool' = tool, rx'.dropped = rx.dropped, rx'.prev = rx.prev, rx'.took = rx.took,
         rx'.gaps = rx.gaps, rx'.back = rx.back
  PROVE  RowInv'
BY DEF RowInv, InARow

LEMMA RingKept ==
  ASSUME RingInv, tool' = tool, ring' = ring, Pushed' = Pushed
  PROVE  RingInv'
BY DEF RingInv

LEMMA WriterKept ==
  ASSUME WriterInv, ring' = ring, writer' = writer
  PROVE  WriterInv'
BY DEF WriterInv

LEMMA FileKept ==
  ASSUME FileInv, tool' = tool, file' = file, Pushed' = Pushed, Kept' = Kept
  PROVE  FileInv'
BY DEF FileInv

LEMMA SendKeeps ==
  ASSUME CaptureInv, Send
  PROVE  CaptureInv'
<1>1. UNCHANGED <<tool, rx, ring, writer, file>>
  BY DEF Send
<1>2. CaptureTypes'
  BY <1>1, SendType DEF CaptureInv, CaptureTypes
<1>3. Pushed' = Pushed /\ Kept' = Kept
  BY <1>1 DEF Pushed, Kept
<1>4. PhaseInv'
  BY <1>1 DEF CaptureInv, PhaseInv
<1> QED
  BY <1>1, <1>2, <1>3, <1>4, RowKept, RingKept, WriterKept, FileKept DEF CaptureInv

LEMMA deadlineKeeps ==
  ASSUME CaptureInv, deadline
  PROVE  CaptureInv'
<1>1. /\ UNCHANGED <<tool, sender, sock, ring, writer, file>>
      /\ rx.pc = "recv" /\ ~rx.stop
      /\ rx' = [rx EXCEPT !.stop = TRUE, !.pc = IF tool = "grab" THEN "join" ELSE "done"]
  BY DEF deadline
<1>2. CaptureTypes'
  BY <1>1 DEF CaptureInv, CaptureTypes
<1>3. /\ rx'.dropped = rx.dropped /\ rx'.prev = rx.prev /\ rx'.took = rx.took
      /\ rx'.gaps = rx.gaps /\ rx'.back = rx.back /\ rx'.stop
      /\ rx'.pc = IF tool = "grab" THEN "join" ELSE "done"
  BY <1>1 DEF CaptureInv, CaptureTypes
<1>4. Pushed' = Pushed /\ Kept' = Kept
  BY <1>1, <1>3 DEF Pushed, Kept
<1>5. PhaseInv'
  BY <1>1, <1>3 DEF CaptureInv, PhaseInv
<1> QED
  BY <1>1, <1>2, <1>3, <1>4, <1>5, RowKept, RingKept, WriterKept, FileKept DEF CaptureInv

LEMMA joinKeeps ==
  ASSUME CaptureInv, join
  PROVE  CaptureInv'
<1>1. /\ UNCHANGED <<tool, sender, sock, ring, writer, file>>
      /\ rx.pc = "join" /\ writer.pc \in {"closed", "failed"}
      /\ rx' = [rx EXCEPT !.pc = "done"]
  BY DEF join
<1>2. CaptureTypes'
  BY <1>1 DEF CaptureInv, CaptureTypes
<1>3. /\ rx'.dropped = rx.dropped /\ rx'.prev = rx.prev /\ rx'.took = rx.took
      /\ rx'.gaps = rx.gaps /\ rx'.back = rx.back /\ rx'.stop = rx.stop
      /\ rx'.pc = "done"
  BY <1>1 DEF CaptureInv, CaptureTypes
<1>4. Pushed' = Pushed /\ Kept' = Kept
  BY <1>1, <1>3 DEF Pushed, Kept
<1>5. PhaseInv'
  BY <1>1, <1>3 DEF CaptureInv, PhaseInv
<1> QED
  BY <1>1, <1>2, <1>3, <1>4, <1>5, RowKept, RingKept, WriterKept, FileKept DEF CaptureInv

LEMMA writer_idleKeeps ==
  ASSUME CaptureInv, writer_idle
  PROVE  CaptureInv'
<1>1. /\ UNCHANGED <<tool, sender, sock, rx, ring, file>>
      /\ writer.pc = "idle"
      /\ writer' = [writer EXCEPT !.pc = IF Leave THEN "closed" ELSE "read"]
  BY DEF writer_idle
<1>2. CaptureTypes'
  BY <1>1 DEF CaptureInv, CaptureTypes
<1>3. writer'.pc \in {"closed", "read"} /\ (writer'.pc = "closed" => Leave) /\ writer'.n = writer.n
  BY <1>1 DEF CaptureInv, CaptureTypes
<1>4. Pushed' = Pushed /\ Kept' = Kept
  BY <1>1, <1>3 DEF Pushed, Kept
<1>5. PhaseInv'
  BY <1>1, <1>3 DEF CaptureInv, PhaseInv, Leave
<1>6. WriterInv'
  BY <1>1, <1>3 DEF WriterInv
<1> QED
  BY <1>1, <1>2, <1>4, <1>5, <1>6, RowKept, RingKept, FileKept DEF CaptureInv

LEMMA ring_read_contigKeeps ==
  ASSUME CaptureInv, ring_read_contig
  PROVE  CaptureInv'
<1> DEFINE n == Contig(ring.tail, ring.head)
<1>1. /\ UNCHANGED <<tool, sender, sock, rx, ring, file>>
      /\ writer.pc = "read"
      /\ writer' = [pc |-> IF n = 0 THEN "idle" ELSE "write", n |-> n]
  BY DEF ring_read_contig
<1>2. /\ ring.head \in Nat /\ ring.tail \in Nat /\ ring.head - ring.tail \in Nat
      /\ ring.tail % RingSize \in 0 .. RingSize - 1
  <2>1. ring.head \in Nat /\ ring.tail \in Nat
    BY DEF CaptureInv, CaptureTypes
  <2> DEFINE t == ring.tail
  <2>0. t \in Int
    BY <2>1
  <2> HIDE DEF t
  <2>2. t % RingSize \in 0 .. RingSize - 1
    BY <2>0, DivModBy, CaptureSizes
  <2> QED
    BY <2>1, <2>2 DEF CaptureInv, RingInv, t
<1>3. n \in 0 .. ring.head - ring.tail /\ (ring.tail % RingSize) + n <= RingSize
  BY <1>2, CaptureSizes DEF Contig
<1> HIDE DEF n
<1>4. n \in Nat
  BY <1>2, <1>3
<1>5. CaptureTypes'
  BY <1>1, <1>4 DEF CaptureInv, CaptureTypes
<1>6. Pushed' = Pushed /\ Kept' = Kept
  BY <1>1 DEF Pushed, Kept
<1>7. PhaseInv'
  BY <1>1 DEF CaptureInv, PhaseInv
<1>8. WriterInv'
  BY <1>1, <1>2, <1>3, <1>4 DEF WriterInv
<1> QED
  BY <1>1, <1>5, <1>6, <1>7, <1>8, RowKept, RingKept, FileKept DEF CaptureInv

LEMMA ring_advanceKeeps ==
  ASSUME CaptureInv, ring_advance
  PROVE  CaptureInv'
<1>1. /\ UNCHANGED <<tool, sender, sock, rx, file>>
      /\ writer.pc = "advance"
      /\ ring' = [ring EXCEPT !.tail = @ + writer.n]
      /\ writer' = [writer EXCEPT !.pc = "read"]
  BY DEF ring_advance
<1>2. /\ ring.head \in Nat /\ ring.tail \in Nat /\ writer.n \in Nat
      /\ writer.n \in 1 .. ring.head - ring.tail /\ ring.head - ring.tail \in 0 .. RingSize
      /\ ring'.head = ring.head /\ ring'.tail = ring.tail + writer.n /\ ring'.buf = ring.buf
      /\ writer'.pc = "read" /\ tool = "grab"
  BY <1>1 DEF CaptureInv, CaptureTypes, WriterInv, RingInv, PhaseInv
<1>3. CaptureTypes'
  <2>1. ring.tail + writer.n \in Nat
    BY <1>2
  <2>2. ring' \in [head : Nat, tail : Nat, buf : [0 .. RingSize - 1 -> AnyByte]]
    BY <2>1, <1>1 DEF CaptureInv, CaptureTypes
  <2>3. writer' \in [pc : {"read", "idle", "write", "advance", "closed", "failed"}, n : Nat]
    BY <1>1 DEF CaptureInv, CaptureTypes
  <2> QED
    BY <2>2, <2>3, <1>1 DEF CaptureInv, CaptureTypes
<1>4. Pushed' = Pushed /\ Kept' = Kept
  BY <1>1, <1>2 DEF Pushed, Kept
<1>5. PhaseInv'
  BY <1>1, <1>2, CaptureSizes, SMTT(30) DEF CaptureInv, PhaseInv
<1>6. RingInv'
  <2>1. ring'.head - ring'.tail \in 0 .. RingSize
    BY <1>2, CaptureSizes
  <2>2. \A p \in ring'.tail .. ring'.head - 1 : p \in ring.tail .. ring.head - 1
    BY <1>2
  <2> QED
    BY <2>1, <2>2, <1>1, <1>2, <1>4 DEF CaptureInv, RingInv
<1>7. WriterInv'
  BY <1>2 DEF WriterInv
<1> QED
  BY <1>1, <1>3, <1>4, <1>5, <1>6, <1>7, RowKept, FileKept DEF CaptureInv

-----------------------------------------------------------------------------
(***************************************************************************)
(* The receiver takes a packet.                                             *)
(***************************************************************************)
\* The number behind the last one is the only one that is not a gap or a step back.
LEMMA GapMeans ==
  ASSUME NEW d \in 0 .. NumMod - 1, tool \in Tools, ~Gap(d),
         tool \in {"recv", "endurance"} \/ ~(d >= NumMod \div 2)
  PROVE  d = 1
<1>1. NumMod \div 2 \in Int
  BY CaptureSizes
<1> QED
  BY <1>1, CaptureSizes, CaptureAssumption DEF Gap

LEMMA recvRow ==
  ASSUME CaptureInv, recv
  PROVE  RowInv'
<1> DEFINE p == Head(sock)
           d == u32_delta(p.seq, rx.prev)
<1>1. /\ tool' = tool /\ tool \in Tools /\ rx' = Received(p) /\ p \in Pkts /\ rx.took \in Seq(Pkts)
      /\ rx.gaps \in Nat /\ rx.prev \in -1 .. NumMod - 1 /\ RowInv
  BY HeadTailProperties DEF recv, CaptureInv, CaptureTypes
<1>2. /\ rx'.dropped = rx.dropped /\ rx'.prev = p.seq /\ rx'.took = Append(rx.took, p)
      /\ rx'.gaps = rx.gaps + (IF rx.prev # -1 /\ Gap(d) THEN 1 ELSE 0)
      /\ rx'.back = (rx.back \/ (rx.prev # -1 /\ d >= NumMod \div 2))
  BY <1>1 DEF Received, CaptureInv, CaptureTypes
<1> DEFINE s == rx.took
<1>3. d \in 0 .. NumMod - 1
  <2> DEFINE x == p.seq - rx.prev
  <2>1. x \in Int
    <3>1. p.seq \in Int /\ rx.prev \in Int
      BY <1>1, CaptureSizes DEF Pkts
    <3> QED
      BY <3>1
  <2> HIDE DEF x
  <2>2. x % NumMod \in 0 .. NumMod - 1
    BY <2>1, DivModBy, CaptureSizes
  <2> QED
    BY <2>2 DEF u32_delta, x
<1> HIDE DEF p, d, s
<1> SUFFICES ASSUME rx'.dropped = 0
             PROVE  /\ rx'.prev = IF rx'.took = <<>> THEN -1 ELSE Last(rx'.took).seq
                    /\ (rx'.gaps = 0 /\ (tool \in {"recv", "endurance"} \/ ~rx'.back)) => InARow'
  BY <1>1 DEF RowInv
<1>4. Append(s, p) # <<>> /\ Last(Append(s, p)) = p /\ Len(Append(s, p)) = Len(s) + 1
      /\ \A k \in 1 .. Len(s) : Append(s, p)[k] = s[k]
  BY <1>1 DEF s, Last
<1>5. rx'.prev = IF rx'.took = <<>> THEN -1 ELSE Last(rx'.took).seq
  BY <1>2, <1>4 DEF s
<1>6. ASSUME rx'.gaps = 0, tool \in {"recv", "endurance"} \/ ~rx'.back
      PROVE  InARow'
  <2>1. rx.gaps = 0 /\ ~(rx.prev # -1 /\ Gap(d))
    BY <1>1, <1>2, <1>6
  <2>2. tool \in {"recv", "endurance"} \/ (~rx.back /\ ~(rx.prev # -1 /\ d >= NumMod \div 2))
    BY <1>2, <1>6
  <2>3. rx.dropped = 0
    BY <1>2
  <2>4. InARow /\ rx.prev = IF s = <<>> THEN -1 ELSE Last(s).seq
    BY <1>1, <2>1, <2>2, <2>3 DEF RowInv, s
  <2>5. s \in Seq(Pkts) /\ Len(s) \in Nat
    BY <1>1 DEF s
  <2>6. \A k \in 2 .. Len(s) : s[k].n = s[k - 1].n + 1
    BY <2>4 DEF InARow, s
  <2>7. ASSUME s # <<>>
        PROVE  p.n = s[Len(s)].n + 1
    <3>1. Len(s) >= 1 /\ Last(s) = s[Len(s)] /\ Last(s) \in Pkts
      BY <2>5, <2>7, AppendToFront DEF Last
    <3>2. rx.prev = Last(s).seq /\ rx.prev # -1
      <4>1. Last(s).seq \in 0 .. NumMod - 1
        BY <3>1 DEF Pkts
      <4> QED
        BY <4>1, <2>4, <2>7, CaptureSizes
    <3>3. d = 1
      BY <3>2, <2>1, <2>2, <1>1, <1>3, GapMeans
    <3>4. u32_delta(p.seq, Last(s).seq) = 1
      BY <3>2, <3>3 DEF d
    <3> QED
      BY <3>1, <3>4, <1>1, NextNumber
  <2>8. ASSUME NEW k \in 2 .. Len(Append(s, p))
        PROVE  Append(s, p)[k].n = Append(s, p)[k - 1].n + 1
    <3>1. CASE k <= Len(s)
      <4>1. k \in 2 .. Len(s) /\ k \in 1 .. Len(s) /\ k - 1 \in 1 .. Len(s)
        BY <3>1, <2>5
      <4> QED
        BY <4>1, <2>6, <1>4
    <3>2. CASE k > Len(s)
      <4>1. k = Len(s) + 1 /\ k - 1 = Len(s) /\ Len(s) \in 1 .. Len(s)
        BY <3>2, <2>5, <1>4
      <4>2. s # <<>>
        BY <4>1
      <4>3. Append(s, p)[k] = p
        BY <4>1, <1>4 DEF Last
      <4> QED
        BY <4>1, <4>2, <4>3, <2>7, <1>4
    <3> QED
      BY <3>1, <3>2, <2>5, <1>4
  <2> QED
    BY <2>8, <1>2 DEF InARow, s
<1> QED
  BY <1>5, <1>6

LEMMA recvFile ==
  ASSUME CaptureInv, recv, tool \in {"recv", "endurance"}
  PROVE  FileInv'
<1> DEFINE p == Head(sock)
           s == rx.took
           f == file
           g == PayloadOf(p)
<1>1. /\ tool' = tool /\ rx' = Received(p) /\ p \in Pkts /\ s \in Seq(Pkts) /\ f \in Seq(AnyByte)
      /\ file' = f \o g /\ rx.pc = "recv"
  BY HeadTailProperties DEF recv, CaptureInv, CaptureTypes, Extended
<1>2. rx'.took = Append(s, p) /\ rx'.pc = "recv"
  BY <1>1 DEF Received, CaptureInv, CaptureTypes
<1>3. Pushed = s /\ Pushed' = Append(s, p)
  BY <1>1, <1>2 DEF Pushed
<1>4. Len(s) \in Nat /\ P * Len(s) \in Nat /\ P * (Len(s) + 1) = P * Len(s) + P
      /\ Len(Append(s, p)) = Len(s) + 1
  <2>1. Len(s) \in Nat /\ Len(Append(s, p)) = Len(s) + 1
    <3> HIDE DEF s, p
    <3> QED
      BY <1>1
  <2> DEFINE n == Len(s)
  <2>2. n \in Nat
    BY <2>1
  <2> HIDE DEF n
  <2>3. P * n \in Nat /\ P * (n + 1) = P * n + P
    BY <2>2, Product
  <2> QED
    BY <2>1, <2>3 DEF n
<1>5. Kept = P * Len(s) /\ Kept' = P * (Len(s) + 1)
  BY <1>1, <1>2, <1>4 DEF Kept
<1>6. Len(f) = P * Len(s) /\ \A k \in 1 .. Len(f) : f[k] = PayloadByte(s, k - 1)
  BY <1>3, <1>5 DEF CaptureInv, FileInv
<1>7. g \in Seq(AnyByte) /\ Len(g) = P
  BY <1>1, PayloadType
<1> HIDE DEF p, s, f, g
<1>8. /\ Len(f \o g) = Len(f) + Len(g)
      /\ \A k \in 1 .. Len(f) + Len(g) : (f \o g)[k] = IF k <= Len(f) THEN f[k] ELSE g[k - Len(f)]
  BY <1>1, <1>7, ConcatProperties
<1>9. ASSUME NEW k \in 1 .. Len(f \o g)
      PROVE  (f \o g)[k] = PayloadByte(Append(s, p), k - 1)
  <2>1. k \in 1 .. P * Len(s) + P /\ k - 1 \in Nat
    BY <1>4, <1>6, <1>7, <1>8, CaptureSizes
  <2>2. CASE k <= P * Len(s)
    <3>1. k \in 1 .. Len(f) /\ k - 1 < P * Len(s)
      BY <2>1, <2>2, <1>4, <1>6
    <3> QED
      BY <3>1, <2>1, <2>2, <1>1, <1>6, <1>8, ByteBefore
  <2>3. CASE k > P * Len(s)
    <3> DEFINE b == k - 1
    <3>1. b \in Nat /\ P * Len(s) <= b /\ b < P * Len(s) + P /\ b - P * Len(s) + 1 = k - P * Len(s)
      BY <2>1, <2>3, <1>4, CaptureSizes
    <3>2. PayloadByte(Append(s, p), b) = PayloadOf(p)[b - P * Len(s) + 1]
      <4> HIDE DEF b
      <4> QED
        BY <3>1, <1>1, ByteLast
    <3>3. (f \o g)[k] = g[k - P * Len(s)]
      BY <2>1, <2>3, <1>4, <1>6, <1>8
    <3> QED
      BY <3>1, <3>2, <3>3 DEF g
  <2> QED
    BY <2>1, <2>2, <2>3, <1>4
<1> QED
  BY <1>1, <1>3, <1>4, <1>5, <1>6, <1>7, <1>8, <1>9 DEF FileInv

LEMMA recvKeeps ==
  ASSUME CaptureInv, recv
  PROVE  CaptureInv'
<1> DEFINE p == Head(sock)
<1>1. /\ UNCHANGED <<tool, sender, ring, writer>> /\ rx.pc = "recv" /\ ~rx.stop /\ sock # <<>>
      /\ sock' = Tail(sock) /\ rx' = Received(p) /\ file' = Extended(p)
      /\ sock \in Seq(Pkts) /\ rx.took \in Seq(Pkts) /\ tool \in Tools
  BY DEF recv, CaptureInv, CaptureTypes
<1>2. p \in Pkts /\ sock' \in Seq(Pkts)
  BY <1>1, HeadTailProperties
<1> HIDE DEF p
<1>3. /\ rx'.took = Append(rx.took, p) /\ rx'.stop = rx.stop
      /\ rx'.pc = (IF tool = "grab" THEN "push" ELSE "recv")
      /\ rx'.h = ring.head /\ rx'.t = ring.tail
  BY <1>1 DEF Received, CaptureInv, CaptureTypes
<1>4. Append(rx.took, p) \in Seq(Pkts) /\ Append(rx.took, p) # <<>>
  <2>1. Append(rx.took, p) \in Seq(Pkts)
    BY <1>1, <1>2
  <2>2. Len(Append(rx.took, p)) = Len(rx.took) + 1 /\ Len(rx.took) \in Nat
    BY <1>1, <1>2
  <2> QED
    BY <2>1, <2>2
<1>5. rx' \in [pc : {"recv", "push", "join", "done"}, prev : -1 .. NumMod - 1, gaps : Nat, took : Seq(Pkts),
             dropped : Nat, h : Nat, t : Nat, stop : BOOLEAN, back : BOOLEAN]
  <2>1. p.seq \in -1 .. NumMod - 1
    <3>1. p.seq \in 0 .. NumMod - 1
      BY <1>2 DEF Pkts
    <3> QED
      BY <3>1, CaptureSizes
  <2>2. rx.gaps + (IF rx.prev # -1 /\ Gap(u32_delta(p.seq, rx.prev)) THEN 1 ELSE 0) \in Nat
    BY SMTT(30) DEF CaptureInv, CaptureTypes
  <2> QED
    BY <1>1, <1>4, <2>1, <2>2, ZenonT(60) DEF Received, CaptureInv, CaptureTypes
<1>6. file' \in Seq(AnyByte)
  <2>1. PayloadOf(p) \in Seq(AnyByte) /\ file \in Seq(AnyByte)
    BY <1>2, PayloadType DEF CaptureInv, CaptureTypes
  <2>2. file \o PayloadOf(p) \in Seq(AnyByte)
    BY <2>1, ConcatProperties
  <2> QED
    BY <2>1, <2>2, <1>1 DEF Extended
<1>7. CaptureTypes'
  BY <1>1, <1>2, <1>5, <1>6 DEF CaptureInv, CaptureTypes
<1>8. ring.tail \in Nat
  BY DEF CaptureInv, CaptureTypes
<1>9. PhaseInv'
  BY <1>1, <1>3, <1>4, <1>8 DEF CaptureInv, PhaseInv
<1>10. WriterInv'
  BY <1>1, WriterKept DEF CaptureInv
<1>11. CASE tool = "grab"
  <2>1. Pushed = rx.took /\ Pushed' = Front(Append(rx.took, p))
    BY <1>1, <1>3, <1>11 DEF Pushed
  <2>2. Pushed' = Pushed
    BY <2>1, <1>1, <1>2, FrontOfAppend
  <2>3. Kept' = Kept /\ file' = file
    BY <1>1, <1>11 DEF Kept, Extended
  <2> QED
    BY <2>2, <2>3, <1>1, <1>7, <1>9, <1>10, recvRow, RingKept, FileKept DEF CaptureInv
<1>12. CASE tool # "grab"
  <2>1. ring.head = 0 /\ ring.tail = 0
    BY <1>12 DEF CaptureInv, PhaseInv
  <2>2. RingInv'
    BY <2>1, <1>1, <1>12, CaptureSizes DEF RingInv
  <2>3. CASE tool \in {"recv", "endurance"}
    BY <2>2, <2>3, <1>7, <1>9, <1>10, recvRow, recvFile DEF CaptureInv
  <2>4. CASE tool = "recvmmsg"
    <3>1. Kept = 0 /\ Kept' = 0 /\ file' = file /\ tool' = tool
      BY <2>4, <1>1 DEF Kept, Extended
    <3>2. Len(file) = 0
      BY <3>1 DEF CaptureInv, FileInv
    <3>3. FileInv'
      BY <3>1, <3>2 DEF FileInv
    <3> QED
      BY <2>2, <3>3, <1>7, <1>9, <1>10, recvRow DEF CaptureInv
  <2> QED
    BY <2>3, <2>4, <1>1, <1>12, CaptureAssumption
<1> QED
  BY <1>11, <1>12

-----------------------------------------------------------------------------
(***************************************************************************)
(* The receiver puts the packet into the ring.                              *)
(***************************************************************************)
\* What a push begins with: s are the packets in the ring, x the one that is pushed.
LEMMA PushState ==
  ASSUME CaptureInv, ring_push
  PROVE  /\ Pushed = Front(rx.took) /\ rx.took = Append(Front(rx.took), Last(rx.took))
         /\ Front(rx.took) \in Seq(Pkts) /\ Last(rx.took) \in Pkts
         /\ Len(rx.took) = Len(Front(rx.took)) + 1
         /\ rx.pc = "push" /\ tool = "grab" /\ ~rx.stop
         /\ ring.head = P * Len(Front(rx.took)) /\ rx.h = ring.head
         /\ ring.head \in Nat /\ ring.tail \in Nat /\ rx.t \in 0 .. ring.tail
         /\ ring.head - ring.tail \in 0 .. RingSize
<1>1. rx.pc = "push" /\ rx.took \in Seq(Pkts) /\ ring.head \in Nat /\ ring.tail \in Nat
  BY DEF ring_push, CaptureInv, CaptureTypes
<1>2. Pushed = Front(rx.took)
  BY <1>1 DEF Pushed
<1>3. /\ tool = "grab" /\ rx.took # <<>> /\ rx.h = ring.head /\ rx.t \in 0 .. ring.tail /\ ~rx.stop
  BY <1>1 DEF CaptureInv, PhaseInv
<1>4. ring.head = P * Len(Front(rx.took)) /\ ring.head - ring.tail \in 0 .. RingSize
  BY <1>2, <1>3 DEF CaptureInv, RingInv
<1> DEFINE s == rx.took
<1>5. /\ Front(s) \in Seq(Pkts) /\ Last(s) \in Pkts /\ s = Append(Front(s), Last(s))
      /\ Len(Front(s)) = Len(s) - 1 /\ Len(s) \in Nat
  <2> HIDE DEF s
  <2>1. s \in Seq(Pkts) /\ s # <<>>
    BY <1>1, <1>3 DEF s
  <2> QED
    BY <2>1, AppendToFront
<1> QED
  BY <1>1, <1>2, <1>3, <1>4, <1>5

\* No room: the payload is counted as dropped.
LEMMA DropKeeps ==
  ASSUME CaptureInv, ring_push, ~(RingSize - (rx.h - rx.t) >= P)
  PROVE  CaptureInv'
<1> DEFINE s == Front(rx.took)
<1>1. /\ UNCHANGED <<tool, sender, sock, ring, writer, file>>
      /\ rx' = [rx EXCEPT !.pc = "recv", !.dropped = @ + P, !.took = s]
  BY DEF ring_push
<1>2. rx.dropped \in Nat /\ rx.dropped + P \in Nat /\ rx.dropped + P # 0
  <2>1. rx.dropped \in Nat
    BY DEF CaptureInv, CaptureTypes
  <2> QED
    BY <2>1, CaptureSizes
<1>3. /\ rx'.pc = "recv" /\ rx'.dropped # 0 /\ rx'.took = s /\ rx'.stop = rx.stop
  BY <1>1, <1>2 DEF CaptureInv, CaptureTypes
<1>4. s \in Seq(Pkts) /\ Pushed = s /\ rx.pc = "push" /\ ~rx.stop /\ tool = "grab"
  BY PushState
<1>5. Pushed' = Pushed /\ Kept' = Kept
  BY <1>1, <1>3, <1>4 DEF Pushed, Kept
<1>6. CaptureTypes'
  BY <1>1, <1>2, <1>4 DEF CaptureInv, CaptureTypes
<1>7. PhaseInv'
  BY <1>1, <1>3, <1>4 DEF CaptureInv, PhaseInv
<1>8. RowInv'
  BY <1>3 DEF RowInv
<1> QED
  BY <1>1, <1>5, <1>6, <1>7, <1>8, RingKept, WriterKept, FileKept DEF CaptureInv

\* Room: the bytes of the payload go behind the head, and those in front of it stay.
LEMMA PushBuffer ==
  ASSUME CaptureInv, ring_push, RingSize - (rx.h - rx.t) >= P
  PROVE  /\ ring' = [ring EXCEPT !.head = rx.h + P, !.buf = ring'.buf]
         /\ ring'.buf \in [0 .. RingSize - 1 -> AnyByte]
         /\ \A p \in ring.tail .. rx.h + P - 1 : ring'.buf[p % RingSize] = PayloadByte(rx.took, p)
<1> DEFINE s == Front(rx.took)
           x == Last(rx.took)
           h == rx.h
           t == ring.tail
           B(pos) == LET k == ((pos - h) % RingSize) + 1
                     IN  IF k <= P THEN PayloadOf(x)[k] ELSE ring.buf[pos]
<1>1. /\ rx.took = Append(s, x) /\ s \in Seq(Pkts) /\ x \in Pkts /\ h = P * Len(s) /\ Pushed = s
      /\ h \in Nat /\ t \in Nat /\ rx.t \in 0 .. t /\ h - t \in 0 .. RingSize /\ ring.head = h
  BY PushState
<1>2. ring.buf \in [0 .. RingSize - 1 -> AnyByte] /\ ring \in [head : Nat, tail : Nat, buf : [0 .. RingSize - 1 -> AnyByte]]
  BY DEF CaptureInv, CaptureTypes
<1>3. ring' = [ring EXCEPT !.head = h + P, !.buf = [pos \in 0 .. RingSize - 1 |-> B(pos)]]
  <2>1. DOMAIN ring.buf = 0 .. RingSize - 1
    BY <1>2
  <2> QED
    BY <2>1 DEF ring_push
<1>4. ring'.buf = [pos \in 0 .. RingSize - 1 |-> B(pos)]
  BY <1>2, <1>3
<1>5. ASSUME NEW pos \in 0 .. RingSize - 1
      PROVE  B(pos) \in AnyByte
  <2> DEFINE y == pos - h
             k == (y % RingSize) + 1
  <2>1. y \in Int
    BY <1>1, CaptureSizes
  <2>2. k \in Nat /\ k >= 1
    <3> HIDE DEF y
    <3>1. y % RingSize \in 0 .. RingSize - 1
      BY <2>1, DivModBy, CaptureSizes
    <3> QED
      BY <3>1, CaptureSizes
  <2>3. B(pos) = IF k <= P THEN PayloadOf(x)[k] ELSE ring.buf[pos]
    OBVIOUS
  <2> HIDE DEF k, B
  <2>4. k <= P => PayloadOf(x)[k] \in AnyByte
    BY <2>2, <1>1, CaptureSizes, PayloadType
  <2> QED
    BY <2>3, <2>4, <1>2
<1>6. ASSUME NEW p \in t .. h + P - 1
      PROVE  ring'.buf[p % RingSize] = PayloadByte(Append(s, x), p)
  <2>1. p \in Nat /\ p - h < RingSize /\ h - p <= RingSize /\ (p < h => p - h + RingSize >= P)
    <3> HIDE DEF h, t
    <3> QED
      BY <1>1, CaptureSizes, SMTT(30) DEF h
  <2> DEFINE pos == p % RingSize
  <2>2. pos \in 0 .. RingSize - 1
    <3>1. p \in Int
      BY <2>1
    <3> QED
      BY <3>1, DivModBy, CaptureSizes
  <2>3. (pos - h) % RingSize = IF p >= h THEN p - h ELSE p - h + RingSize
    <3> HIDE DEF h
    <3> QED
      BY <2>1, <1>1, RingBehind
  <2>4. ring'.buf[pos] = B(pos)
    BY <1>4, <2>2
  <2> HIDE DEF pos
  <2>5. CASE p >= h
    <3>1. ((pos - h) % RingSize) + 1 = p - h + 1 /\ p - h + 1 <= P
      BY <2>3, <2>5, <1>1, <2>1, CaptureSizes
    <3>2. B(pos) = PayloadOf(x)[p - h + 1]
      BY <3>1
    <3>3. P * Len(s) <= p /\ p < P * Len(s) + P
      BY <2>5, <1>1, <2>1, CaptureSizes
    <3>4. PayloadByte(Append(s, x), p) = PayloadOf(x)[p - P * Len(s) + 1]
      <4> HIDE DEF s, x
      <4> QED
        BY <3>3, <2>1, <1>1, ByteLast
    <3>5. PayloadByte(Append(s, x), p) = PayloadOf(x)[p - h + 1]
      BY <3>4, <1>1
    <3> QED
      BY <2>4, <3>2, <3>5 DEF pos
  <2>6. CASE p < h
    <3>1. ~(((pos - h) % RingSize) + 1 <= P)
      BY <2>3, <2>6, <1>1, <2>1, CaptureSizes
    <3>2. B(pos) = ring.buf[pos]
      BY <3>1
    <3>3. p \in ring.tail .. ring.head - 1
      BY <2>6, <1>1, <2>1
    <3>4. ring.buf[pos] = PayloadByte(s, p)
      BY <3>3, <1>1 DEF CaptureInv, RingInv, pos
    <3>5. PayloadByte(Append(s, x), p) = PayloadByte(s, p)
      <4>1. p < P * Len(s)
        BY <2>6, <1>1
      <4> HIDE DEF s, x
      <4> QED
        BY <4>1, <2>1, <1>1, ByteBefore
    <3> QED
      BY <2>4, <3>2, <3>4, <3>5 DEF pos
  <2> QED
    BY <2>1, <1>1, <2>5, <2>6
<1> HIDE DEF B
<1>7. ring'.buf \in [0 .. RingSize - 1 -> AnyByte]
  BY <1>4, <1>5
<1>8. ring' = [ring EXCEPT !.head = h + P, !.buf = ring'.buf]
  BY <1>3, <1>4
<1> QED
  BY <1>1, <1>6, <1>7, <1>8

LEMMA PushKeeps ==
  ASSUME CaptureInv, ring_push, RingSize - (rx.h - rx.t) >= P
  PROVE  CaptureInv'
<1> DEFINE s == Front(rx.took)
           x == Last(rx.took)
           h == rx.h
           t == ring.tail
<1>1. /\ UNCHANGED <<tool, sender, sock, writer, file>>
      /\ rx' = [rx EXCEPT !.pc = "recv", !.dropped = @ + 0, !.took = @]
  BY DEF ring_push
<1>2. /\ rx.took = Append(s, x) /\ s \in Seq(Pkts) /\ x \in Pkts /\ h = P * Len(s) /\ Pushed = s
      /\ Len(rx.took) = Len(s) + 1 /\ ~rx.stop /\ tool = "grab"
      /\ h \in Nat /\ t \in Nat /\ rx.t \in 0 .. t /\ h - t \in 0 .. RingSize /\ ring.head = h
  BY PushState
<1>3. /\ rx'.pc = "recv" /\ rx'.dropped = rx.dropped /\ rx'.took = rx.took /\ rx'.stop = rx.stop
      /\ rx'.prev = rx.prev /\ rx'.gaps = rx.gaps /\ rx'.back = rx.back
  BY <1>1 DEF CaptureInv, CaptureTypes
<1>4. Pushed' = rx.took
  BY <1>3 DEF Pushed
<1>5. /\ ring'.head = h + P /\ ring'.tail = t /\ ring' \in [head : Nat, tail : Nat, buf : [0 .. RingSize - 1 -> AnyByte]]
      /\ \A p \in t .. h + P - 1 : ring'.buf[p % RingSize] = PayloadByte(rx.took, p)
  <2>1. /\ ring' = [ring EXCEPT !.head = h + P, !.buf = ring'.buf]
        /\ ring'.buf \in [0 .. RingSize - 1 -> AnyByte]
        /\ \A p \in t .. h + P - 1 : ring'.buf[p % RingSize] = PayloadByte(rx.took, p)
    BY PushBuffer
  <2>2. ring \in [head : Nat, tail : Nat, buf : [0 .. RingSize - 1 -> AnyByte]] /\ h + P \in Nat
    <3>1. ring \in [head : Nat, tail : Nat, buf : [0 .. RingSize - 1 -> AnyByte]]
      BY DEF CaptureInv, CaptureTypes
    <3>2. h \in Nat
      BY <1>2
    <3> QED
      BY <3>1, <3>2, CaptureSizes
  <2> DEFINE b == ring'.buf
             hh == h + P
             rr == ring'
  <2>3. rr = [ring EXCEPT !.head = hh, !.buf = b] /\ b \in [0 .. RingSize - 1 -> AnyByte] /\ hh \in Nat
    BY <2>1, <2>2
  <2> HIDE DEF b, hh, rr
  <2>4. /\ rr.head = hh /\ rr.tail = t /\ rr \in [head : Nat, tail : Nat, buf : [0 .. RingSize - 1 -> AnyByte]]
    BY <2>2, <2>3
  <2> QED
    BY <2>1, <2>4 DEF hh, rr
<1>6. CaptureTypes'
  <2>1. rx' \in [pc : {"recv", "push", "join", "done"}, prev : -1 .. NumMod - 1, gaps : Nat, took : Seq(Pkts),
             dropped : Nat, h : Nat, t : Nat, stop : BOOLEAN, back : BOOLEAN]
    <3>1. rx \in [pc : {"recv", "push", "join", "done"}, prev : -1 .. NumMod - 1, gaps : Nat, took : Seq(Pkts),
             dropped : Nat, h : Nat, t : Nat, stop : BOOLEAN, back : BOOLEAN]
      BY DEF CaptureInv, CaptureTypes
    <3>2. rx.dropped + 0 = rx.dropped
      BY <3>1
    <3>3. rx' = [rx EXCEPT !.pc = "recv", !.dropped = @, !.took = @]
      BY <1>1, <3>2
    <3> QED
      BY <3>1, <3>3
  <2> QED
    BY <2>1, <1>1, <1>5 DEF CaptureInv, CaptureTypes
<1>7. RowInv'
  BY <1>1, <1>3, RowKept DEF CaptureInv
<1>8. PhaseInv'
  BY <1>1, <1>2, <1>3, <1>5 DEF CaptureInv, PhaseInv
<1>9. RingInv'
  <2>1. P * Len(rx.took) = h + P
    <3> DEFINE n == Len(s)
    <3>1. n \in Nat /\ Len(rx.took) = n + 1 /\ h = P * n
      BY <1>2
    <3> HIDE DEF n, h
    <3> QED
      BY <3>1, Product
  <2>2. h + P - t \in 0 .. RingSize
    <3> DEFINE rt == rx.t
    <3>1. rt \in 0 .. t /\ h \in Nat /\ t \in Nat /\ h - t \in 0 .. RingSize /\ RingSize - (h - rt) >= P
      BY <1>2
    <3> HIDE DEF rt, h, t
    <3> QED
      BY <3>1, CaptureSizes
  <2>3. tool' = tool
    BY <1>1
  <2>4. ring'.head = P * Len(Pushed')
    BY <2>1, <1>4, <1>5
  <2> DEFINE hh == ring'.head
             tt == ring'.tail
  <2>5. hh = h + P /\ tt = t /\ h \in Nat /\ t \in Nat /\ P \in Nat
    BY <1>2, <1>5, CaptureSizes
  <2>6. hh - tt \in 0 .. RingSize
    <3> QED
      BY ONLY <2>2, <2>5
  <2>7. \A p \in tt .. hh - 1 : ring'.buf[p % RingSize] = PayloadByte(Pushed', p)
    <3>1. \A p \in t .. h + P - 1 : ring'.buf[p % RingSize] = PayloadByte(Pushed', p)
      BY <1>4, <1>5
    <3> QED
      BY ONLY <3>1, <2>5
  <2> QED
    BY <2>4, <2>6, <2>7 DEF RingInv, PayloadByte
<1>10. WriterInv'
  <2>1. writer.pc \in {"write", "advance"} => writer.n \in 1 .. h - t
    BY <1>2 DEF CaptureInv, WriterInv
  <2>2. writer.pc \in {"write", "advance"} => writer.n \in 1 .. h + P - t
    BY <2>1, <1>2, CaptureSizes, SMTT(30)
  <2> QED
    <3>1. writer' = writer /\ ring'.head = h + P /\ ring'.tail = t /\ ring.tail = t
      BY <1>1, <1>5
    <3>2. writer.pc = "write" => (t % RingSize) + writer.n <= RingSize
      BY DEF CaptureInv, WriterInv
    <3> DEFINE hh == ring'.head
               tt == ring'.tail
    <3>3. hh = h + P /\ tt = t /\ writer' = writer /\ h \in Nat /\ t \in Nat /\ P \in Nat
      BY <1>2, <3>1, CaptureSizes
    <3>4. (writer.pc \in {"write", "advance"} => writer.n \in 1 .. hh - tt)
          /\ (writer.pc = "write" => (tt % RingSize) + writer.n <= RingSize)
      <4>1. writer.pc = "write" => (t % RingSize) + writer.n <= RingSize
        BY <3>1, <3>2
      <4> QED
        BY ONLY <3>3, <4>1, <2>2
    <3> QED
      BY <3>3, <3>4 DEF WriterInv
<1>11. FileInv'
  <2>1. Kept' = Kept /\ Len(file) = Kept /\ \A k \in 1 .. Len(file) : file[k] = PayloadByte(s, k - 1)
    BY <1>1, <1>2, <1>5 DEF Kept, CaptureInv, FileInv
  <2>2. Kept \in 0 .. h
    BY <1>2 DEF Kept, CaptureInv, WriterInv
  <2>3. ASSUME NEW k \in 1 .. Len(file)
        PROVE  file[k] = PayloadByte(rx.took, k - 1)
    <3> DEFINE b == k - 1
    <3>1. b \in Nat /\ b < P * Len(s)
      BY <2>1, <2>2, <1>2
    <3>2. PayloadByte(Append(s, x), b) = PayloadByte(s, b)
      <4> HIDE DEF b, s, x
      <4> QED
        BY <3>1, <1>2, ByteBefore
    <3> QED
      BY <3>2, <2>1, <1>2
  <2> QED
    BY <2>1, <2>3, <1>1, <1>4 DEF FileInv
<1> QED
  BY <1>6, <1>7, <1>8, <1>9, <1>10, <1>11 DEF CaptureInv

LEMMA ring_pushKeeps ==
  ASSUME CaptureInv, ring_push
  PROVE  CaptureInv'
BY DropKeeps, PushKeeps

-----------------------------------------------------------------------------
(***************************************************************************)
(* The writer writes some of the bytes it has found.                        *)
(***************************************************************************)
LEMMA WriteBytes ==
  ASSUME CaptureInv, writer.pc = "write", NEW wr \in 1 .. writer.n,
         NEW g, g = [k \in 1 .. wr |-> IF InRing(k) THEN ring.buf[(ring.tail % RingSize) + k - 1] ELSE Beyond]
  PROVE  /\ g \in Seq(AnyByte) /\ Len(g) = wr
         /\ \A k \in 1 .. wr : g[k] = PayloadByte(Pushed, ring.tail + k - 1)
<1> DEFINE t == ring.tail
<1>1. /\ ring.buf \in [0 .. RingSize - 1 -> AnyByte] /\ t \in Nat /\ ring.head \in Nat /\ writer.n \in Nat
      /\ writer.n \in 1 .. ring.head - t /\ (t % RingSize) + writer.n <= RingSize
      /\ \A p \in t .. ring.head - 1 : ring.buf[p % RingSize] = PayloadByte(Pushed, p)
  BY DEF CaptureInv, CaptureTypes, WriterInv, RingInv
<1>2. wr \in Nat
  BY <1>1
<1>3. t % RingSize \in 0 .. RingSize - 1
  <2>1. t \in Int
    BY <1>1
  <2> HIDE DEF t
  <2> QED
    BY <2>1, DivModBy, CaptureSizes
<1>4. ASSUME NEW k \in 1 .. wr
      PROVE  /\ g[k] = PayloadByte(Pushed, t + k - 1)
             /\ g[k] \in AnyByte
  <2> DEFINE j == k - 1
             o == t % RingSize
             n == writer.n
             hd == ring.head
  <2>1. /\ t \in Nat /\ hd \in Nat /\ n \in Nat /\ wr \in 1 .. n /\ o \in 0 .. RingSize - 1
        /\ n \in 1 .. hd - t /\ o + n <= RingSize
    BY <1>1, <1>3
  <2>2. /\ j \in Nat /\ o + j < RingSize /\ t + j \in t .. hd - 1
        /\ o + k - 1 = o + j /\ t + k - 1 = t + j /\ o + j \in 0 .. RingSize - 1
    <3> HIDE DEF t, o, n, hd
    <3> QED
      BY <2>1, CaptureSizes
  <2>3. (t + j) % RingSize = o + j
    <3> HIDE DEF t, j
    <3> QED
      BY <2>1, <2>2, RingPlace DEF o
  <2>4. g[k] = ring.buf[o + j]
    BY <2>2 DEF InRing
  <2>5. ring.buf[(t + j) % RingSize] = PayloadByte(Pushed, t + j)
    BY <1>1, <2>2
  <2> QED
    BY <2>2, <2>3, <2>4, <2>5, <1>1
<1>5. g \in Seq(AnyByte) /\ Len(g) = wr
  <2>1. g \in [1 .. wr -> AnyByte]
    BY <1>4
  <2> QED
    BY <2>1, <1>2
<1> QED
  BY <1>4, <1>5

LEMMA WriteKeeps ==
  ASSUME CaptureInv, writer.pc = "write", NEW wr \in 1 .. writer.n, NEW g,
         g = [k \in 1 .. wr |-> IF InRing(k) THEN ring.buf[(ring.tail % RingSize) + k - 1] ELSE Beyond],
         file' = file \o g, writer' = [pc |-> "advance", n |-> wr],
         UNCHANGED <<tool, sender, sock, rx, ring>>
  PROVE  CaptureInv'
<1> DEFINE f == file
           t == ring.tail
<1>1. /\ g \in Seq(AnyByte) /\ Len(g) = wr
      /\ \A k \in 1 .. wr : g[k] = PayloadByte(Pushed, t + k - 1)
  BY WriteBytes
<1>2. /\ f \in Seq(AnyByte) /\ t \in Nat /\ ring.head \in Nat /\ writer.n \in Nat
      /\ writer.n \in 1 .. ring.head - t
  BY DEF CaptureInv, CaptureTypes, WriterInv
<1>3. wr \in Nat /\ wr \in 1 .. ring.head - t /\ tool = "grab" /\ tool' = "grab"
  BY <1>2 DEF CaptureInv, PhaseInv
<1>4. Kept = t /\ Kept' = t + wr /\ Pushed' = Pushed
  <2>1. writer'.pc = "advance" /\ writer'.n = wr /\ ring'.tail = t /\ rx' = rx
    OBVIOUS
  <2>2. Kept = t
    BY <1>2, <1>3 DEF Kept
  <2>3. Kept' = t + wr
    BY <1>3, <2>1 DEF Kept
  <2> QED
    BY <2>1, <2>2, <2>3 DEF Pushed
<1>5. Len(f) = t /\ \A k \in 1 .. Len(f) : f[k] = PayloadByte(Pushed, k - 1)
  BY <1>4 DEF CaptureInv, FileInv
<1>6. /\ f \o g \in Seq(AnyByte) /\ Len(f \o g) = Len(f) + Len(g)
      /\ \A k \in 1 .. Len(f) + Len(g) : (f \o g)[k] = IF k <= Len(f) THEN f[k] ELSE g[k - Len(f)]
  <2> HIDE DEF f
  <2> QED
    BY <1>1, <1>2, ConcatProperties
<1>7. CaptureTypes'
  BY <1>3, <1>6 DEF CaptureInv, CaptureTypes
<1>8. FileInv'
  <2>1. Len(f \o g) = t + wr
    BY <1>1, <1>5, <1>6
  <2>2. ASSUME NEW k \in 1 .. t + wr
        PROVE  (f \o g)[k] = PayloadByte(Pushed, k - 1)
    <3> DEFINE m == Len(f)
               n == Len(g)
    <3>0. k \in Nat /\ k >= 1 /\ k <= t + wr /\ t \in Nat /\ wr \in Nat /\ m = t /\ n = wr
      BY <1>1, <1>2, <1>3, <1>5
    <3>1. CASE k <= t
      <4>1. k \in 1 .. Len(f) /\ k \in 1 .. Len(f) + Len(g)
        BY <3>1, <1>1, <1>2, <1>3, <1>5
      <4> QED
        BY <3>1, <4>1, <1>5, <1>6
    <3>2. CASE k > t
      <4> DEFINE j == k - t
      <4>1. j \in 1 .. wr /\ t + j - 1 = k - 1 /\ k \in 1 .. Len(f) + Len(g) /\ ~(k <= Len(f)) /\ k - Len(f) = j
        <5> HIDE DEF t, m, n
        <5>1. j \in 1 .. wr /\ t + j - 1 = k - 1 /\ k \in 1 .. m + n /\ ~(k <= m) /\ k - m = j
          BY <3>0, <3>2
        <5> QED
          BY <5>1 DEF m, n
      <4>2. (f \o g)[k] = g[j]
        BY <4>1, <1>6
      <4>3. g[j] = PayloadByte(Pushed, t + j - 1)
        <5> HIDE DEF j
        <5> QED
          BY <4>1, <1>1
      <4> QED
        BY <4>1, <4>2, <4>3
    <3> QED
      BY <3>0, <3>1, <3>2
  <2>3. file' = f \o g
    OBVIOUS
  <2> QED
    BY <2>1, <2>2, <2>3, <1>4 DEF FileInv, PayloadByte
<1>9. PhaseInv'
  BY <1>3 DEF CaptureInv, PhaseInv
<1>10. WriterInv'
  BY <1>3 DEF WriterInv
<1> QED
  BY <1>3, <1>4, <1>7, <1>8, <1>9, <1>10, RowKept, RingKept DEF CaptureInv

LEMMA writer_writeKeeps ==
  ASSUME CaptureInv, writer_write
  PROVE  CaptureInv'
<1>1. UNCHANGED <<tool, sender, sock, rx, ring>> /\ writer.pc = "write"
  BY DEF writer_write
<1>2. CASE \E wr \in 1 .. writer.n :
             /\ file' = file \o [k \in 1 .. wr |-> IF InRing(k) THEN ring.buf[(ring.tail % RingSize) + k - 1]
                                                   ELSE Beyond]
             /\ writer' = [pc |-> "advance", n |-> wr]
  BY <1>1, <1>2, WriteKeeps
<1>3. CASE writer' = [writer EXCEPT !.pc = "failed"] /\ UNCHANGED file
  <2>1. writer'.pc = "failed"
    BY <1>3 DEF CaptureInv, CaptureTypes
  <2>2. CaptureTypes'
    BY <1>1, <1>3 DEF CaptureInv, CaptureTypes
  <2>3. Pushed' = Pushed /\ Kept' = Kept
    BY <1>1, <2>1 DEF Pushed, Kept
  <2>4. PhaseInv'
    BY <1>1, <2>1 DEF CaptureInv, PhaseInv
  <2>5. WriterInv'
    BY <2>1 DEF WriterInv
  <2> QED
    BY <1>1, <1>3, <2>2, <2>3, <2>4, <2>5, RowKept, RingKept, FileKept DEF CaptureInv
<1> QED
  BY <1>2, <1>3 DEF writer_write

-----------------------------------------------------------------------------
LEMMA CaptureInitInv == CaptureInit => CaptureInv
<1> SUFFICES ASSUME CaptureInit PROVE CaptureInv
  OBVIOUS
<1>1. /\ tool \in Tools /\ sender = [n |-> 0, next |-> First] /\ sock = <<>> /\ rx = RxStart /\ file = <<>>
      /\ ring = [head |-> 0, tail |-> 0, buf |-> [pos \in 0 .. RingSize - 1 |-> Beyond]]
      /\ writer = [pc |-> IF tool = "grab" THEN "read" ELSE "closed", n |-> 0]
  BY DEF CaptureInit
<1>2. Beyond \in AnyByte
  BY CaptureSizes DEF Beyond, AnyByte
<1>3. First \in 0 .. NumMod - 1 /\ (First + 0) % NumMod = First
  <2>1. First \in 0 .. NumMod - 1 /\ First = NumMod * 0 + First /\ First \in Int /\ First + 0 = First
    BY CaptureSizes
  <2> QED
    BY <2>1, ModUniqueBy, CaptureSizes
<1>4. CaptureTypes
  <2>1. sender \in [n : 0 .. MaxPackets, next : 0 .. NumMod - 1] /\ sender.next = (First + sender.n) % NumMod
    BY <1>1, <1>3, CaptureSizes
  <2>2. rx \in [pc : {"recv", "push", "join", "done"}, prev : -1 .. NumMod - 1, gaps : Nat, took : Seq(Pkts),
             dropped : Nat, h : Nat, t : Nat, stop : BOOLEAN, back : BOOLEAN]
    <3>1. <<>> \in Seq(Pkts) /\ -1 \in -1 .. NumMod - 1
      BY EmptySeq, CaptureSizes
    <3> QED
      BY <3>1, <1>1 DEF RxStart
  <2>3. ring \in [head : Nat, tail : Nat, buf : [0 .. RingSize - 1 -> AnyByte]]
    BY <1>1, <1>2
  <2> QED
    BY <2>1, <2>2, <2>3, <1>1 DEF CaptureTypes
<1>5. rx.took = <<>> /\ rx.pc = "recv" /\ Len(rx.took) = 0 /\ Pushed = <<>>
  BY <1>1 DEF RxStart, Pushed
<1>6. P * 0 = 0
  BY CaptureSizes
<1>7. RowInv
  BY <1>1, <1>5 DEF RxStart, RowInv, InARow
<1>8. PhaseInv
  BY <1>1 DEF RxStart, PhaseInv
<1>9. RingInv
  BY <1>1, <1>5, <1>6, CaptureSizes DEF RingInv
<1>10. WriterInv
  BY <1>1 DEF WriterInv
<1>11. FileInv
  <2>1. Kept = 0
    BY <1>1, <1>5, <1>6 DEF Kept
  <2> QED
    BY <2>1, <1>1 DEF FileInv
<1> QED
  BY <1>4, <1>7, <1>8, <1>9, <1>10, <1>11 DEF CaptureInv

LEMMA CaptureStep == CaptureInv /\ [CaptureNext]_captureVars => CaptureInv'
<1> SUFFICES ASSUME CaptureInv, [CaptureNext]_captureVars PROVE CaptureInv'
  OBVIOUS
<1>1. CASE CaptureNext
  BY <1>1, SendKeeps, recvKeeps, deadlineKeeps, ring_pushKeeps, ring_read_contigKeeps, writer_idleKeeps,
     writer_writeKeeps, ring_advanceKeeps, joinKeeps DEF CaptureNext
<1>2. CASE UNCHANGED captureVars
  <2>1. UNCHANGED <<tool, sender, sock, rx, ring, writer, file>>
    BY <1>2 DEF captureVars
  <2>2. Pushed' = Pushed /\ Kept' = Kept
    BY <2>1 DEF Pushed, Kept
  <2>3. CaptureTypes' /\ PhaseInv'
    BY <2>1 DEF CaptureInv, CaptureTypes, PhaseInv
  <2> QED
    BY <2>1, <2>2, <2>3, RowKept, RingKept, WriterKept, FileKept DEF CaptureInv
<1> QED
  BY <1>1, <1>2

LEMMA CaptureInvRight == CaptureInv => CaptureRight
<1> SUFFICES ASSUME CaptureInv PROVE CaptureRight
  OBVIOUS
<1> DEFINE s == Pushed
           w == Payloads(s)
           f == file
<1>1. /\ f \in Seq(AnyByte) /\ rx.took \in Seq(Pkts) /\ ring.head \in Nat /\ ring.tail \in Nat
      /\ ring.head - ring.tail \in Nat /\ tool \in {"recv", "endurance", "recvmmsg", "grab"}
  BY CaptureAssumption DEF CaptureInv, CaptureTypes, RingInv
<1>2. s \in Seq(Pkts)
  BY <1>1, AppendToFront DEF Pushed, CaptureInv, PhaseInv
<1>3. /\ Len(f) = Kept /\ \A k \in 1 .. Len(f) : f[k] = PayloadByte(s, k - 1)
  BY DEF CaptureInv, FileInv
<1> DEFINE all == P * Len(s)
<1>4. Len(s) \in Nat /\ all \in Nat
  BY <1>2, Product
<1>5. Kept \in 0 .. all
  <2>1. CASE tool = "grab"
    BY <2>1, <1>1 DEF Kept, CaptureInv, RingInv, WriterInv
  <2>2. CASE tool # "grab"
    BY <2>2, <1>1, <1>4 DEF Kept, Pushed, CaptureInv, PhaseInv
  <2> QED
    BY <2>1, <2>2
<1>6. /\ w \in Seq(AnyByte) /\ Len(w) = all
      /\ \A k \in 1 .. all : w[k] = PayloadByte(s, k - 1) /\ w[k] \in AnyByte
  <2>1. ASSUME NEW k \in 1 .. all
        PROVE  PayloadByte(s, k - 1) \in AnyByte
    <3> DEFINE b == k - 1
    <3>1. b \in Nat /\ b < P * Len(s) /\ Len(s) \in Nat
      BY <1>4
    <3>2. b \div P \in 0 .. Len(s) - 1 /\ b % P \in 0 .. P - 1
      <4> HIDE DEF b, s
      <4> QED
        BY <3>1, ByteOf
    <3>3. (b \div P) + 1 \in 1 .. Len(s) /\ (b % P) + 1 \in 0 .. P
      BY <3>1, <3>2, CaptureSizes
    <3>4. s[(b \div P) + 1] \in Pkts
      <4> DEFINE q == (b \div P) + 1
      <4>1. q \in 1 .. Len(s)
        BY <3>3
      <4> HIDE DEF q, s
      <4> QED
        BY <4>1, <1>2 DEF q
    <3> QED
      BY <3>3, <3>4 DEF PayloadByte, AnyByte
  <2>2. w = [k \in 1 .. all |-> PayloadByte(s, k - 1)]
    BY DEF Payloads
  <2> HIDE DEF w, all
  <2>3. w \in [1 .. all -> AnyByte] /\ \A k \in 1 .. all : w[k] = PayloadByte(s, k - 1)
    BY <2>1, <2>2
  <2> QED
    BY <2>3, <1>4
<1> HIDE DEF w, s, f, all
<1>7. IsPrefix(f, w)
  <2> DEFINE n == Len(f)
  <2>1. n \in Int /\ 1 \in Int /\ n >= 0 /\ n <= Len(w) /\ n <= all
    BY <1>1, <1>3, <1>4, <1>5, <1>6
  <2>2. \A k \in 1 .. n : f[k] \in AnyByte /\ w[k] \in AnyByte /\ f[k] = w[k]
    BY <2>1, <1>1, <1>3, <1>4, <1>6
  <2> HIDE DEF n
  <2>3. /\ SubSeq(f, 1, n) \in Seq(AnyByte) /\ SubSeq(w, 1, n) \in Seq(AnyByte)
        /\ Len(SubSeq(f, 1, n)) = IF 1 <= n THEN n - 1 + 1 ELSE 0
        /\ Len(SubSeq(w, 1, n)) = IF 1 <= n THEN n - 1 + 1 ELSE 0
        /\ \A k \in 1 .. n - 1 + 1 : SubSeq(f, 1, n)[k] = f[1 + k - 1]
        /\ \A k \in 1 .. n - 1 + 1 : SubSeq(w, 1, n)[k] = w[1 + k - 1]
    BY <2>1, <2>2, SubSeqProperties
  <2>4. Len(SubSeq(f, 1, n)) = n /\ Len(SubSeq(w, 1, n)) = n
    BY <2>1, <2>3
  <2>5. ASSUME NEW k \in 1 .. n
        PROVE  SubSeq(f, 1, n)[k] = SubSeq(w, 1, n)[k]
    <3>1. k \in 1 .. n - 1 + 1 /\ 1 + k - 1 = k
      BY <2>1
    <3> QED
      BY <3>1, <2>2, <2>3
  <2>6. SubSeq(f, 1, n) = SubSeq(w, 1, n)
    BY <2>3, <2>4, <2>5, SeqEqual
  <2> QED
    BY <2>1, <2>6 DEF IsPrefix, n
<1>8. ASSUME rx.pc = "done", tool # "recvmmsg", writer.pc # "failed"
      PROVE  f = Payloads(rx.took)
  <2>1. s = rx.took
    BY <1>8 DEF Pushed, s
  <2>2. Kept = all
    <3>1. CASE tool = "grab"
      <4>1. writer.pc = "closed" /\ ring.head = ring.tail /\ ring.head = all
        BY <1>8, <3>1 DEF CaptureInv, PhaseInv, RingInv, s, all
      <4> QED
        BY <3>1, <4>1, <1>1 DEF Kept
    <3>2. CASE tool # "grab"
      BY <1>1, <1>8, <2>1, <3>2 DEF Kept, all
    <3> QED
      BY <3>1, <3>2
  <2>3. Len(f) = Len(w) /\ \A k \in 1 .. Len(f) : f[k] = w[k]
    BY <2>2, <1>3, <1>6
  <2>4. f = w
    BY <2>3, <1>1, <1>6, SeqEqual
  <2> QED
    BY <2>1, <2>4 DEF w
<1>9. (ZeroLoss /\ (tool \in {"recv", "endurance"} \/ ~rx.back)) => InARow
  BY DEF ZeroLoss, CaptureInv, RowInv
<1> QED
  BY <1>7, <1>8, <1>9 DEF CaptureRight, f, s, w

\* What the capture tools keep is what they took, each payload once and in order, and all
\* of it when they end; and a capture reported as loss-free that saw no step back holds
\* the packets the FPGA sent in a row: for every size of payload, ring, write and socket
\* buffer and any number of packets below that of their numbers (stream_grab.c,
\* stream_recvmmsg.c, stream_recv.py, stream_endurance.py).
THEOREM CaptureIsRight == CaptureSpec => []CaptureRight
<1>1. CaptureInit => CaptureInv
  BY CaptureInitInv
<1>2. CaptureInv /\ [CaptureNext]_captureVars => CaptureInv'
  BY CaptureStep
<1>3. CaptureInv => CaptureRight
  BY CaptureInvRight
<1> QED
  BY <1>1, <1>2, <1>3, PTL DEF CaptureSpec
=============================================================================
