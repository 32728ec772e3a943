------------------------------- MODULE SelfTx -------------------------------
(***************************************************************************)
(* The UDP transmit side of the Artix-7 design, one step per clock: the     *)
(* packetiser of trace_ddr_stream_top.v and the self-TX state machine of    *)
(* fpga_core_net.v, which shares the one transmit port of udp_complete with *)
(* the replies to the host (the echo of ports 1234 and 5000 to 5002).       *)
(*                                                                         *)
(* udp_complete is outside the sources: it takes one header (after ARP, or *)
(* never), then the bytes of that frame up to tlast, and only then the next *)
(* header, as the stub in selftx_fsm_tb.v does.  tx_eth_hdr_ready and its   *)
(* own hdr_ready are one input here.  The trace bytes of the gearbox, the   *)
(* echo's payload FIFO and the host are inputs of each clock.               *)
(*                                                                         *)
(* owner, promised, whole and padded are history: whose frame udp_complete  *)
(* is in, the bytes it still waits for, whether all frames were right and   *)
(* whether a zero was sent in place of a trace byte.                        *)
(***************************************************************************)
EXTENDS Integers

CONSTANTS
  HdrBytes,      \* bytes of the packetiser's header (4)
  Payload,       \* STREAM_PAYLOAD
  HdrLimit,      \* hdr_timeout at which hdr_stuck rises (2^19)
  SendLimit,     \* send_timeout at which send_stuck rises (2^19)
  BackoffLimit,  \* backoff_cnt at which backoff_done rises (2^25)
  EchoLens       \* payload sizes of the host's requests

ASSUME LimitAssumption ==
  /\ {HdrBytes, Payload, HdrLimit, SendLimit, BackoffLimit} \subseteq Nat \ {0}
  /\ EchoLens \subseteq Nat \ {0}

VARIABLES
  pk,    \* packetiser: active, pos
  have,  \* the gearbox offers a byte
  st, bcnt, hdr_timeout, send_timeout, backoff_cnt,
  echo,  \* req: a request's header waits; left: bytes of its reply not sent
  owner, promised, whole, padded

fsm == <<st, bcnt, hdr_timeout, send_timeout, backoff_cnt>>
vars == <<pk, have, fsm, echo, owner, promised, whole, padded>>

Init ==
  /\ pk = [active |-> FALSE, pos |-> 0]
  /\ have = FALSE
  /\ st = "IDLE" /\ bcnt = 0
  /\ hdr_timeout = 0 /\ send_timeout = 0 /\ backoff_cnt = 0
  /\ echo = [req |-> FALSE, left |-> 0]
  /\ owner = "none" /\ promised = 0
  /\ whole = TRUE /\ padded = FALSE

Inputs ==
  [byte : BOOLEAN,   \* the gearbox has a (further) byte
   ask  : {0} \cup (IF echo.left = 0 THEN EchoLens ELSE {}),
   fifo : BOOLEAN,   \* the echo's FIFO offers a byte of the reply
   hdr  : BOOLEAN,   \* udp_complete can take a header
   take : BOOLEAN]   \* udp_complete can take a payload byte

-----------------------------------------------------------------------------
PKT == HdrBytes + Payload

\* Mutant: the packet length without the header.
StreamPktBytesShort == Payload

StreamPktBytes == PKT

in_header == pk.pos < HdrBytes

stream_tvalid == pk.active /\ (in_header \/ have)

self_busy == st \in {"HDR", "SEND"}

hdr_stuck == hdr_timeout >= HdrLimit

send_pad == st = "SEND" /\ ~stream_tvalid /\ send_timeout >= SendLimit

HdrTaken(in) ==
  in.hdr /\ owner = "none" /\ ((echo.req /\ ~self_busy) \/ st = "HDR")

PayloadReady(in) == in.take /\ owner # "none"

PayloadValid(in) ==
  IF self_busy THEN st = "SEND" /\ (stream_tvalid \/ send_pad)
  ELSE echo.left > 0 /\ in.fifo

PayloadLast ==
  IF self_busy THEN st = "SEND" /\ bcnt = StreamPktBytes - 1
  ELSE echo.left = 1

Beat(in) == PayloadReady(in) /\ PayloadValid(in)

stream_tready(in) == st = "SEND" /\ ~send_pad /\ PayloadReady(in)

-----------------------------------------------------------------------------
PacketiserStep(in) ==
  LET taken == stream_tvalid /\ stream_tready(in)
  IN  /\ pk' = IF ~pk.active
               THEN IF have THEN [active |-> TRUE, pos |-> 0] ELSE pk
               ELSE IF ~taken THEN pk
               ELSE IF pk.pos = PKT - 1 THEN [active |-> FALSE, pos |-> 0]
               ELSE [pk EXCEPT !.pos = @ + 1]
      /\ have' = (in.byte \/ (have /\ (in_header \/ ~taken)))

IdleStep(in) ==
  /\ hdr_timeout' = 0
  /\ UNCHANGED <<send_timeout, backoff_cnt>>
  /\ IF stream_tvalid /\ ~echo.req
     THEN st' = "HDR" /\ bcnt' = 0
     ELSE UNCHANGED <<st, bcnt>>

HdrStep(in) ==
  /\ hdr_timeout' = (hdr_timeout + 1) % (2 * HdrLimit)
  /\ send_timeout' = 0
  /\ bcnt' = bcnt
  /\ st' = IF HdrTaken(in) THEN "SEND" ELSE IF hdr_stuck THEN "BACKOFF" ELSE st
  /\ backoff_cnt' = IF st' = "BACKOFF" THEN 0 ELSE backoff_cnt

SendStep(in) ==
  LET last == Beat(in) /\ PayloadLast
  IN  /\ UNCHANGED <<hdr_timeout, backoff_cnt>>
      /\ st' = IF last THEN "IDLE" ELSE st
      /\ bcnt' = IF last THEN 0 ELSE IF Beat(in) THEN bcnt + 1 ELSE bcnt
      /\ send_timeout' = IF last \/ (Beat(in) /\ ~send_pad) THEN 0
                         ELSE IF ~Beat(in) /\ ~send_pad
                         THEN (send_timeout + 1) % (2 * SendLimit)
                         ELSE send_timeout

BackoffStep(in) ==
  /\ UNCHANGED <<bcnt, hdr_timeout, send_timeout>>
  /\ backoff_cnt' = (backoff_cnt + 1) % (2 * BackoffLimit)
  /\ st' = IF backoff_cnt >= BackoffLimit THEN "IDLE" ELSE st

FsmStep(in) ==
  \/ st = "IDLE" /\ IdleStep(in)
  \/ st = "HDR" /\ HdrStep(in)
  \/ st = "SEND" /\ SendStep(in)
  \/ st = "BACKOFF" /\ BackoffStep(in)

\* rx_udp_hdr and the payload FIFO of the echo.
EchoStep(in) ==
  echo' = IF in.ask > 0 THEN [req |-> TRUE, left |-> in.ask]
          ELSE [req  |-> echo.req /\ ~(HdrTaken(in) /\ ~self_busy),
                left |-> IF Beat(in) /\ ~self_busy THEN echo.left - 1
                         ELSE echo.left]

\* The transmit port of udp_complete.
UdpStep(in) ==
  LET header == HdrTaken(in)
      beat   == Beat(in)
  IN  /\ owner' = IF header THEN IF st = "HDR" THEN "self" ELSE "echo"
                  ELSE IF beat /\ PayloadLast THEN "none" ELSE owner
      /\ promised' = IF header THEN IF st = "HDR" THEN StreamPktBytes ELSE echo.left
                     ELSE IF beat THEN promised - 1 ELSE promised
      /\ whole' = (whole /\ (beat => /\ PayloadLast <=> promised = 1
                                     /\ self_busy <=> owner = "self"))
      /\ padded' = (padded \/ (beat /\ send_pad))

\* One clock edge.
Clock(in) ==
  /\ PacketiserStep(in)
  /\ FsmStep(in)
  /\ EchoStep(in)
  /\ UdpStep(in)

Next == \E in \in Inputs : Clock(in)

Spec == Init /\ [][Next]_vars

\* The clock runs.  udp_complete takes payload it is offered again and again,
\* and the header of a reply, whose host has just been heard of; the header of
\* the stream may wait for an ARP answer that never comes, and the trace may
\* stop at any byte.
Fairness ==
  /\ WF_vars(Next)
  /\ SF_vars(\E in \in Inputs : HdrTaken(in) /\ ~self_busy /\ Clock(in))
  /\ SF_vars(\E in \in Inputs : Beat(in) /\ ~self_busy /\ Clock(in))
  /\ SF_vars(\E in \in Inputs : Beat(in) /\ self_busy /\ Clock(in))

FairSpec == Spec /\ Fairness

-----------------------------------------------------------------------------
\* The counters stay in their range.
TypeOK ==
  /\ pk.pos \in 0 .. PKT - 1
  /\ bcnt \in 0 .. StreamPktBytes - 1
  /\ hdr_timeout \in 0 .. 2 * HdrLimit - 1
  /\ send_timeout \in 0 .. 2 * SendLimit - 1
  /\ backoff_cnt \in 0 .. 2 * BackoffLimit - 1

\* Every frame udp_complete was promised gets as many bytes as promised, with
\* tlast on the last, and only from the side whose header it took: neither a
\* timeout of the header, nor a trace that stops in the middle of a packet,
\* nor a reply that is due at that moment breaks a frame.
FramesWhole == whole

\* As long as no zero was filled in, byte n of a datagram is byte n of a
\* packet of the packetiser, so that each datagram begins with its number.
DatagramIsPacket ==
  st = "SEND" /\ ~padded => pk.active /\ pk.pos = bcnt

\* Frames are whole and a datagram of the stream is one packet.
FramesRight == FramesWhole /\ DatagramIsPacket

\* A frame of the stream that was begun is finished, even if the trace stops.
StreamFrameEnds == (owner = "self") ~> (owner # "self")

\* The reply to a request gets out, even if the stream's destination never
\* answers ARP and whenever the state machine wants the port for itself.
EchoAnswered == (echo.left > 0) ~> (echo.left = 0)

\* "IDLE -> wait until stream has data AND no echo in flight" (the comment in
\* fpga_core_net.v): the state machine does not ask for the port while a reply
\* is on it.
NoEchoInFlight == st = "HDR" => owner # "echo"
=============================================================================
