------------------------------- MODULE MCNet -------------------------------
(***************************************************************************)
(* The ends of the UDP link, each by itself: the FPGA's transmit side, the  *)
(* readers of its registers and of the capture, and the stream receivers.   *)
(* part says which one runs, the others rest in their initial state.  The   *)
(* capture and the other registers do not meet: each has its own readers.   *)
(***************************************************************************)
EXTENDS SelfTx, UdpReadout, StreamCapture

CONSTANT Parts

VARIABLE part

netVars == <<part, vars, readoutVars, captureVars>>

MCBuilds == {<<1, 1>>, <<2, 1>>}

-----------------------------------------------------------------------------
\* A part that does not run has one initial state.
NetInit ==
  /\ part \in Parts
  /\ Init /\ ReadoutInit /\ CaptureInit
  /\ part # "registers" => fpga.build = <<1, 1>>
  /\ part # "capture" => tool = "recv"

NetNext ==
  \/ part = "selftx" /\ Next /\ UNCHANGED <<part, readoutVars, captureVars>>
  \/ /\ part = "registers"
     /\ ReadoutNext /\ UNCHANGED <<part, shot, vars, captureVars>>
     /\ r'.state # "idle" => r'.prog # "dump"
  \/ /\ part = "dump"
     /\ ReadoutNext /\ UNCHANGED <<part, fpga, vars, captureVars>>
     /\ r'.state # "idle" => r'.prog = "dump"
  \/ part = "capture" /\ CaptureNext /\ UNCHANGED <<part, vars, readoutVars>>

\* The fairness of each part, asked for while it runs.
NetSpec ==
  /\ NetInit /\ [][NetNext]_netVars
  /\ WF_vars(part = "selftx" /\ Next)
  /\ SF_vars(\E in \in Inputs : part = "selftx" /\ HdrTaken(in) /\ ~self_busy /\ Clock(in))
  /\ SF_vars(\E in \in Inputs : part = "selftx" /\ Beat(in) /\ ~self_busy /\ Clock(in))
  /\ SF_vars(\E in \in Inputs : part = "selftx" /\ Beat(in) /\ self_busy /\ Clock(in))
  /\ WF_captureVars(part = "capture" /\ Writer)
  /\ WF_captureVars(part = "capture" /\ ring_push)
  /\ WF_captureVars(part = "capture" /\ join)

-----------------------------------------------------------------------------
\* What was begun on the link ends: a frame of the stream is finished even if the trace
\* stops, the reply to a request gets out even if the stream's destination never answers
\* ARP, and a capture whose time is over drains its ring and returns.
NetEnds == StreamFrameEnds /\ EchoAnswered /\ CaptureEnds
=============================================================================
