------------------------------ MODULE MCTrace ------------------------------
(***************************************************************************)
(* The blocks of the trace path, each by itself: part says which one runs,  *)
(* the others rest in an initial state.  "demux" keeps the bypass off,      *)
(* "bypass" switches it at any time.                                       *)
(***************************************************************************)
EXTENDS OrbFlow, TpiuDemux, TpiuSync, TraceIF, Swo, TLC

CONSTANTS Parts, FewFrames, BypassedBytes

VARIABLE part

vars == <<part, flowVars, demuxVars, syncVars, pinsVars, swoVars>>

-----------------------------------------------------------------------------
\* Channels 0, 1 and 2: an ID of one, at once or after a byte, or data.
MCEven == {1, 3, 5} \X {0, 1} \cup {<<6, 1>>}

\* The last ID of a frame has no byte of the frame after it to wait for.
MCLast == {1, 3, 5} \X {0} \cup {<<4, 1>>}

MCTpiuFrames ==
  {[bytes |-> (0 :> a[1]) @@ (1 :> 2) @@ (2 :> b[1]),
    aux   |-> (0 :> a[2]) @@ (1 :> b[2])] : a \in MCEven, b \in MCLast}

\* Few frames where the bypass is switched.
MCFewFrames == {fr \in MCTpiuFrames : fr.bytes[0] \in {5, 6} /\ fr.bytes[2] \in {1, 4}}

\* Words whose ones come as close to a sync as data may: an even byte is never
\* ff, so a word starts with at most one element of ones.
MCWords == {<<"0", "f", "f", "f">>, <<"f", "7", "f", "f">>}

\* In units of time a sample takes 5, a bit 22, 52 or 66.
MCBitTimes == [nrz |-> {22}, manchester |-> {52, 66}]
MCThresholds == <<6, 8, 14>>
MCSwoFrames ==
  [nrz |-> [1 .. ByteBits -> {0, 1}],
   manchester |-> UNION {[1 .. n -> {0, 1}] : n \in 2 .. ByteBits + 1}]

Bypassed == INSTANCE TpiuDemux WITH
  TpiuFrames <- FewFrames, Bypass <- BOOLEAN, RawBytes <- BypassedBytes

-----------------------------------------------------------------------------
Init ==
  /\ part \in Parts
  /\ FlowInit /\ SyncInit /\ PinsInit /\ SwoInit
  /\ IF part = "bypass" THEN Bypassed!DemuxInit ELSE DemuxInit
  /\ part # "swo" => format = "nrz" /\ BitTime = 22

Next ==
  \/ part = "flow" /\ FlowNext /\ UNCHANGED <<part, demuxVars, syncVars, pinsVars, swoVars>>
  \/ part = "demux" /\ DemuxNext /\ UNCHANGED <<part, flowVars, syncVars, pinsVars, swoVars>>
  \/ /\ part = "bypass" /\ Bypassed!DemuxNext
     /\ UNCHANGED <<part, flowVars, syncVars, pinsVars, swoVars>>
  \/ part = "sync" /\ SyncNext /\ UNCHANGED <<part, flowVars, demuxVars, pinsVars, swoVars>>
  \/ part = "pins" /\ PinsNext /\ UNCHANGED <<part, flowVars, demuxVars, syncVars, swoVars>>
  \/ part = "swo" /\ SwoNext /\ UNCHANGED <<part, flowVars, demuxVars, syncVars, pinsVars>>

\* The fairness of each part, asked for while it runs.
FairSpec ==
  /\ Init /\ [][Next]_vars
  /\ WF_flowVars(part = "flow" /\ FlowNext)
  /\ WF_flowVars(part = "flow" /\ \E in \in FlowInputs : in.ready /\ FlowClock(in))
  /\ WF_demuxVars(part = "demux" /\ DemuxNext)
  /\ WF_demuxVars(part = "demux" /\ \E in \in DemuxInputs : in.ready /\ DemuxClock(in))
  /\ WF_swoVars(part = "swo" /\ Sample)
  /\ WF_swoVars(part = "swo" /\ Nrz)
  /\ WF_swoVars(part = "swo" /\ Manchester)

-----------------------------------------------------------------------------
Taken ==
  \/ part = "flow" /\ PacketTaken
  \/ part = "demux" /\ PacketBegun
  \/ part = "swo" /\ LineRests

Out ==
  \/ part = "flow" /\ PacketOut
  \/ part = "demux" /\ PacketDone
  \/ part = "swo" /\ AllOut

\* Everything taken comes out when the blocks behind take a byte now and then: a
\* packet OrbFlow took, with the byte SuperFramer holds back, a packet the packetiser
\* began, the last byte of the SWO although no edge follows it.
TraceLeaves == Taken ~> Out
=============================================================================
