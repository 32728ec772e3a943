------------------------------- MODULE MCDap -------------------------------
(***************************************************************************)
(* The two halves of the CMSIS-DAP commander, each by itself: "packets" is   *)
(* how a packet is taken, run and answered (CmsisDap), "calls" how a         *)
(* transfer call becomes accesses of the target (DapTransfer).              *)
(***************************************************************************)
EXTENDS CmsisDap, DapTransfer

CONSTANTS Parts, WithId, ShortSequences, MaxRequests, Matching

VARIABLE part

vars == <<part, dapVars, callVars>>

-----------------------------------------------------------------------------
\* Packets.  A packet cut short is one the host sent so.
Packet(cmd, bytes) ==
  [cmd |-> cmd, bytes |-> bytes, bits |-> << >>, reads |-> << >>, short |-> FALSE]

Params(n) == [i \in 1 .. n |-> 1]

Plain ==
  {Packet(c, Params(RxLen(c) - 1)) : c \in Simple}
    \cup {Packet("Info", <<"id">>), Packet("Info", <<"bad">>), Packet("HostStatus", <<"led", "on">>),
          Packet("Connect", <<"SWD">>), Packet("Connect", <<"JTAG">>), Packet("Connect", <<"bad">>),
          Packet("Disconnect", << >>), Packet("TransferAbort", << >>), Packet("Unknown", <<1, 1>>),
          Packet("JTAG_Configure", <<2, 4, 5>>),
          Packet("Transfer", <<"dev", "some">>), Packet("Transfer", <<"dev", "none">>),
          Packet("TransferBlock", <<"dev", "some", 0, "req">>)}
    \cup (IF WithId THEN {Packet("JTAG_IDCODE", <<0>>)} ELSE {})

Info(n, read, tms) == [n |-> n, read |-> read, tms |-> tms]

Sequences ==
  {[Packet("SWJ_Sequence", <<3, <<0, 1>>, <<1, 0>>>>) EXCEPT
      !.bits = <<<<"drive", 0>>, <<"drive", 1>>, <<"drive", 1>>>>],
   [Packet("SWJ_Sequence", <<0, <<0, 1>>, <<1, 1>>>>) EXCEPT
      !.bits = <<<<"drive", 0>>, <<"drive", 1>>, <<"drive", 1>>, <<"drive", 1>>>>],
   [Packet("SWD_Sequence", <<2, Info(1, FALSE, "low"), <<1, 0>>, Info(3, TRUE, "low")>>) EXCEPT
      !.bits = <<<<"drive", 1>>, <<"float", 0>>, <<"float", 0>>, <<"float", 0>>>>, !.reads = <<3>>],
   [Packet("JTAG_Sequence", <<2, Info(3, TRUE, "low"), <<0, 1>>, <<1, 0>>, Info(1, FALSE, "high"), <<0, 0>>>>)
      EXCEPT !.bits = <<<<"low", 0>>, <<"low", 1>>, <<"low", 1>>, <<"high", 0>>>>, !.reads = <<3>>]}

CutAt(p, n) == [p EXCEPT !.bytes = SubSeq(@, 1, n), !.short = TRUE]

Shorts ==
  {CutAt(Packet("WriteABORT", Params(5)), 3), CutAt(Packet("JTAG_Configure", <<2>>), 1),
   CutAt(Packet("SWJ_Sequence", <<3, <<0, 1>>>>), 2)}
    \cup IF ShortSequences THEN {CutAt(p, 2) : p \in {q \in Sequences : q.cmd = "SWD_Sequence"}} ELSE {}

MCDapPackets == Plain \cup Sequences \cup Shorts

-----------------------------------------------------------------------------
\* Calls.
Access0(ap, reg, rnw) == [ap |-> ap, reg |-> reg, rnw |-> rnw, match |-> FALSE]

\* Two registers of the access port, and one of the debug port that is only read and
\* one that is only written.
Requests ==
  {Access0(TRUE, "CSW", rnw) : rnw \in BOOLEAN} \cup {Access0(TRUE, "DRW", TRUE)}
    \cup {Access0(FALSE, "STAT", TRUE), Access0(FALSE, "SELECT", FALSE)}
    \cup IF Matching THEN {[Access0(TRUE, "DRW", TRUE) EXCEPT !.match = TRUE]} ELSE {}

\* The stream and the accesses of a list of requests; the word of the i-th is i.
Words(r, i) == IF ~r.rnw \/ r.match THEN <<[data |-> i]>> ELSE << >>
Accesses(rs) == [i \in DOMAIN rs |-> [req |-> rs[i], data |-> IF rs[i].rnw THEN 0 ELSE i]]

TransferCall(rs) ==
  [call |-> "TRANSFER", n |-> Len(rs), accesses |-> Accesses(rs),
   stream |-> FlattenSeq([i \in DOMAIN rs |-> <<rs[i]>> \o Words(rs[i], i)])]

BlockCall(r, n) ==
  LET rs == [i \in 1 .. n |-> r]
  IN  [call |-> "BLOCK", n |-> n, accesses |-> Accesses(rs), req |-> r,
       stream |-> FlattenSeq([i \in 1 .. n |-> Words(r, i)])]

CutCall(p) == [p EXCEPT !.stream = IF @ = << >> THEN @ ELSE Front(@)]

WholeCalls ==
  {TransferCall(rs) : rs \in BoundedSeq(Requests, MaxRequests)}
    \cup {BlockCall(r, n) : r \in {q \in Requests : ~q.match}, n \in 0 .. MaxRequests}

\* An answer may find the stream cut off.
MCCalls ==
  WholeCalls \cup {CutCall(p) : p \in WholeCalls}
    \cup IF OtherCalls THEN {[call |-> "OTHER", stream |-> << >>]} ELSE {}

-----------------------------------------------------------------------------
Init ==
  /\ part \in Parts /\ DapInit /\ CallInit
  /\ part # "packets" => ~isV2
  /\ part # "calls" => ~isJTAG /\ waitRetry = 1

Next ==
  \/ part = "packets" /\ DapNext /\ UNCHANGED <<part, callVars>>
  \/ part = "calls" /\ CallNext /\ UNCHANGED <<part, dapVars>>

\* The fairness of each part, asked for while it runs.
FairSpec ==
  /\ Init /\ [][Next]_vars
  /\ WF_dapVars(part = "packets" /\ Clock)
  /\ WF_dapVars(part = "packets" /\ DebugStep)
  /\ WF_dapVars(part = "packets" /\ HostTake)
  /\ WF_callVars(part = "calls" /\ Step)

-----------------------------------------------------------------------------
\* A packet makes the debug interface run what it says and no more, and the host gets
\* its answer whole, in order, no byte twice, and marked or filled up as its version
\* of the protocol has it.
PacketRight == ResponseRight /\ CommandsRun

Begun == (part = "packets" /\ ~Whole) \/ (part = "calls" /\ st \in {"TRANSFER", "BLOCK"})

Ended == (part = "packets" /\ Whole) \/ (part = "calls" /\ CallOver)

\* Every packet is answered and every call ends.
PacketsEnd == Begun ~> Ended
=============================================================================
