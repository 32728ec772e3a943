------------------------------ MODULE CmsisDap ------------------------------
(***************************************************************************)
(* orbtrace/debug/cmsis_dap.py: from a packet of the host to the commands    *)
(* for the debug interface and on to the response, one step per clock in     *)
(* which the state machine may go on.                                       *)
(*                                                                         *)
(* Packets and responses are sequences of bytes; a byte is what it stands    *)
(* for, in a response as a string.  The transfers' own work is in            *)
(* DapTransfer: here one leaves a number of words to send.  The debug        *)
(* interface (dbgIF.v, behind a crossing of two stages) is GoDone's lower    *)
(* half, and the stream to the host a FIFO of FifoDepth bytes (soc.py),      *)
(* which the host empties before it sends again.  A packet has its bits and  *)
(* reads beside its bytes: what a sequence puts out, and how many bits each  *)
(* part of it takes in.                                                     *)
(*                                                                         *)
(* resp, log, clocked and seen are history since the packet came: the bytes  *)
(* the host got, the commands run, and the bits put out and taken in at the  *)
(* rising edges of the target clock.                                        *)
(***************************************************************************)
EXTENDS Naturals, Sequences, SequencesExt, TLC

CONSTANTS
  ByteBits,   \* bits of a byte of a sequence (8)
  CountMod,   \* where a count of bits wraps (256 for SWJ_Sequence, 64 for the others)
  WordBytes,  \* bytes of a word (4)
  FifoDepth,  \* of the crossing to USB (4)
  V1Size,     \* DAP_V1_MAX_PACKET_SIZE (64)
  MaxWords,   \* words a transfer may leave
  DapPackets  \* what the host sends

VARIABLES
  d,                \* registers
  go, ready, ran,   \* the handshake with the debug interface; ready is done
  done_cdc,         \* done as it comes through the crossing, the newer stage first
  inp,              \* bytes of the host not yet taken
  fifo,             \* bytes for the host
  pkt,              \* the packet worked on
  isV2,             \* the version the host speaks
  resp, cmdLog, clocked, seen

history == <<resp, cmdLog, clocked, seen>>
dapVars == <<d, go, ready, ran, done_cdc, inp, fifo, pkt, isV2, history>>

Debug == INSTANCE GoDone

dbg_done == done_cdc = <<TRUE, TRUE>>
streamInReady == Len(fifo) < FifoDepth

\* How many bytes belong to a command, its own included.
RxLen(cmd) ==
  CASE cmd \in {"Disconnect", "ResetTarget", "TransferAbort"} -> 1
    [] cmd \in {"Info", "Connect", "SWD_Configure", "SWJ_Sequence", "SWD_Sequence",
                "JTAG_Sequence", "JTAG_IDCODE", "JTAG_Configure"} -> 2
    [] cmd \in {"HostStatus", "Delay", "Transfer"} -> 3
    [] cmd \in {"SWJ_Clock", "TransferBlock"} -> 5
    [] cmd \in {"WriteABORT", "TransferConfigure"} -> 6
    [] cmd = "SWJ_Pins" -> 7
    [] OTHER -> 0

DapInit ==
  /\ d = [st |-> "IDLE", rx |-> << >>, rxLen |-> 0, tx |-> << >>, txed |-> 0, isJTAG |-> FALSE,
          valid |-> FALSE, payload |-> "0", last |-> FALSE, command |-> "none", clk |-> 1,
          ctl |-> "drive", out |-> 1, byte |-> << >>, count |-> 0, bit |-> 0, cycles |-> 0,
          read |-> FALSE, in |-> << >>, pending |-> "0", words |-> 0, left |-> 0, txb |-> 0]
  /\ go = FALSE /\ ready = TRUE /\ ran = TRUE /\ done_cdc = <<TRUE, TRUE>>
  /\ inp = << >> /\ fifo = << >>
  /\ pkt = [cmd |-> "none", bytes |-> << >>, bits |-> << >>, reads |-> << >>,
            short |-> FALSE]
  /\ isV2 \in BOOLEAN
  /\ resp = << >> /\ cmdLog = << >> /\ clocked = << >> /\ seen = << >>

-----------------------------------------------------------------------------
\* The host takes bytes, and sends when it has the whole response to the packet
\* before: the last byte, or a full packet of version 1.
Whole ==
  \/ pkt.cmd = "none"
  \/ IF isV2 THEN resp # << >> /\ Last(resp)[2] ELSE Len(resp) = V1Size

\* The bytes as they come in, the command marked as the first.
Arriving(p) == [i \in 1 .. Len(p.bytes) + 1 |-> [first |-> i = 1, byte |-> (<<p.cmd>> \o p.bytes)[i]]]

HostTake ==
  /\ fifo # << >>
  /\ resp' = Append(resp, Head(fifo)) /\ fifo' = Tail(fifo)
  /\ UNCHANGED <<d, go, ready, ran, done_cdc, inp, pkt, isV2, cmdLog, clocked, seen>>

HostSend ==
  /\ Whole
  /\ \E p \in DapPackets :
       /\ p.cmd = "JTAG_Sequence" => d.isJTAG
       /\ p.cmd = "SWD_Sequence" => ~d.isJTAG
       /\ pkt' = p /\ inp' = inp \o Arriving(p)
  /\ resp' = << >> /\ cmdLog' = << >> /\ clocked' = << >> /\ seen' = << >>
  /\ UNCHANGED <<d, go, ready, ran, done_cdc, fifo, isV2>>

\* The debug interface.
DebugStep ==
  /\ Debug!Accept \/ Debug!Run \/ Debug!Finish
  /\ cmdLog' = IF ~ran /\ ran' THEN Append(cmdLog, d.command) ELSE cmdLog
  /\ UNCHANGED <<d, done_cdc, inp, fifo, pkt, isV2, resp, clocked, seen>>

-----------------------------------------------------------------------------
\* A byte is offered to the stream for one clock and offered again if it must be.
Quiet == [d EXCEPT !.valid = FALSE]

Stay == UNCHANGED <<go, inp>>

\* Hands a command over.
Raise(e) == d' = e /\ go' = TRUE /\ UNCHANGED inp

\* Takes the next byte, or finds the packet foreshortened.
Take(e) ==
  IF inp = << >> THEN d' = [Quiet EXCEPT !.st = "ERROR"] /\ Stay
  ELSE d' = e /\ inp' = Tail(inp) /\ UNCHANGED go

\* Mutant of Completed: go is not looked at.
CompletedAtOnce == dbg_done

\* The command handed over has run: go is back and done is there again.
Completed == ~go /\ dbg_done

\* Mutant of Release: go is taken back whether the command was accepted or not.
ReleaseAtOnce == FALSE

Release == go /\ dbg_done

Await(e) ==
  /\ d' = IF Completed THEN e ELSE Quiet
  /\ go' = Release
  /\ UNCHANGED inp

\* The result the debug interface shows.
Result == IF cmdLog = << >> THEN "stale" ELSE Last(cmdLog)

-----------------------------------------------------------------------------
\* Registers that every command writes before it reads them are forgotten between
\* packets.
Rested ==
  [Quiet EXCEPT !.payload = "0", !.last = FALSE, !.command = "none", !.ctl = "drive", !.out = 1,
                !.byte = << >>, !.count = 0, !.bit = 0, !.cycles = 0, !.read = FALSE, !.in = << >>,
                !.pending = "0", !.left = 0, !.txb = 0, !.rx = << >>, !.tx = << >>, !.txed = 0,
                !.rxLen = 0]

\* A packet begins with its command; bytes left over of the one before are dropped.
Idle ==
  /\ d.st = "IDLE"
  /\ IF inp = << >> THEN d' = Rested /\ Stay
     ELSE /\ d' = IF ~Head(inp).first THEN Rested
                  ELSE [Rested EXCEPT !.st = "PACKET", !.rx = <<Head(inp).byte>>,
                                     !.tx = <<Head(inp).byte, "0">>, !.txed = 0]
          /\ inp' = Tail(inp) /\ UNCHANGED go

PacketSwitch ==
  /\ d.st = "PACKET"
  /\ LET n == RxLen(d.rx[1])
     IN  d' = [Quiet EXCEPT !.rxLen = n,
                            !.st = CASE n = 0 -> "ERROR" [] n = 1 -> "DISPATCH" [] OTHER -> "PARAMS"]
  /\ Stay

RxParams ==
  /\ d.st = "PARAMS"
  /\ Take([Quiet EXCEPT !.rx = Append(@, Head(inp).byte),
                        !.st = IF Len(d.rx) + 1 = d.rxLen THEN "DISPATCH" ELSE "PARAMS"])

\* A parameter that no case of the command's handler names.
BadParameter == d.rx[1] \in {"Info", "HostStatus", "Connect"} /\ d.rx[2] = "bad"

\* Nothing is connected any more, and the next connection is JTAG unless it says so.
Disconnected == [Quiet EXCEPT !.st = "RESPOND", !.isJTAG = TRUE]

\* What needs no command, and what is refused.
Answer ==
  /\ d.st = "DISPATCH"
  /\ d.rx[1] \in {"Info", "HostStatus", "Disconnect", "TransferAbort"} \/ BadParameter
  /\ d' = CASE d.rx[1] = "TransferAbort" \/ BadParameter -> [Quiet EXCEPT !.st = "ERROR"]
            [] d.rx[1] = "Disconnect" -> Disconnected
            [] d.rx[1] = "HostStatus" -> [Quiet EXCEPT !.st = "RESPOND"]
            [] OTHER -> [Quiet EXCEPT !.st = "RESPOND", !.tx = <<"Info", "len", "info">>]
  /\ Stay

Simple ==
  {"WriteABORT", "Delay", "ResetTarget", "SWJ_Clock", "SWD_Configure", "TransferConfigure",
   "SWJ_Pins"}

\* Two that only hand their settings to the debug interface.
SWD_Configure ==
  /\ d.st = "DISPATCH" /\ d.rx[1] = "SWD_Configure"
  /\ Raise([Quiet EXCEPT !.command = "SWD_Configure", !.st = "WAIT_DONE"])

TransferConfigure ==
  /\ d.st = "DISPATCH" /\ d.rx[1] = "TransferConfigure"
  /\ Raise([Quiet EXCEPT !.command = "TransferConfigure", !.st = "WAIT_DONE"])

\* One command for the debug interface, and its result is the answer.
Command ==
  /\ d.st = "DISPATCH" /\ d.rx[1] \in Simple \ {"SWD_Configure", "TransferConfigure"}
  /\ Raise([Quiet EXCEPT !.command = d.rx[1], !.st = "WAIT_DONE",
                         !.clk = IF d.rx[1] = "SWJ_Pins" THEN d.rx[2] ELSE @,
                         !.tx = IF d.rx[1] = "ResetTarget" THEN @ \o <<"0">> ELSE @])

WaitDone ==
  /\ d.st = "WAIT_DONE"
  /\ Await([Quiet EXCEPT !.st = "RESPOND", !.tx[2] = Result])

Connect ==
  /\ d.st = "DISPATCH" /\ d.rx[1] = "Connect" /\ ~BadParameter
  /\ Raise([Quiet EXCEPT !.command = "Connect", !.isJTAG = (d.rx[2] = "JTAG"),
                         !.tx[2] = d.rx[2], !.st = "WAIT_CONNECT"])

WaitConnectDone ==
  /\ d.st = "WAIT_CONNECT"
  /\ Await([Quiet EXCEPT !.st = "RESPOND"])

\* The lengths of the instruction registers, to the last byte of the packet.
JtagConfigure ==
  \/ /\ d.st = "DISPATCH" /\ d.rx[1] = "JTAG_Configure"
     /\ d' = [Quiet EXCEPT !.command = "JTAG_Configure", !.st = "JTAG_CONFIGURE"]
     /\ Stay
  \/ /\ d.st = "JTAG_CONFIGURE"
     /\ IF Len(inp) = 1
        THEN d' = [Quiet EXCEPT !.st = "WAIT_DONE"] /\ go' = TRUE /\ inp' = << >>
        ELSE Take(Quiet)

\* The ID is taken as soon as done is up: go is not looked at.
JtagIdcode ==
  \/ /\ d.st = "DISPATCH" /\ d.rx[1] = "JTAG_IDCODE"
     /\ Raise([Quiet EXCEPT !.command = "JTAG_IDCODE", !.st = "JTAG_IDCODE"])
  \/ /\ d.st = "JTAG_IDCODE"
     /\ d' = IF dbg_done THEN [Quiet EXCEPT !.st = "RESPOND", !.tx = @ \o <<Result>>] ELSE Quiet
     /\ go' = (go /\ dbg_done)
     /\ UNCHANGED inp

-----------------------------------------------------------------------------
\* SWJ_Sequence: every bit is two writes of the pins, clock low with the bit and
\* clock high.  A count of 0 is a full one, by the wrap.
SwjSequenceSetup ==
  /\ d.st = "DISPATCH" /\ d.rx[1] = "SWJ_Sequence"
  /\ d' = [Quiet EXCEPT !.command = "SWJ_Sequence", !.count = d.rx[2] % CountMod, !.bit = 0,
                        !.ctl = "drive", !.clk = 1, !.out = 1, !.st = "SWJ_GET"]
  /\ Stay

SwjGet ==
  /\ d.st = "SWJ_GET"
  /\ Take([Quiet EXCEPT !.byte = Head(inp).byte, !.st = "SWJ_LOW"])

SwjLow ==
  /\ d.st = "SWJ_LOW"
  /\ Raise([Quiet EXCEPT !.clk = 0, !.out = d.byte[d.bit + 1], !.bit = (@ + 1) % ByteBits,
                         !.count = (@ + CountMod - 1) % CountMod, !.st = "SWJ_LOWERED"])

SwjLowered ==
  /\ d.st = "SWJ_LOWERED"
  /\ d' = IF Completed THEN [Quiet EXCEPT !.clk = 1, !.st = "SWJ_RAISED"] ELSE Quiet
  /\ go' = (Release \/ Completed)
  /\ UNCHANGED inp

SwjRaised ==
  /\ d.st = "SWJ_RAISED"
  /\ Await([Quiet EXCEPT !.st = CASE d.count = 0 -> "WAIT_DONE"
                                  [] d.count # 0 /\ d.bit = 0 -> "SWJ_GET"
                                  [] OTHER -> "SWJ_LOW"])

-----------------------------------------------------------------------------
\* Offers a byte when the stream is ready; it is taken in the next clock if the
\* stream is ready then, too.
Offer(b, last, e) ==
  /\ d' = IF streamInReady THEN [e EXCEPT !.payload = b, !.last = last, !.valid = TRUE] ELSE Quiet
  /\ Stay

\* SWD_Sequence and JTAG_Sequence: parts that put bits out, take bits in, or in
\* JTAG both.  A full byte taken in is sent when the next is full.
SeqSetup ==
  /\ d.st = "DISPATCH" /\ d.rx[1] \in {"SWD_Sequence", "JTAG_Sequence"}
  /\ d' = [Quiet EXCEPT !.command = d.rx[1], !.count = d.rx[2], !.txed = 2, !.clk = 1,
                        !.ctl = IF d.isJTAG THEN "low" ELSE "float", !.st = "SEQ_FRONT"]
  /\ Stay

SeqFront ==
  /\ d.st = "SEQ_FRONT"
  /\ Offer(IF d.isJTAG THEN "JTAG_Sequence" ELSE "SWD_Sequence", FALSE,
           [d EXCEPT !.pending = "0", !.st = IF d.count # 0 THEN "SEQ_INFO" ELSE "SEQ_LAST"])

\* Whether a part has bytes to put out.
SeqSource(read) == IF d.isJTAG \/ ~read THEN "SEQ_DATA" ELSE "SEQ_LOW"

SeqInfo ==
  /\ d.st = "SEQ_INFO"
  /\ Take([Quiet EXCEPT !.count = @ - 1, !.cycles = Head(inp).byte.n % CountMod, !.in = << >>,
                        !.ctl = IF d.isJTAG THEN Head(inp).byte.tms
                                ELSE IF Head(inp).byte.read THEN "float" ELSE "drive",
                        !.read = Head(inp).byte.read, !.st = SeqSource(Head(inp).byte.read)])

SeqData ==
  /\ d.st = "SEQ_DATA"
  /\ Take([Quiet EXCEPT !.byte = Head(inp).byte, !.bit = 0, !.st = "SEQ_LOW"])

SeqLow ==
  /\ d.st = "SEQ_LOW"
  /\ Raise([Quiet EXCEPT !.clk = 0, !.cycles = (@ + CountMod - 1) % CountMod,
                         !.out = IF d.ctl = "float" THEN 0 ELSE d.byte[d.bit + 1],
                         !.st = "SEQ_LOWERED"])

SeqLowered ==
  /\ d.st = "SEQ_LOWERED"
  /\ d' = IF Completed THEN [Quiet EXCEPT !.clk = 1, !.st = "SEQ_RAISED"] ELSE Quiet
  /\ go' = (Release \/ Completed)
  /\ UNCHANGED inp

\* The bit taken in is whatever is on the line.
SeqRaised ==
  /\ d.st = "SEQ_RAISED"
  /\ \E v \in {0, 1} :
       /\ Await([Quiet EXCEPT !.in = Append(@, v), !.bit = (@ + 1) % ByteBits, !.st = "SEQ_DECIDE"])
       /\ seen' = IF Completed /\ d.read THEN Append(seen, v) ELSE seen

SeqDecide ==
  /\ d.st = "SEQ_DECIDE"
  /\ LET on == IF d.cycles # 0
               THEN [Quiet EXCEPT !.bit = 0, !.in = << >>, !.st = SeqSource(d.read)]
               ELSE [Quiet EXCEPT !.bit = 0, !.st = IF d.count # 0 THEN "SEQ_INFO" ELSE "SEQ_LAST"]
     IN  IF d.cycles # 0 /\ d.bit # 0 THEN d' = [Quiet EXCEPT !.st = "SEQ_LOW"] /\ Stay
         ELSE IF d.read THEN Offer(d.pending, FALSE, [on EXCEPT !.pending = ToString(d.in), !.txed = @ + 1])
         ELSE d' = (IF streamInReady THEN on ELSE Quiet) /\ Stay

SeqLast ==
  /\ d.st = "SEQ_LAST"
  /\ Offer(d.pending, isV2, [d EXCEPT !.st = "SEQ_END"])

SeqEnd ==
  /\ d.st = "SEQ_END"
  /\ d' = [Quiet EXCEPT !.st = IF isV2 \/ d.txed = V1Size THEN "IDLE" ELSE "FILL"]
  /\ Stay

-----------------------------------------------------------------------------
\* A transfer, and what it leaves to send: in version 1 the host asks for no more
\* than a packet holds.  No transfers at all are a good answer.
HeaderOf == IF pkt.cmd = "Transfer" THEN <<"Transfer", "count", "ack">>
            ELSE <<"TransferBlock", "count0", "count1", "ack">>

Transfer ==
  /\ d.st = "DISPATCH" /\ d.rx[1] \in {"Transfer", "TransferBlock"}
  /\ IF d.rx[3] = "none"
     THEN d' = [Quiet EXCEPT !.tx = HeaderOf, !.st = "RESPOND"]
     ELSE \E w \in 0 .. MaxWords :
            /\ isV2 \/ Len(HeaderOf) + w * WordBytes <= V1Size
            /\ d' = [Quiet EXCEPT !.words = w, !.txb = 1, !.st = "HEADER"]
  /\ Stay

\* The words are counted and the upload begins with the first, if there is one.
Counted ==
  [Quiet EXCEPT !.txed = d.words * WordBytes + Len(HeaderOf), !.left = d.words, !.txb = 0,
                !.st = IF d.words = 0 THEN "UPLOADED" ELSE "UPLOAD"]

\* The header goes out without a look at whether the last byte was taken.
Header ==
  /\ d.st = "HEADER"
  /\ IF d.txb <= Len(HeaderOf)
     THEN Offer(HeaderOf[d.txb], isV2 /\ d.txb = Len(HeaderOf) /\ d.words = 0,
                [d EXCEPT !.txb = @ + 1])
     ELSE d' = Counted /\ Stay

\* The byte to come is the last of the last word.
LastByte == isV2 /\ d.left = 0 /\ d.txb = WordBytes - 1

\* Byte k of word w.
ByteOf(w, k) == ToString(<<w, k>>)

\* A word comes out of the store, and goes a byte at a time.
Upload ==
  /\ d.st = "UPLOAD"
  /\ d' = IF d.txb = 0
          THEN [Quiet EXCEPT !.left = @ - 1, !.payload = ByteOf(d.words - d.left + 1, 1), !.txb = 1]
          ELSE IF ~(d.valid /\ streamInReady) THEN [d EXCEPT !.valid = TRUE]
          ELSE [d EXCEPT !.payload = ByteOf(d.words - d.left, d.txb + 1), !.last = LastByte,
                         !.valid = (d.txb # WordBytes), !.txb = @ + 1,
                         !.st = IF d.txb = WordBytes THEN "UPLOADED" ELSE "UPLOAD"]
  /\ Stay

Uploaded ==
  /\ d.st = "UPLOADED"
  /\ d' = IF ~streamInReady THEN Quiet
          ELSE IF d.left # 0 THEN [Quiet EXCEPT !.txb = 0, !.st = "UPLOAD"]
          ELSE [Quiet EXCEPT !.st = IF isV2 THEN "IDLE" ELSE "FILL"]
  /\ Stay

-----------------------------------------------------------------------------
Error ==
  /\ d.st = "ERROR"
  /\ d' = [Quiet EXCEPT !.tx = <<"FF">>, !.st = "RESPOND"]
  /\ Stay

\* Sends byte after byte, each until it is taken.
Respond ==
  /\ d.st = "RESPOND"
  /\ LET taken == d.valid /\ streamInReady
     IN  d' = [d EXCEPT !.valid = ~taken /\ d.txed < Len(d.tx),
                        !.payload = IF d.txed < Len(d.tx) THEN d.tx[d.txed + 1] ELSE "0",
                        !.last = isV2 /\ d.txed = Len(d.tx) - 1,
                        !.txed = IF taken THEN @ + 1 ELSE @,
                        !.st = IF d.txed # Len(d.tx) THEN "RESPOND"
                               ELSE IF isV2 \/ d.txed = V1Size THEN "IDLE" ELSE "FILL"]
  /\ Stay

\* Mutant of Full: one byte more than the packet has.
FullPast == d.txed = V1Size + 1

Full == d.txed = V1Size

\* Version 1 has packets of one size.
V1PacketFill ==
  /\ d.st = "FILL"
  /\ LET taken == d.valid /\ streamInReady
     IN  d' = [d EXCEPT !.valid = ~taken /\ d.txed < V1Size, !.payload = "0",
                        !.txed = IF taken THEN @ + 1 ELSE @,
                        !.st = IF Full THEN "IDLE" ELSE "FILL"]
  /\ Stay

\* A clock: the state machine, the crossing, and the byte on offer.
Clock ==
  /\ \/ Idle \/ PacketSwitch \/ RxParams \/ Answer \/ Command \/ WaitDone
     \/ SWD_Configure \/ TransferConfigure
     \/ Connect \/ WaitConnectDone \/ JtagConfigure \/ JtagIdcode
     \/ SwjSequenceSetup \/ SwjGet \/ SwjLow \/ SwjLowered \/ SwjRaised
     \/ SeqSetup \/ SeqFront \/ SeqInfo \/ SeqData \/ SeqLow \/ SeqLowered \/ SeqRaised
     \/ SeqDecide \/ SeqLast \/ SeqEnd
     \/ Transfer \/ Header \/ Upload \/ Uploaded
     \/ Error \/ Respond \/ V1PacketFill
  /\ done_cdc' = <<ready, done_cdc[1]>>
  /\ ran' = (ran /\ ~(go' /\ ~go))
  /\ fifo' = IF d.valid /\ streamInReady THEN Append(fifo, <<d.payload, d.last>>) ELSE fifo
  /\ clocked' = IF d.clk = 0 /\ d'.clk = 1 THEN Append(clocked, <<d.ctl, d.out>>) ELSE clocked
  /\ d.st # "SEQ_RAISED" => UNCHANGED seen
  /\ UNCHANGED <<ready, pkt, isV2, resp, cmdLog>>

DapNext == HostTake \/ HostSend \/ DebugStep \/ Clock

DapSpec == DapInit /\ [][DapNext]_dapVars

\* The clock runs, the debug interface ends its commands, and the host reads.
DapFairSpec == DapSpec /\ WF_dapVars(Clock) /\ WF_dapVars(DebugStep) /\ WF_dapVars(HostTake)

-----------------------------------------------------------------------------
\* What is refused, at once or when the packet turns out foreshortened.
Refused ==
  \/ pkt.short \/ RxLen(pkt.cmd) = 0 \/ pkt.cmd = "TransferAbort"
  \/ pkt.cmd \in {"Info", "HostStatus", "Connect"} /\ pkt.bytes[1] = "bad"

\* Bits taken in, by part and byte.
RECURSIVE Grouped(_, _)
Grouped(bits, reads) ==
  IF reads = << >> THEN << >>
  ELSE IF reads[1] > ByteBits
  THEN <<ToString(SubSeq(bits, 1, ByteBits))>> \o
       Grouped(SubSeq(bits, ByteBits + 1, Len(bits)), <<reads[1] - ByteBits>> \o Tail(reads))
  ELSE <<ToString(SubSeq(bits, 1, reads[1]))>> \o Grouped(SubSeq(bits, reads[1] + 1, Len(bits)), Tail(reads))

WordsSent ==
  [i \in 1 .. d.words * WordBytes |-> ByteOf((i - 1) \div WordBytes + 1, ((i - 1) % WordBytes) + 1)]

\* The answer to the packet.
Reply ==
  IF Refused THEN <<"FF">>
  ELSE CASE pkt.cmd = "Info" -> <<"Info", "len", "info">>
         [] pkt.cmd \in {"HostStatus", "Disconnect"} -> <<pkt.cmd, "0">>
         [] pkt.cmd = "Connect" -> <<"Connect", pkt.bytes[1]>>
         [] pkt.cmd = "ResetTarget" -> <<"ResetTarget", "ResetTarget", "0">>
         [] pkt.cmd = "JTAG_IDCODE" -> <<"JTAG_IDCODE", "0", "JTAG_IDCODE">>
         [] pkt.cmd \in {"SWD_Sequence", "JTAG_Sequence"} ->
              <<pkt.cmd, "0">> \o Grouped(seen, pkt.reads)
         [] pkt.cmd \in {"Transfer", "TransferBlock"} ->
              HeaderOf \o IF pkt.bytes[2] = "none" THEN << >> ELSE WordsSent
         [] OTHER -> <<pkt.cmd, pkt.cmd>>

PacketOver == pkt.cmd # "none" /\ Whole /\ d.st = "IDLE" /\ fifo = << >> /\ ~d.valid

\* The host gets the answer to its packet, whole, in order and no byte twice, in
\* version 2 with the last byte marked and in version 1 filled up, although the
\* header of a transfer is pushed without a handshake.
ResponseRight ==
  PacketOver =>
    resp = IF isV2 THEN [i \in 1 .. Len(Reply) |-> <<Reply[i], i = Len(Reply)>>]
           ELSE [i \in 1 .. V1Size |-> <<IF i <= Len(Reply) THEN Reply[i] ELSE "0", FALSE>>]

\* A packet makes the debug interface run what it says and no more: one command,
\* or two writes of the pins for every bit, and the target was clocked once for
\* every bit, in order, with the bit on the line.
CommandsRun ==
  PacketOver /\ ~Refused =>
    CASE pkt.cmd \in {"SWJ_Sequence", "SWD_Sequence", "JTAG_Sequence"} ->
           clocked = pkt.bits /\ cmdLog = [i \in 1 .. 2 * Len(pkt.bits) |-> pkt.cmd]
      [] pkt.cmd \in Simple \cup {"Connect", "JTAG_Configure", "JTAG_IDCODE"} -> cmdLog = <<pkt.cmd>>
      [] OTHER -> cmdLog = << >>

\* The commander keeps its half of the handshake: go rises only when the debug
\* interface waits for it and falls only when the command was accepted, although
\* done is seen two clocks late.
HandshakeKept == Debug!Spec
=============================================================================
