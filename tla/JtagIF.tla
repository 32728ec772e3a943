------------------------------ MODULE JtagIF ------------------------------
(***************************************************************************)
(* verilog/jtagIF.v: one JTAG command, an edge of the target clock a step.  *)
(* The clock stops while the interface is idle.                            *)
(*                                                                         *)
(* The chain is external: the TAP controller the devices share, as 1149.1   *)
(* has it, the instruction of each device, and the bits between TDI and     *)
(* TDO in the order in which they come out.  JtagBits stands for the 32     *)
(* bits of a word.                                                         *)
(***************************************************************************)
EXTENDS Integers, Sequences

CONSTANTS
  JtagBits,  \* bits of a word (32)
  IrLens,    \* irlenx: the length of the instruction of each device, the first next to TDO
  Instructions, \* of each instruction its bits, in the order of the wire
  Sents      \* words the target sends

JtagBit == {0, 1}
JtagWord == [1 .. JtagBits -> JtagBit]
ndevs == Len(IrLens) - 1
Chained == 0 .. ndevs

IrLen(d) == IrLens[d + 1]
IrOf(d, i) == SubSeq(i, 1, IrLen(d))

APACC == Instructions["APACC"]
DPACC == Instructions["DPACC"]
IDCODE == Instructions["IDCODE"]
BYPASS == Instructions["BYPASS"]

\* Instructions are as long as the longest register and no two look alike to a device;
\* bypass is all ones, which the interface sends to the devices it does not mean.
ASSUME JtagAssumption ==
  /\ JtagBits \in Nat \ {0} /\ Sents \subseteq JtagWord
  /\ IrLens \in Seq(Nat \ {0}) /\ IrLens # << >>
  /\ Instructions \in [{"APACC", "DPACC", "IDCODE", "BYPASS"} -> Seq(JtagBit)]
  /\ \A d \in Chained, a \in DOMAIN Instructions :
       /\ IrLen(d) <= Len(Instructions[a])
       /\ \A b \in DOMAIN Instructions \ {a} : IrOf(d, Instructions[a]) # IrOf(d, Instructions[b])
  /\ \A i \in DOMAIN BYPASS : BYPASS[i] = 1

ACK_OK == <<0, 1, 0>>
ACK_WAIT == <<1, 0, 0>>

VARIABLES
  jtag_state, next_state, tmsbits, tdxcount, devcount, tdi, tms, jtagAck, jtagRead,
  jtagRising, jtagGo,
  jtagReq,   \* the command and what it uses, held by the layer above
  tap,   \* state of the TAP controllers
  chain, \* bits between TDI and TDO
  dap    \* of each device its instruction; what the addressed one took

jtagEngine == <<jtag_state, next_state, tmsbits, tdxcount, devcount, tdi, tms, jtagAck, jtagRead>>
jtagVars == <<jtagEngine, jtagRising, jtagGo, jtagReq, tap, chain, dap>>

idle == jtag_state = "IDLE"

JtagZeros == [i \in 1 .. JtagBits |-> 0]
NoReq == [cmd |-> "RESET", dev |-> 0, ir |-> BYPASS, rnw |-> 0, addr |-> <<0, 0>>,
          dwrite |-> JtagZeros, answer |-> ACK_OK, sent |-> JtagZeros]

JtagInit ==
  /\ jtag_state = "IDLE" /\ next_state = "IDLE"
  /\ tmsbits = << >> /\ tdxcount = 0 /\ devcount = 0
  /\ tdi = 0 /\ tms = 0 /\ jtagAck = ACK_OK /\ jtagRead = JtagZeros
  /\ jtagRising = TRUE /\ jtagGo = FALSE
  /\ jtagReq = NoReq
  /\ tap = "IDLE" /\ chain = << >>
  /\ dap = [instr |-> [d \in Chained |-> IrOf(d, IDCODE)], took |-> << >>]

-----------------------------------------------------------------------------
\* The layer above.  It transfers when the device listens and the others are in
\* bypass, and asks for an ID when all of them show theirs.
Listening(d) ==
  /\ dap.instr[d] \in {IrOf(d, APACC), IrOf(d, DPACC)}
  /\ \A e \in Chained \ {d} : dap.instr[e] = IrOf(e, BYPASS)

Showing == \A d \in Chained : dap.instr[d] = IrOf(d, IDCODE)

IrRequest(d, i) == [NoReq EXCEPT !.cmd = "IR", !.dev = d, !.ir = i]
IdRequest(d) == [NoReq EXCEPT !.cmd = "READID", !.dev = d]
TransferRequest(d, r, a, w, k, s) ==
  [NoReq EXCEPT !.cmd = "TFR", !.dev = d, !.rnw = r, !.addr = a, !.dwrite = w, !.answer = k, !.sent = s]

JtagRequests ==
  {NoReq} \cup {IrRequest(d, i) : d \in Chained, i \in {APACC, DPACC}}
    \cup {IdRequest(d) : d \in {e \in Chained : Showing}}
    \cup {TransferRequest(d, r, a, w, k, s) :
            d \in {e \in Chained : Listening(e)}, r \in JtagBit, a \in {<<1, 0>>, <<0, 1>>},
            w \in Sents, k \in {ACK_OK, ACK_WAIT}, s \in Sents}

JtagRequest ==
  /\ idle /\ ~jtagGo
  /\ jtagReq' \in JtagRequests
  /\ jtagGo' = TRUE
  /\ UNCHANGED <<jtagEngine, jtagRising, tap, chain, dap>>

-----------------------------------------------------------------------------
\* The chain (external).
TapNext(s, m) ==
  LET by(zero, one) == IF m = 0 THEN zero ELSE one
  IN  CASE s = "RESET" -> by("IDLE", "RESET")
        [] s = "IDLE" -> by("IDLE", "SEL_DR")
        [] s = "SEL_DR" -> by("CAP_DR", "SEL_IR")
        [] s = "CAP_DR" -> by("SHIFT_DR", "EXIT_DR")
        [] s = "SHIFT_DR" -> by("SHIFT_DR", "EXIT_DR")
        [] s = "EXIT_DR" -> by("PAUSE", "UPD_DR")
        [] s = "SEL_IR" -> by("CAP_IR", "RESET")
        [] s = "CAP_IR" -> by("SHIFT_IR", "EXIT_IR")
        [] s = "SHIFT_IR" -> by("SHIFT_IR", "EXIT_IR")
        [] s = "EXIT_IR" -> by("PAUSE", "UPD_IR")
        [] s \in {"UPD_DR", "UPD_IR"} -> by("IDLE", "SEL_DR")
        [] OTHER -> "PAUSE"

\* The ID of a device is its number, so that no two are alike.
IdOf(d) == [i \in 1 .. JtagBits |-> IF i = d + 1 THEN 1 ELSE 0]

\* What a data register shows: the answer and the word, the ID, or one zero.
Dr(d) ==
  CASE dap.instr[d] \in {IrOf(d, APACC), IrOf(d, DPACC)} -> jtagReq.answer \o jtagReq.sent
    [] dap.instr[d] = IrOf(d, IDCODE) -> IdOf(d)
    [] OTHER -> <<0>>

\* Every bit goes one place on towards TDO.
Shifted ==
  [d \in Chained |-> [i \in DOMAIN chain[d] |->
     IF i < Len(chain[d]) THEN chain[d][i + 1] ELSE IF d = ndevs THEN tdi ELSE chain[d + 1][1]]]

Tap ==
  LET bits == CASE tap = "CAP_DR" -> [d \in Chained |-> Dr(d)]
                [] tap = "CAP_IR" -> [d \in Chained |-> [i \in 1 .. IrLen(d) |-> 0]]
                [] tap \in {"SHIFT_DR", "SHIFT_IR"} -> Shifted
                [] OTHER -> chain
      to == TapNext(tap, tms)
      listens(d) == dap.instr[d] \in {IrOf(d, APACC), IrOf(d, DPACC)}
  IN  /\ tap' = to
      /\ chain' = IF to = "IDLE" THEN << >> ELSE bits
      /\ dap' = [instr |-> CASE to = "UPD_IR" -> bits
                            [] to = "RESET" -> [d \in Chained |-> IrOf(d, IDCODE)]
                            [] OTHER -> dap.instr,
                 took |-> IF to = "UPD_DR" /\ jtagReq.answer = ACK_OK /\ listens(jtagReq.dev)
                          THEN bits[jtagReq.dev]
                          ELSE IF to = "CAP_DR" THEN << >> ELSE dap.took]

tdo == IF tap \in {"SHIFT_DR", "SHIFT_IR"} THEN chain[0][1] ELSE 1

-----------------------------------------------------------------------------
\* The TMS bits that lead to a command's first state, and that state.
Opening ==
  CASE jtagReq.cmd = "TFR" -> <<<<1, 0, 0>>, "TRANSFER">>
    [] jtagReq.cmd = "READID" -> <<<<0, 1, 0, 0>>, "IDDATA">>
    [] jtagReq.cmd = "IR" -> <<<<1, 1, 0, 0>>, "WRITEIR">>
    [] jtagReq.cmd = "RESET" -> <<<<1, 1, 1, 1, 1, 0>>, "IDLE">>

JtagStart ==
  /\ idle /\ jtagGo
  /\ jtag_state' = "TMSOUT"
  /\ tmsbits' = Opening[1] /\ next_state' = Opening[2]
  /\ tdxcount' = 0 /\ devcount' = 0
  /\ jtagGo' = FALSE
  /\ UNCHANGED <<jtagAck, jtagRead>>

\* After the last bit of a device: on to the next one, or out by these TMS bits.
DeviceDone(out) ==
  IF devcount = ndevs
  THEN /\ jtag_state' = "TMSOUT" /\ tmsbits' = out /\ next_state' = "IDLE"
       /\ tdxcount' = tdxcount + 1 /\ UNCHANGED devcount
  ELSE /\ devcount' = devcount + 1 /\ tdxcount' = 0
       /\ UNCHANGED <<jtag_state, tmsbits, next_state>>

MoreBits ==
  /\ tdxcount' = tdxcount + 1
  /\ UNCHANGED <<jtag_state, tmsbits, next_state, devcount>>

\* A WAIT ends the transfer after its three bits.
TransferAbort ==
  /\ jtag_state' = "TMSOUT" /\ tmsbits' = <<1, 1, 0>> /\ next_state' = "IDLE"
  /\ tdxcount' = tdxcount + 1 /\ UNCHANGED devcount

\* Mutant of LastTdx: one bit early.
LastTdxEarly == devcount # jtagReq.dev \/ tdxcount = JtagBits + 1

\* Every other device is in bypass and has one bit.
LastTdx == devcount # jtagReq.dev \/ tdxcount = JtagBits + 2

Transfer ==
  /\ jtag_state = "TRANSFER"
  /\ jtagAck' = IF tdxcount < 3 THEN [jtagAck EXCEPT ![tdxcount + 1] = tdo] ELSE jtagAck
  /\ jtagRead' = IF tdxcount < 3 THEN jtagRead ELSE [jtagRead EXCEPT ![tdxcount - 2] = tdo]
  /\ CASE tdxcount = 2 /\ jtagAck' # ACK_OK -> TransferAbort
       [] LastTdx -> DeviceDone(<<1, 0, 0>>)
       [] OTHER -> MoreBits
  /\ UNCHANGED jtagGo

IdData ==
  /\ jtag_state = "IDDATA"
  /\ jtagRead' = [jtagRead EXCEPT ![tdxcount + 1] = tdo]
  /\ IF tdxcount = JtagBits - 1
     THEN IF devcount = ndevs
          THEN /\ jtag_state' = "READID_DONE" /\ tdxcount' = tdxcount + 1
               /\ UNCHANGED <<tmsbits, next_state, devcount>>
          ELSE DeviceDone(<< >>)
     ELSE MoreBits
  /\ UNCHANGED <<jtagAck, jtagGo>>

LastIr == tdxcount + 1 = IrLen(devcount)

WriteIr ==
  /\ jtag_state = "WRITEIR"
  /\ IF LastIr THEN DeviceDone(<<1, 0>>) ELSE MoreBits
  /\ UNCHANGED <<jtagAck, jtagRead, jtagGo>>

TmsOut ==
  /\ jtag_state = "TMSOUT"
  /\ jtag_state' = IF tmsbits = << >> THEN next_state ELSE jtag_state
  /\ UNCHANGED <<tmsbits, next_state, tdxcount, devcount, jtagAck, jtagRead, jtagGo>>

Waiting ==
  /\ jtag_state = "READID_DONE" \/ (idle /\ ~jtagGo)
  /\ IF idle THEN tdxcount' = 0 /\ devcount' = 0 ELSE UNCHANGED <<tdxcount, devcount>>
  /\ UNCHANGED <<jtag_state, tmsbits, next_state, jtagAck, jtagRead, jtagGo>>

JtagRisingEdge ==
  /\ jtagRising /\ jtagRising' = FALSE
  /\ JtagStart \/ Transfer \/ IdData \/ WriteIr \/ TmsOut \/ Waiting
  /\ IF idle THEN UNCHANGED <<tap, chain, dap>> ELSE Tap
  /\ UNCHANGED <<tdi, tms, jtagReq>>

\* What TDI takes at a falling edge.
TdiNext ==
  CASE jtag_state = "TRANSFER" ->
         IF devcount # jtagReq.dev THEN 1
         ELSE IF tdxcount = 0 THEN jtagReq.rnw
         ELSE IF tdxcount < 3 THEN jtagReq.addr[tdxcount]
         ELSE IF jtagReq.rnw = 1 THEN 1 ELSE jtagReq.dwrite[tdxcount - 2]
    [] jtag_state = "IDDATA" ->
         IF devcount = jtagReq.dev /\ jtagReq.rnw = 0 THEN jtagReq.dwrite[tdxcount + 1] ELSE 0
    [] jtag_state = "WRITEIR" -> IF devcount = jtagReq.dev THEN jtagReq.ir[tdxcount + 1] ELSE 1
    [] OTHER -> tdi

\* TMS leaves the shift state with the last bit of the last device.
TmsNext ==
  CASE jtag_state = "TMSOUT" /\ tmsbits # << >> -> Head(tmsbits)
    [] jtag_state = "TRANSFER" /\ devcount = ndevs /\ LastTdx -> 1
    [] jtag_state = "WRITEIR" /\ devcount = ndevs /\ LastIr -> 1
    [] OTHER -> tms

JtagFallingEdge ==
  /\ ~jtagRising /\ jtagRising' = TRUE
  /\ tdi' = TdiNext
  /\ tms' = TmsNext
  /\ IF jtag_state = "READID_DONE"
     THEN jtag_state' = "TMSOUT" /\ tmsbits' = <<1, 1, 0>> /\ next_state' = "IDLE"
     ELSE /\ tmsbits' = IF jtag_state = "TMSOUT" /\ tmsbits # << >> THEN Tail(tmsbits) ELSE tmsbits
          /\ UNCHANGED <<jtag_state, next_state>>
  /\ UNCHANGED <<tdxcount, devcount, jtagAck, jtagRead, jtagGo, jtagReq, tap, chain, dap>>

JtagNext == JtagRequest \/ JtagRisingEdge \/ JtagFallingEdge

JtagSpec == JtagInit /\ [][JtagNext]_jtagVars

-----------------------------------------------------------------------------
\* JTAG: between commands the TAP controllers stand in Run-Test/Idle, whatever the
\* command and wherever it broke off: every command starts its TMS bits there.
Parked == idle => tap = "IDLE"

\* A command that is over did what it says to the devices: the instruction went
\* to its device and bypass to the others, the transfer's bits reached the device
\* in place although others shift before and after it, the word and the answer
\* came back, and a transfer answered WAIT left nothing behind.  An ID is told right
\* of the last device; JtagIdRight is about the others.
CommandRight ==
  idle /\ ~jtagGo =>
    CASE jtagReq.cmd = "IR" ->
           \A d \in Chained : dap.instr[d] = IrOf(d, IF d = jtagReq.dev THEN jtagReq.ir ELSE BYPASS)
      [] jtagReq.cmd = "RESET" -> Showing
      [] jtagReq.cmd = "READID" -> jtagReq.dev = ndevs => jtagRead = IdOf(jtagReq.dev)
      [] jtagReq.cmd = "TFR" ->
           /\ jtagAck = jtagReq.answer
           /\ jtagReq.answer = ACK_WAIT => dap.took = << >>
           /\ jtagReq.answer = ACK_OK =>
                /\ jtagRead = jtagReq.sent
                /\ dap.took = <<jtagReq.rnw>> \o jtagReq.addr \o
                                IF jtagReq.rnw = 1 THEN [i \in 1 .. JtagBits |-> 1] ELSE jtagReq.dwrite

JtagRight == Parked /\ CommandRight

\* The ID that comes back is the one of "the specified JTAG device" (dbgIF.v), also
\* when other devices shift theirs after it.
JtagIdRight == idle /\ ~jtagGo /\ jtagReq.cmd = "READID" => jtagRead = IdOf(jtagReq.dev)
=============================================================================
