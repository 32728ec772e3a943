------------------------------- MODULE SwdIF -------------------------------
(***************************************************************************)
(* verilog/swdIF.v: one SWD transaction, an edge of the target clock a      *)
(* step.  The wire has one line for both directions: swwr says the host     *)
(* drives it, tgt.drv that the target does, and a line nobody drives reads  *)
(* as anything.  The clock stops while the interface is idle.               *)
(*                                                                         *)
(* The target is external: a port that takes a header, turns the line       *)
(* round, answers, and sends or takes the data, as ADIv5 has it.  DataBits  *)
(* stands for the 32 bits of a word; the order of the states does not       *)
(* depend on it.                                                           *)
(***************************************************************************)
EXTENDS Integers, Sequences, FiniteSets, TLC

CONSTANTS
  DataBits,     \* bits of a word (32)
  Turnarounds,  \* settings of the turnaround: one less than its clocks
  IdleCycles,   \* clocks after a write, less one
  Answers       \* <<ack, dataphase>>: what the target answers, and under which setting

Bit == {0, 1}
Word == [1 .. DataBits -> Bit]
Parity(w) == Cardinality({i \in DOMAIN w : w[i] = 1}) % 2

\* Elements of the transmission frame.
PROT_HEAD_END == 7
PROT_TRN1 == 8
PROT_ACK == 9
PROT_ACK_END == 11
PROT_TRN2 == 12
PROT_DATA == 13
PROT_PAR == PROT_DATA + DataBits + 1
PROT_EOF == PROT_PAR + 1

OK == <<1, 0, 0>>       \* in the order of the wire
WAIT == <<0, 1, 0>>

VARIABLES
  swd_state, spincount, bitcount, par, rd, ack, dread, perr,
  swdo, swwr,  \* what the host drives
  rising,      \* the next edge is a rising one
  swdGo,       \* go, the request of the layer above
  req,         \* the request and the settings, held by the layer above
  tgt          \* the target: phase, clocks left in it, line, what it took and sent

engineVars == <<swd_state, spincount, bitcount, par, rd, ack, dread, perr, swdo, swwr>>
swdVars == <<engineVars, rising, swdGo, req, tgt>>

Zeros == [i \in 1 .. DataBits |-> 0]

\* A read brings a word and perhaps a wrong parity, a write takes one.  What is
\* addressed goes out with the header and decides nothing.
Requests ==
  {r \in [addr : {1}, apndp : {0}, turnaround : Turnarounds, answer : Answers, rnw : Bit,
          dwrite : Word, sent : Word, noise : Bit] :
     IF r.rnw = 1 THEN r.dwrite = Zeros ELSE r.sent = Zeros /\ r.noise = 0}

dataphase == req.answer[2]

\* Start, APnDP, RnW, A, parity, stop, park.
Header ==
  <<1, req.apndp, req.rnw, req.addr, 0, (req.apndp + req.rnw + req.addr) % 2, 0, 1>>

\* bits[bitcount]: the frame ready to go.
FrameBit ==
  CASE bitcount < PROT_TRN1 -> Header[bitcount + 1]
    [] bitcount \in PROT_DATA .. PROT_DATA + DataBits - 1 ->
         req.dwrite[bitcount - PROT_DATA + 1]
    [] bitcount = PROT_PAR - 1 -> par
    [] OTHER -> 0

\* swwr at an edge.
Driving ==
  \/ swd_state # "IDLE" /\ bitcount < PROT_TRN1
  \/ swd_state = "IDLE" /\ swdGo /\ rising
  \/ req.rnw = 0 /\ bitcount = PROT_TRN2 /\ rising
  \/ req.rnw = 0 /\ bitcount > PROT_TRN2
  \/ bitcount = PROT_PAR /\ rising
  \/ bitcount > PROT_PAR

SwdInit ==
  /\ swd_state = "IDLE"
  /\ spincount = 0 /\ bitcount = 0 /\ par = 0
  /\ rd = Zeros /\ ack = OK /\ dread = Zeros /\ perr = 0
  /\ swdo = 0 /\ swwr = FALSE
  /\ rising = TRUE
  /\ swdGo = FALSE
  /\ req = [addr |-> 0, apndp |-> 0, turnaround |-> 0, answer |-> <<OK, FALSE>>,
            rnw |-> 1, dwrite |-> Zeros, sent |-> Zeros, noise |-> 0]
  /\ tgt = [ph |-> "idle", n |-> 0, drv |-> FALSE, out |-> 0, took |-> << >>]

-----------------------------------------------------------------------------
\* The layer above: a request while idle, go until the transfer has started,
\* which it sees long before the next edge.
Request ==
  /\ swd_state = "IDLE" /\ ~swdGo
  /\ req' \in Requests
  /\ swdGo' = TRUE
  /\ UNCHANGED <<engineVars, rising, tgt>>

\* What swdi may read.
Line ==
  IF swwr THEN {swdo} ELSE IF tgt.drv THEN {tgt.out} ELSE Bit

Slide(v) == Append(Tail(rd), v)

\* The ACK just complete: {swdi, rd[31:30]}.
AckOf(v) == <<rd[DataBits - 1], rd[DataBits], v>>

\* Mutant of AfterAck: the cooling after a WAIT has no data phase in it.
AfterAckShortCool(a) ==
  CASE a = WAIT -> [st |-> "COOLING", bit |-> PROT_EOF, spin |-> 2]
    [] a # WAIT /\ (req.rnw = 1 \/ a # OK) ->
         [st |-> "DATA", bit |-> PROT_DATA, spin |-> spincount]
    [] OTHER -> [st |-> "TRN2", bit |-> bitcount + 1, spin |-> req.turnaround]

\* Where the ACK leads: a WAIT gives up by way of the cooling, a read and a bad
\* answer go on to the data, a write turns the line round once more.
AfterAck(a) ==
  CASE a = WAIT -> [st |-> "COOLING", bit |-> PROT_EOF,
                    spin |-> IF dataphase THEN DataBits + 2 ELSE 2]
    [] a # WAIT /\ (req.rnw = 1 \/ a # OK) ->
         [st |-> "DATA", bit |-> PROT_DATA, spin |-> spincount]
    [] OTHER -> [st |-> "TRN2", bit |-> bitcount + 1, spin |-> req.turnaround]

\* Where a rising edge takes the state, the bit counter and the spin counter.
Step(v) ==
  CASE swd_state = "IDLE" ->
         [st |-> IF swdGo THEN "HDR_TX" ELSE "IDLE", bit |-> 0, spin |-> spincount]
    [] swd_state = "HDR_TX" ->
         IF bitcount = PROT_HEAD_END
         THEN [st |-> "TRN1", bit |-> bitcount + 1, spin |-> req.turnaround]
         ELSE [st |-> "HDR_TX", bit |-> bitcount + 1, spin |-> spincount]
    [] swd_state = "TRN1" ->
         [st |-> IF spincount = 0 THEN "ACK" ELSE "TRN1",
          bit |-> IF spincount = 0 THEN PROT_ACK ELSE PROT_TRN1, spin |-> spincount - 1]
    [] swd_state = "ACK" ->
         IF bitcount = PROT_ACK_END THEN AfterAck(AckOf(v))
         ELSE [st |-> "ACK", bit |-> bitcount + 1, spin |-> spincount]
    [] swd_state = "TRN2" ->
         [st |-> IF spincount = 0 THEN "DATA" ELSE "TRN2", bit |-> PROT_DATA,
          spin |-> spincount - 1]
    [] swd_state = "DATA" ->
         IF bitcount = PROT_PAR
         THEN [st |-> "COOLING", bit |-> bitcount + 1,
               spin |-> IF req.rnw = 1 THEN req.turnaround ELSE IdleCycles]
         ELSE [st |-> "DATA", bit |-> bitcount + 1, spin |-> spincount]
    [] swd_state = "COOLING" ->
         [st |-> IF spincount = 0 THEN "IDLE" ELSE "COOLING",
          bit |-> IF spincount = 0 THEN 0 ELSE PROT_EOF, spin |-> spincount - 1]

\* Mutant of ParNext: the parity of the transfer before stays in.
ParNextKept(v) == IF swd_state = "DATA" THEN (par + v) % 2 ELSE par

ParNext(v) ==
  CASE swd_state = "IDLE" /\ swdGo -> 0
    [] swd_state = "DATA" -> (par + v) % 2
    [] OTHER -> par

\* The target goes on to a phase, its side of the line released or driven.
Phase(p, n) == [tgt EXCEPT !.ph = p, !.n = n, !.drv = FALSE]
Drive(p, n, b) == [tgt EXCEPT !.ph = p, !.n = n, !.drv = TRUE, !.out = b]

\* The target at a rising edge, v on the line (external).  A header is taken
\* when it is whole and right; an answer without data ends after a turnaround
\* and, when the setting asks for it, a data phase.
Target(v) ==
  LET taken == Append(tgt.took, v)
  IN  CASE tgt.ph = "idle" ->
             IF v = 1 THEN [tgt EXCEPT !.ph = "hdr", !.took = <<1>>] ELSE tgt
        [] tgt.ph = "hdr" ->
             IF Len(taken) < 8 THEN [tgt EXCEPT !.took = taken]
             ELSE IF taken = Header THEN [Phase("trn", req.turnaround) EXCEPT !.took = << >>]
             ELSE Phase("lost", 0)
        [] tgt.ph = "trn" ->
             IF tgt.n > 0 THEN Phase("trn", tgt.n - 1) ELSE Drive("ack", 1, req.answer[1][1])
        [] tgt.ph = "ack" ->
             IF tgt.n < 3 THEN Drive("ack", tgt.n + 1, req.answer[1][tgt.n + 1])
             ELSE IF req.answer[1] # OK
             THEN Phase("skip", req.turnaround + IF dataphase THEN DataBits + 1 ELSE 0)
             ELSE IF req.rnw = 0 THEN Phase("wtrn", req.turnaround)
             ELSE Drive("data", 1, req.sent[1])
        [] tgt.ph = "data" ->
             IF tgt.n < DataBits THEN Drive("data", tgt.n + 1, req.sent[tgt.n + 1])
             ELSE IF tgt.n = DataBits
             THEN Drive("data", tgt.n + 1, (Parity(req.sent) + req.noise) % 2)
             ELSE Phase("skip", req.turnaround)
        [] tgt.ph = "wtrn" -> IF tgt.n > 0 THEN Phase("wtrn", tgt.n - 1) ELSE Phase("rx", 0)
        [] tgt.ph = "rx" ->
             IF tgt.n < DataBits THEN [tgt EXCEPT !.n = @ + 1, !.took = taken]
             ELSE [Phase("idle", 0) EXCEPT !.took = taken]
        [] tgt.ph = "skip" -> IF tgt.n > 0 THEN Phase("skip", tgt.n - 1) ELSE Phase("idle", 0)
        [] OTHER -> tgt

RisingEdge ==
  /\ rising /\ rising' = FALSE
  /\ swdo' = FrameBit
  /\ swwr' = Driving
  /\ \E v \in Line :
       LET s == Step(v)
       IN  /\ swd_state' = s.st /\ bitcount' = s.bit /\ spincount' = s.spin
           /\ rd' = Slide(v)
           /\ par' = ParNext(v)
           /\ perr' = CASE swd_state = "IDLE" /\ swdGo -> 0
                        [] swd_state = "DATA" /\ bitcount = PROT_PAR /\ req.rnw = 1 -> par
                        [] OTHER -> perr
           /\ ack' = IF swd_state = "ACK" /\ bitcount = PROT_ACK_END THEN AckOf(v) ELSE ack
           /\ dread' = IF swd_state = "DATA" /\ bitcount = PROT_PAR - 1 /\ req.rnw = 1
                       THEN rd ELSE dread
           /\ tgt' = IF swd_state = "IDLE" THEN tgt ELSE Target(v)
  /\ swdGo' = FALSE
  /\ UNCHANGED req

FallingEdge ==
  /\ ~rising /\ rising' = TRUE
  /\ swdo' = FrameBit
  /\ swwr' = Driving
  /\ UNCHANGED <<swd_state, spincount, bitcount, par, rd, ack, dread, perr, swdGo, req, tgt>>

SwdNext == Request \/ RisingEdge \/ FallingEdge

SwdSpec == SwdInit /\ [][SwdNext]_swdVars

-----------------------------------------------------------------------------
\* When the link cools down, the transfer is told right: the answer is the
\* target's, a word read is the word sent, perr is raised exactly when its parity
\* was wrong, and a word written reached the target with its parity, which the
\* interface takes from the line and not from the word.
SwdRight ==
  swd_state = "COOLING" =>
    /\ ack = req.answer[1]
    /\ ack = OK /\ req.rnw = 1 => dread = req.sent /\ perr = req.noise
    /\ ack = OK /\ req.rnw = 0 => tgt.took = Append(req.dwrite, Parity(req.dwrite))

\* Host and target never drive the line against each other.
NoContention == ~(swwr /\ tgt.drv)

\* When the interface is idle the target waits for a header too: no turnaround
\* was cut short, and no bit was taken for a header.
InStep == swd_state = "IDLE" => tgt.ph = "idle"

\* Both, of every transfer and of the one after it.
WireKept == NoContention /\ InStep
=============================================================================
