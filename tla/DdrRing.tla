------------------------------ MODULE DdrRing ------------------------------
(***************************************************************************)
(* The DDR3 history ring of the Artix-7 port, clock edge by clock edge:    *)
(* la_ddr_writer fills the ring, la_ddr_ring_streamer chases it and resends *)
(* packets on a NACK, and ddr3_wr_ctrl, ddr3_rd_ctrl and ddr3_arbit share   *)
(* the one command port of the MIG memory controller between the two.      *)
(*                                                                         *)
(* All of them are clocked by ui_clk, so a step is one rising edge: every  *)
(* register takes its next value at once, from the old values and from the *)
(* inputs of that cycle (the record in).  The blocks talk in one-cycle     *)
(* pulses, so what a block misses in its cycle is lost.                    *)
(*                                                                         *)
(* A 128-bit word is abstracted to its place in the captured stream, so    *)
(* data read back tells whether it is the word that was asked for.         *)
(* Addresses count words (the code counts 8 column addresses per word).    *)
(***************************************************************************)
EXTENDS Integers, Sequences, FiniteSets

CONSTANTS
  LENGTH,      \* words per DDR3 burst, and per packet (PKT_WORDS)
  RingBursts,  \* bursts the ring holds
  FIFO_WORDS,  \* depth of the egress FIFO
  MigDepth,    \* commands the MIG queues
  NackStarts,  \* first packets a NACK may ask for
  NackCounts,  \* number of packets a NACK may ask for
  MaxWords     \* bound: words captured

ASSUME RingAssumption ==
  /\ LENGTH \in Nat \ {0}
  /\ RingBursts \in Nat \ {0, 1}
  /\ \E k \in 1 .. LENGTH * RingBursts : LENGTH * RingBursts = 2^k
  /\ FIFO_WORDS \in Nat /\ FIFO_WORDS > 2 * LENGTH
  /\ MigDepth \in Nat \ {0}
  /\ NackStarts \subseteq Nat
  /\ NackCounts \subseteq Nat \ {0}
  /\ MaxWords \in Nat

Cap == LENGTH * RingBursts

Addr == 0 .. Cap - 1

NoWord == -1

VARIABLES
  captured,  \* history: words taken from the capture FIFO
  fill,      \* [seq, idx]: bank being filled (fill_seq) and place in it (word_idx)
  bank,      \* wbuf0, wbuf1
  wr,        \* la_ddr_writer: wst, ddr3_wr_start, out_idx, commit_seq,
             \*   ddr3_wr_addr, wr_ptr_words, words_written
  wc,        \* ddr3_wr_ctrl
  rc,        \* ddr3_rd_ctrl
  ar,        \* ddr3_arbit
  st,        \* la_ddr_ring_streamer
  f,         \* its register in front of the egress FIFO (f_wr_*)
  depth,     \* words in the egress FIFO
  mig        \* memory contents, queued commands, queued write data

vars == <<captured, fill, bank, wr, wc, rc, ar, st, f, depth, mig>>

\* The state ui_rst leaves.
Init ==
  /\ captured = 0
  /\ fill = [seq |-> 0, idx |-> 0]
  /\ bank = [b \in 0 .. 1 |-> [k \in 0 .. LENGTH - 1 |-> NoWord]]
  /\ wr = [state |-> "W_IDLE", start |-> FALSE, out_idx |-> 0, commit |-> 0,
           addr |-> 0, ptr |-> 0, written |-> 0]
  /\ wc = [state |-> "IDLE", req |-> FALSE, wren |-> FALSE,
           data_cnt |-> 0, cmd_cnt |-> 0, done |-> FALSE]
  /\ rc = [state |-> "IDLE", req |-> FALSE, en |-> FALSE,
           data_cnt |-> 0, cmd_cnt |-> 0, done |-> FALSE]
  /\ ar = [state |-> "IDLE", wr_ack |-> FALSE, rd_ack |-> FALSE]
  /\ st = [state |-> "R_IDLE", start |-> FALSE, addr |-> 0, ptr |-> 0,
           drained |-> 0, overrun |-> FALSE, pending |-> FALSE,
           abs |-> 0, left |-> 0, fail |-> FALSE]
  /\ f = [valid |-> FALSE, rtx |-> FALSE, data |-> NoWord, seq |-> 0]
  /\ depth = 0
  /\ mig = [mem |-> [a \in Addr |-> NoWord], cmds |-> << >>, data |-> << >>]

-----------------------------------------------------------------------------
\* The MIG controller, as the code relies on it.

\* Write commands whose data word has not been handed over yet.
Owed ==
  Cardinality({k \in DOMAIN mig.cmds : mig.cmds[k].op = "write"})
    - Len(mig.data)

\* The oldest command can be executed: it is a read, or its data is there.
MigCanExec ==
  /\ mig.cmds # << >>
  /\ Head(mig.cmds).op = "write" => mig.data # << >>

\* app_rd_data_valid: the oldest command is a read and is executed.
RdValid(in) == in.exec /\ Head(mig.cmds).op = "read"

RdData == mig.mem[Head(mig.cmds).addr]

-----------------------------------------------------------------------------
\* Combinational wires.

Occupancy == (fill.seq - wr.commit) % 4

\* Mutant of Accept: a word is taken with both banks full.
AcceptAlways(in) == in.word

Accept(in) == in.word /\ Occupancy # 2

WrDataReq(in) == wc.wren /\ in.wdf

WrAddrReq(in) == wc.state = "WRITE" /\ in.rdy

RdAddrReq(in) == rc.en /\ in.rdy

\* ddr3_ctrl: the write side owns the command port while it is busy.
AppCmd ==
  IF wc.state = "WRITE"
  THEN [op |-> "write", addr |-> wr.addr]
  ELSE [op |-> "read", addr |-> st.addr]

AppEn == wc.state = "WRITE" \/ rc.en

BankWord == bank[wr.commit % 2][wr.out_idx]

Wrap(a) == IF a >= Cap THEN 0 ELSE a

BurstAvail == (wr.ptr - st.ptr) % Cap >= LENGTH

OverrunNow == wr.written - st.drained > Cap - LENGTH

FifoHasRoom == depth < FIFO_WORDS - 2 * LENGTH

\* Mutant of RtxAddr: a packet number taken for a word address.
RtxAddrUnscaled == (st.abs \div LENGTH) % Cap

\* rtx_ring_addr: RING_MASK takes the address modulo a ring of 2^k words.
RtxAddr == st.abs % Cap

RtxWindowOk ==
  /\ st.abs + st.left <= wr.written
  /\ wr.written - st.abs <= Cap

\* What the outside may do in one cycle: a captured word, a NACK or none,
\* readiness for a command and for write data, execution of the oldest
\* command, pacing, and a word leaving the egress FIFO.  The MIG takes the
\* data of a command it has accepted without further wait (Owed).  A signal
\* that no register looks at in this cycle is left low.
Inputs ==
  [word   : {FALSE, captured < MaxWords},
   nack   : {<< >>} \cup (NackStarts \X NackCounts),
   rdy    : {FALSE, AppEn /\ Len(mig.cmds) < MigDepth},
   wdf    : {wc.wren /\ Owed > 0, wc.wren /\ Len(mig.data) < MigDepth},
   exec   : {FALSE, MigCanExec},
   credit : {FALSE, st.state = "R_IDLE" /\ ~st.pending},
   pop    : {FALSE, depth > 0}]

-----------------------------------------------------------------------------
\* The producer side of la_ddr_writer fills one bank and hands it over.
FillStep(in) ==
  IF Accept(in)
  THEN /\ bank' = [bank EXCEPT ![fill.seq % 2][fill.idx] = captured]
       /\ captured' = captured + 1
       /\ fill' = IF fill.idx = LENGTH - 1
                  THEN [seq |-> (fill.seq + 1) % 4, idx |-> 0]
                  ELSE [fill EXCEPT !.idx = @ + 1]
  ELSE UNCHANGED <<bank, captured, fill>>

\* The burst FSM of la_ddr_writer.
WriterStep(in) ==
  wr' =
    CASE wr.state = "W_IDLE" /\ Occupancy # 0 ->
           [wr EXCEPT !.state = "W_START", !.start = TRUE,
                      !.addr = wr.ptr, !.out_idx = 0]
      [] wr.state = "W_IDLE" /\ Occupancy = 0 ->
           [wr EXCEPT !.start = FALSE]
      [] wr.state = "W_START" ->
           [wr EXCEPT !.state = "W_RUN", !.start = FALSE]
      [] wr.state = "W_RUN" ->
           [wr EXCEPT !.state   = IF wc.done THEN "W_DONE" ELSE @,
                      !.start   = FALSE,
                      !.out_idx = IF WrDataReq(in) THEN (@ + 1) % LENGTH ELSE @,
                      !.addr    = IF WrAddrReq(in) THEN @ + 1 ELSE @]
      [] wr.state = "W_DONE" ->
           [wr EXCEPT !.state   = "W_IDLE",
                      !.start   = FALSE,
                      !.written = @ + LENGTH,
                      !.ptr     = Wrap(@ + LENGTH),
                      !.commit  = (@ + 1) % 4]

\* Mutant of WrReqNext: the request is a pulse like the start.
WrReqPulse == ~ar.wr_ack /\ wr.start

\* ddr3_wr_req is held from the start pulse to the acknowledge.
WrReqNext == ~ar.wr_ack /\ (wr.start \/ wc.req)

\* ddr3_wr_ctrl: LENGTH commands and LENGTH data words, counted apart; done
\* follows the last command.
WrCtrlStep(in) ==
  LET addCmd  == WrAddrReq(in)
      endCmd  == addCmd /\ wc.cmd_cnt = LENGTH - 1
      addData == WrDataReq(in)
      endData == addData /\ wc.data_cnt = LENGTH - 1
  IN  wc' =
        [state    |-> CASE wc.state = "IDLE"   -> IF wr.start THEN "WR_REQ" ELSE "IDLE"
                        [] wc.state = "WR_REQ" -> IF ar.wr_ack THEN "WRITE" ELSE "WR_REQ"
                        [] wc.state = "WRITE"  -> IF endCmd THEN "IDLE" ELSE "WRITE",
         req      |-> WrReqNext,
         wren     |-> ar.wr_ack \/ (wc.wren /\ ~endData),
         data_cnt |-> IF addData THEN (wc.data_cnt + 1) % LENGTH ELSE wc.data_cnt,
         cmd_cnt  |-> IF addCmd THEN (wc.cmd_cnt + 1) % LENGTH ELSE wc.cmd_cnt,
         done     |-> endCmd]

\* ddr3_rd_req is held from the start pulse to the acknowledge.
RdReqNext == ~ar.rd_ack /\ (st.start \/ rc.req)

\* ddr3_rd_ctrl: LENGTH commands; done follows the last data word.
RdCtrlStep(in) ==
  LET addCmd  == RdAddrReq(in)
      endCmd  == addCmd /\ rc.cmd_cnt = LENGTH - 1
      addData == RdValid(in)
      endData == addData /\ rc.data_cnt = LENGTH - 1
  IN  rc' =
        [state    |-> CASE rc.state = "IDLE"   -> IF st.start THEN "RD_REQ" ELSE "IDLE"
                        [] rc.state = "RD_REQ" -> IF ar.rd_ack THEN "READ" ELSE "RD_REQ"
                        [] rc.state = "READ"   -> IF endData THEN "IDLE" ELSE "READ",
         req      |-> RdReqNext,
         en       |-> ~endCmd /\ (ar.rd_ack \/ rc.en),
         data_cnt |-> IF addData THEN (rc.data_cnt + 1) % LENGTH ELSE rc.data_cnt,
         cmd_cnt  |-> IF addCmd THEN (rc.cmd_cnt + 1) % LENGTH ELSE rc.cmd_cnt,
         done     |-> endData]

\* Mutant of ArbitStep: a write grant does not last for its burst.
ArbitStepShort ==
  ar' =
    [state  |-> CASE ar.state = "IDLE"  -> "ARBIT"
                  [] ar.state = "ARBIT" -> IF wc.req THEN "WRITE"
                                           ELSE IF rc.req THEN "READ" ELSE "ARBIT"
                  [] ar.state = "WRITE" -> "ARBIT"
                  [] ar.state = "READ"  -> IF rc.done THEN "ARBIT" ELSE "READ",
     wr_ack |-> ar.state = "ARBIT" /\ wc.req,
     rd_ack |-> ar.state = "ARBIT" /\ ~wc.req /\ rc.req]

\* ddr3_arbit: the write request first; the grant lasts until the burst's
\* done pulse.
ArbitStep ==
  ar' =
    [state  |-> CASE ar.state = "IDLE"  -> "ARBIT"
                  [] ar.state = "ARBIT" -> IF wc.req THEN "WRITE"
                                           ELSE IF rc.req THEN "READ" ELSE "ARBIT"
                  [] ar.state = "WRITE" -> IF wc.done THEN "ARBIT" ELSE "WRITE"
                  [] ar.state = "READ"  -> IF rc.done THEN "ARBIT" ELSE "READ",
     wr_ack |-> ar.state = "ARBIT" /\ wc.req,
     rd_ack |-> ar.state = "ARBIT" /\ ~wc.req /\ rc.req]

\* la_ddr_ring_streamer: the register updates made in every state.  A NACK is
\* taken only while none is pending; another one is dropped.
StreamerBase(in) ==
  LET latch == in.nack # << >> /\ ~st.pending
  IN  [st EXCEPT !.start   = FALSE,
                 !.fail    = FALSE,
                 !.overrun = @ \/ OverrunNow,
                 !.pending = @ \/ latch,
                 !.abs     = IF latch THEN in.nack[1] * LENGTH ELSE @,
                 !.left    = IF latch THEN in.nack[2] * LENGTH ELSE @]

\* A burst being read: the address follows the commands, and the counter of
\* the burst's kind the data words.
StreamerRun(base, in, next) ==
  [base EXCEPT !.addr  = IF RdAddrReq(in) THEN @ + 1 ELSE @,
               !.state = IF rc.done THEN next ELSE @]

\* The request fell out of the window: report and drop it.
XFail(base) ==
  [base EXCEPT !.state = "R_IDLE", !.pending = FALSE, !.fail = TRUE]

StreamerNext(in) ==
  LET base == StreamerBase(in)
      word == IF RdValid(in) THEN 1 ELSE 0
  IN  CASE st.state = "R_IDLE" /\ st.pending ->
             IF ~RtxWindowOk
             THEN [base EXCEPT !.state = "X_FAIL"]
             ELSE IF FifoHasRoom
                  THEN [base EXCEPT !.state = "X_START", !.addr = RtxAddr]
                  ELSE base
        [] st.state = "R_IDLE" /\ ~st.pending ->
             IF BurstAvail /\ FifoHasRoom /\ in.credit
             THEN [base EXCEPT !.state = "R_START", !.addr = st.ptr]
             ELSE base
        [] st.state = "R_START" -> [base EXCEPT !.state = "R_RUN", !.start = TRUE]
        [] st.state = "R_RUN"   ->
             [StreamerRun(base, in, "R_NEXT") EXCEPT !.drained = @ + word]
        [] st.state = "R_NEXT"  ->
             [base EXCEPT !.state = "R_IDLE", !.ptr = Wrap(@ + LENGTH)]
        [] st.state = "X_START" -> [base EXCEPT !.state = "X_RUN", !.start = TRUE]
        [] st.state = "X_RUN"   ->
             [StreamerRun(base, in, "X_NEXT") EXCEPT !.abs = @ + word, !.left = @ - word]
        [] st.state = "X_NEXT"  ->
             [base EXCEPT !.state = "R_IDLE", !.pending = st.left # 0]
        [] st.state = "X_FAIL"  -> XFail(base)

NoEgress == [valid |-> FALSE, rtx |-> FALSE, data |-> NoWord, seq |-> 0]

\* The word in front of the egress FIFO, with the number of its packet.
EgressNext(in) ==
  CASE st.state = "R_RUN" /\ RdValid(in) ->
         [valid |-> TRUE, rtx |-> FALSE, data |-> RdData, seq |-> st.drained \div LENGTH]
    [] st.state = "X_RUN" /\ RdValid(in) ->
         [valid |-> TRUE, rtx |-> TRUE, data |-> RdData, seq |-> st.abs \div LENGTH]
    [] OTHER -> NoEgress

StreamerStep(in) == st' = StreamerNext(in) /\ f' = EgressNext(in)

\* The egress FIFO takes a word while it has a free place; the streamer does
\* not look at f_wr_ready.
FifoStep(in) ==
  depth' = depth + (IF f.valid /\ depth < FIFO_WORDS THEN 1 ELSE 0)
                 - (IF in.pop THEN 1 ELSE 0)

\* The MIG executes commands in the order of the port, each write with the
\* oldest data word.
MigStep(in) ==
  LET head   == Head(mig.cmds)
      write  == in.exec /\ head.op = "write"
      newCmd == IF AppEn /\ in.rdy THEN <<AppCmd>> ELSE << >>
      newDat == IF WrDataReq(in) THEN <<BankWord>> ELSE << >>
  IN  mig' =
        [mem  |-> IF write THEN [mig.mem EXCEPT ![head.addr] = Head(mig.data)]
                           ELSE mig.mem,
         cmds |-> (IF in.exec THEN Tail(mig.cmds) ELSE mig.cmds) \o newCmd,
         data |-> (IF write THEN Tail(mig.data) ELSE mig.data) \o newDat]

\* One rising edge of ui_clk.
Clock(in) ==
  /\ FillStep(in)
  /\ WriterStep(in)
  /\ WrCtrlStep(in)
  /\ RdCtrlStep(in)
  /\ ArbitStep
  /\ StreamerStep(in)
  /\ FifoStep(in)
  /\ MigStep(in)

Next == \E in \in Inputs : Clock(in)

Spec == Init /\ [][Next]_vars

\* ui_clk runs; the MIG takes an offered command and offered data in the end
\* and executes what it took; the network side empties the egress FIFO.
Fairness ==
  /\ WF_vars(Next)
  /\ WF_vars(\E in \in Inputs : in.rdy /\ Clock(in))
  /\ WF_vars(\E in \in Inputs : in.wdf /\ Clock(in))
  /\ WF_vars(\E in \in Inputs : in.exec /\ Clock(in))
  /\ WF_vars(\E in \in Inputs : in.pop /\ Clock(in))

FairSpec == Spec /\ Fairness

-----------------------------------------------------------------------------
\* Every register stays in its range.
TypeOK ==
  /\ captured \in 0 .. MaxWords
  /\ fill \in [seq : 0 .. 3, idx : 0 .. LENGTH - 1]
  /\ wr.state \in {"W_IDLE", "W_START", "W_RUN", "W_DONE"}
  /\ wr.out_idx \in 0 .. LENGTH - 1
  /\ wr.commit \in 0 .. 3
  /\ wr.ptr \in Addr
  /\ wc.state \in {"IDLE", "WR_REQ", "WRITE"}
  /\ rc.state \in {"IDLE", "RD_REQ", "READ"}
  /\ ar.state \in {"IDLE", "ARBIT", "WRITE", "READ"}
  /\ st.ptr \in Addr
  /\ depth \in 0 .. FIFO_WORDS

\* ddr3_arbit lets one side use the command port at a time: a read command
\* issued while the port's multiplexer stands on write would be counted by
\* ddr3_rd_ctrl and never reach the MIG.
OnePortUser == ~(wc.state = "WRITE" /\ (rc.en \/ rc.state = "READ"))

\* The start pulses of the writer and the streamer find their controllers
\* idle; a controller that is not would miss the pulse and the block would
\* wait for a done that never comes.
StartTaken ==
  /\ wr.start => wc.state = "IDLE" /\ ~wc.wren
  /\ st.start => rc.state = "IDLE" /\ ~rc.en

\* The word the memory has at a, once the queued writes are executed.
SettledWord(a) ==
  LET writes == {k \in DOMAIN mig.cmds : mig.cmds[k].op = "write"}
      hits   == {k \in writes : mig.cmds[k].addr = a}
      last   == CHOOSE k \in hits : \A j \in hits : j <= k
      place  == Cardinality({k \in writes : k <= last})
  IN  IF hits = {} THEN mig.mem[a]
      ELSE IF place <= Len(mig.data) THEN mig.data[place] ELSE NoWord

\* The words la_ddr_writer counts as committed are in the ring, each at its
\* own address, as far back as one burst short of the ring's size: no word is
\* stale, repeated or out of its place, whatever the stalls of the MIG.
CommittedInRing ==
  \A i \in 0 .. wr.written - 1 :
    i + Cap >= wr.written + LENGTH => SettledWord(i % Cap) = i

\* Drained data is the next words of the stream under their own packet
\* number, or ring_overrun is up by the time they leave: "We DETECT this
\* rather than silently emitting corrupted/rewound data".
DrainedRight ==
  f.valid /\ ~f.rtx =>
    \/ f.data = st.drained - 1 /\ f.seq = f.data \div LENGTH
    \/ st.overrun

\* A retransmitted word that is at least a burst inside the history window
\* is the word asked for.
RetransmitInsideRight ==
  f.valid /\ f.rtx /\ st.abs - 1 + Cap >= wr.written + LENGTH =>
    f.data = st.abs - 1 /\ f.seq = f.data \div LENGTH

\* la_ddr_ring_streamer checks the window so that a retransmitted word "exists
\* AND [is] not yet overwritten by the writer".
RetransmitRight ==
  f.valid /\ f.rtx => f.data = st.abs - 1

\* The one command port is used by one side at a time, and no start pulse is missed.
PortRight == TypeOK /\ OnePortUser /\ StartTaken

\* What the writer reports as in the ring is there, and what the streamer drains is the
\* stream or is reported as overrun.
RingRight == CommittedInRing /\ DrainedRight

\* A filled bank is committed: no handshake of the write path gets stuck.
BankCommitted == (Occupancy # 0) ~> (wr.state = "W_DONE")

\* A read burst that was started ends.
ReadCompletes ==
  (st.state \in {"R_START", "X_START"}) ~> (st.state \in {"R_NEXT", "X_NEXT"})

\* A latched NACK is answered by its packets or by nack_fail, and makes place
\* for the next one.
NackSettled == st.pending ~> ~st.pending

\* What was begun in the ring ends, however the memory controller stalls and the arbiter
\* decides: a filled bank is in the memory, a started read is over, a NACK is settled.
BurstsEnd == BankCommitted /\ ReadCompletes /\ NackSettled

\* The egress FIFO has a place for every word the streamer pushes, though
\* room is checked only before a burst is started.
NoEgressLoss == f.valid => depth < FIFO_WORDS

\* What is resent from inside the window is right and nothing that leaves is lost.
EgressRight == RetransmitInsideRight /\ NoEgressLoss
=============================================================================
