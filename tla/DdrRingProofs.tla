--------------------------- MODULE DdrRingProofs ---------------------------
(***************************************************************************)
(* The handshakes and the words of DdrRing.  The inductive invariant       *)
(* PortInv says, for every state of the two burst machines, where their    *)
(* controllers and the arbiter are and what the MIG still has queued for   *)
(* them; on top of it RingInv says which words of the stream the banks,    *)
(* the queued writes, the memory and the burst being read hold.            *)
(***************************************************************************)
EXTENDS DdrRing, ModFacts, FiniteSetTheorems, SequenceTheorems, TLAPS

-----------------------------------------------------------------------------
\* The inductive invariant.

WriterRegs ==
  [state : {"W_IDLE", "W_START", "W_RUN", "W_DONE"}, start : BOOLEAN, out_idx : 0 .. LENGTH - 1,
   commit : 0 .. 3, addr : Nat, ptr : Addr, written : Nat]

WrCtrlRegs ==
  [state : {"IDLE", "WR_REQ", "WRITE"}, req : BOOLEAN, wren : BOOLEAN,
   data_cnt : 0 .. LENGTH - 1, cmd_cnt : 0 .. LENGTH - 1, done : BOOLEAN]

RdCtrlRegs ==
  [state : {"IDLE", "RD_REQ", "READ"}, req : BOOLEAN, en : BOOLEAN,
   data_cnt : 0 .. LENGTH - 1, cmd_cnt : 0 .. LENGTH - 1, done : BOOLEAN]

ArbitRegs == [state : {"IDLE", "ARBIT", "WRITE", "READ"}, wr_ack : BOOLEAN, rd_ack : BOOLEAN]

StreamerRegs ==
  [state : {"R_IDLE", "R_START", "R_RUN", "R_NEXT", "X_START", "X_RUN", "X_NEXT", "X_FAIL"},
   start : BOOLEAN, addr : Nat, ptr : Addr, drained : Nat, overrun : BOOLEAN,
   pending : BOOLEAN, abs : Nat, left : Int, fail : BOOLEAN]

TypeInv ==
  /\ captured \in 0 .. MaxWords
  /\ fill \in [seq : 0 .. 3, idx : 0 .. LENGTH - 1]
  /\ bank \in [0 .. 1 -> [0 .. LENGTH - 1 -> Int]]
  /\ wr \in WriterRegs
  /\ wc \in WrCtrlRegs
  /\ rc \in RdCtrlRegs
  /\ ar \in ArbitRegs
  /\ st \in StreamerRegs
  /\ depth \in 0 .. FIFO_WORDS
  /\ mig.cmds \in Seq([op : {"write", "read"}, addr : Nat])
  /\ mig.data \in Seq(Int)

\* The write side: its controller has nothing to do, asks for the port, writes, or has
\* given its last command.
WriteQuiet ==
  /\ wc.state = "IDLE" /\ ~wc.req /\ ~wc.wren /\ ~wc.done
  /\ wc.cmd_cnt = 0 /\ wc.data_cnt = 0
  /\ ~ar.wr_ack /\ ar.state # "WRITE"

WriteAsked ==
  /\ wc.state = "WR_REQ" /\ wc.req /\ ~wc.wren /\ ~wc.done
  /\ wc.cmd_cnt = 0 /\ wc.data_cnt = 0
  /\ ar.wr_ack <=> ar.state = "WRITE"

WriteRuns ==
  /\ wc.state = "WRITE" /\ ~wc.req /\ ~wc.done
  /\ ~wc.wren => wc.data_cnt = 0
  /\ ~ar.wr_ack /\ ar.state = "WRITE"

WriteEnds ==
  /\ wc.state = "IDLE" /\ ~wc.req /\ wc.done /\ wc.cmd_cnt = 0
  /\ ~wc.wren => wc.data_cnt = 0
  /\ ~ar.wr_ack /\ ar.state = "WRITE"

WriteInv ==
  /\ wr.state # "W_RUN" => WriteQuiet /\ (wr.start <=> wr.state = "W_START")
  /\ wr.state = "W_RUN" => ~wr.start /\ (WriteAsked \/ WriteRuns \/ WriteEnds)
  /\ wr.state = "W_DONE" => ar.state = "ARBIT"

\* The read side.
Running == st.state \in {"R_RUN", "X_RUN"}

ReadQuiet ==
  /\ rc.state = "IDLE" /\ ~rc.req /\ ~rc.en /\ ~rc.done
  /\ rc.cmd_cnt = 0 /\ rc.data_cnt = 0
  /\ ~ar.rd_ack /\ ar.state # "READ"

ReadAsked ==
  /\ rc.state = "RD_REQ" /\ rc.req /\ ~rc.en /\ ~rc.done
  /\ rc.cmd_cnt = 0 /\ rc.data_cnt = 0
  /\ ar.rd_ack <=> ar.state = "READ"

ReadRuns ==
  /\ rc.state = "READ" /\ ~rc.req /\ ~rc.done
  /\ ~rc.en => rc.cmd_cnt = 0
  /\ ~ar.rd_ack /\ ar.state = "READ"

ReadEnds ==
  /\ rc.state = "IDLE" /\ ~rc.req /\ ~rc.en /\ rc.done
  /\ rc.cmd_cnt = 0 /\ rc.data_cnt = 0
  /\ ~ar.rd_ack /\ ar.state = "READ"

ReadInv ==
  /\ ~Running => ~st.start /\ ReadQuiet
  /\ Running => \/ st.start /\ ReadQuiet
                \/ ~st.start /\ (ReadAsked \/ ReadRuns \/ ReadEnds)

\* Commands and data words of the writer's burst that the MIG was given.
WrCmds == IF wc.state = "WRITE" THEN wc.cmd_cnt
          ELSE IF wc.done \/ wr.state = "W_DONE" THEN LENGTH ELSE 0
WrData == IF wc.wren THEN wc.data_cnt
          ELSE IF wc.state = "WRITE" \/ wc.done \/ wr.state = "W_DONE" THEN LENGTH ELSE 0

\* Commands the streamer's burst has given and words it has got.
RdCmds == IF rc.state = "READ" THEN (IF rc.en THEN rc.cmd_cnt ELSE LENGTH) ELSE 0
RdWords == IF rc.state = "READ" THEN rc.data_cnt ELSE 0

\* Queued writes come before queued reads, which are all of one burst.
QueuedReads == RdCmds - RdWords
QueuedWrites == Len(mig.cmds) - QueuedReads

QueueInv ==
  /\ QueuedReads >= 0 /\ QueuedWrites >= 0
  /\ Len(mig.cmds) <= MigDepth
  /\ \A k \in 1 .. Len(mig.cmds) : mig.cmds[k].op = "write" <=> k <= QueuedWrites
  /\ QueuedWrites - Len(mig.data) = WrCmds - WrData
  /\ WrCmds - WrData <= 1

PortInv == TypeInv /\ WriteInv /\ ReadInv /\ QueueInv

-----------------------------------------------------------------------------
\* What the constants are, without the products.
LEMMA Sizes ==
  /\ LENGTH \in Nat /\ LENGTH >= 1
  /\ Cap \in Nat /\ Cap >= LENGTH + LENGTH
  /\ FIFO_WORDS \in Nat /\ FIFO_WORDS > LENGTH + LENGTH
  /\ MigDepth \in Nat /\ MigDepth >= 1
  /\ MaxWords \in Nat
<1>1. LENGTH * RingBursts >= LENGTH * 2
  BY RingAssumption
<1> QED
  BY <1>1, RingAssumption DEF Cap

LEMMA PortInit == Init => PortInv
<1> SUFFICES ASSUME Init PROVE PortInv
  OBVIOUS
<1> USE Sizes
<1>1. TypeInv
  BY DEF Init, TypeInv, WriterRegs, WrCtrlRegs, RdCtrlRegs, ArbitRegs, StreamerRegs, Addr, NoWord
<1>2. WriteInv /\ ReadInv
  BY DEF Init, WriteInv, WriteQuiet, ReadInv, ReadQuiet, Running
<1>3. QueueInv
  BY DEF Init, QueueInv, QueuedReads, QueuedWrites, RdCmds, RdWords, WrCmds, WrData
<1> QED
  BY <1>1, <1>2, <1>3 DEF PortInv

-----------------------------------------------------------------------------
\* Every register keeps its type.

LEMMA ModType ==
  ASSUME NEW x \in Int, NEW M \in Nat, M >= 1
  PROVE  x % M \in Nat /\ x % M \in 0 .. M - 1
  OBVIOUS

LEMMA Either ==
  ASSUME NEW P, NEW x \in {FALSE, P}
  PROVE  x => P
  OBVIOUS

LEMMA InputsType ==
  ASSUME NEW in \in Inputs
  PROVE  /\ in.word => captured < MaxWords
         /\ in.nack = << >> \/ in.nack \in NackStarts \X NackCounts
         /\ in.rdy => AppEn /\ Len(mig.cmds) < MigDepth
         /\ in.exec => MigCanExec
         /\ in.pop => depth > 0
         /\ in.wdf \in {wc.wren /\ Owed > 0, wc.wren /\ Len(mig.data) < MigDepth}
<1>1. /\ in.word \in {FALSE, captured < MaxWords}
      /\ in.nack \in {<< >>} \cup (NackStarts \X NackCounts)
      /\ in.rdy \in {FALSE, AppEn /\ Len(mig.cmds) < MigDepth}
      /\ in.exec \in {FALSE, MigCanExec}
      /\ in.pop \in {FALSE, depth > 0}
      /\ in.wdf \in {wc.wren /\ Owed > 0, wc.wren /\ Len(mig.data) < MigDepth}
  BY DEF Inputs
<1> QED
  BY <1>1, Either, Zenon

LEMMA WriterType ==
  ASSUME wr \in WriterRegs, NEW in, WriterStep(in)
  PROVE  wr' \in WriterRegs
<1> USE Sizes
<1> DEFINE Regs(s, start, o, c, a, p, w) ==
             [state |-> s, start |-> start, out_idx |-> o, commit |-> c, addr |-> a, ptr |-> p, written |-> w]
<1>1. ASSUME NEW s \in {"W_IDLE", "W_START", "W_RUN", "W_DONE"}, NEW start \in BOOLEAN,
             NEW o \in 0 .. LENGTH - 1, NEW c \in 0 .. 3, NEW a \in Nat, NEW p \in Addr, NEW w \in Nat,
             wr' = Regs(s, start, o, c, a, p, w)
      PROVE  wr' \in WriterRegs
  BY <1>1 DEF WriterRegs
<1>2. CASE wr.state = "W_IDLE" /\ Occupancy # 0
  <2>1. wr' = [wr EXCEPT !.state = "W_START", !.start = TRUE, !.addr = wr.ptr, !.out_idx = 0]
    BY <1>2 DEF WriterStep
  <2>2. wr' = Regs("W_START", TRUE, 0, wr.commit, wr.ptr, wr.ptr, wr.written)
    BY <2>1, Zenon DEF WriterRegs
  <2> QED
    BY <2>2, <1>1 DEF WriterRegs, Addr
<1>3. CASE wr.state = "W_IDLE" /\ Occupancy = 0
  BY <1>3 DEF WriterStep, WriterRegs
<1>4. CASE wr.state = "W_START"
  BY <1>4 DEF WriterStep, WriterRegs
<1>5. CASE wr.state = "W_RUN"
  <2>1. (wr.out_idx + 1) % LENGTH \in 0 .. LENGTH - 1
    BY ModType DEF WriterRegs
  <2> DEFINE s == IF wc.done THEN "W_DONE" ELSE wr.state
             o == IF WrDataReq(in) THEN (wr.out_idx + 1) % LENGTH ELSE wr.out_idx
             a == IF WrAddrReq(in) THEN wr.addr + 1 ELSE wr.addr
  <2>2. wr' = [wr EXCEPT !.state = s, !.start = FALSE, !.out_idx = o, !.addr = a]
    BY <1>5 DEF WriterStep
  <2>3. wr' = Regs(s, FALSE, o, wr.commit, a, wr.ptr, wr.written)
    BY <2>2, Zenon DEF WriterRegs
  <2>4. s \in {"W_RUN", "W_DONE"} /\ o \in 0 .. LENGTH - 1 /\ a \in Nat
    BY <1>5, <2>1 DEF WriterRegs
  <2> HIDE DEF s, o, a
  <2> QED
    BY <2>3, <2>4, <1>1 DEF WriterRegs
<1>6. CASE wr.state = "W_DONE"
  <2>1. Wrap(wr.ptr + LENGTH) \in Addr
    BY DEF Wrap, Addr, WriterRegs
  <2>2. wr' = Regs("W_IDLE", FALSE, wr.out_idx, (wr.commit + 1) % 4, wr.addr, Wrap(wr.ptr + LENGTH), wr.written + LENGTH)
    BY <1>6, Zenon DEF WriterStep, WriterRegs
  <2> QED
    BY <2>1, <2>2, <1>1 DEF WriterRegs
<1> QED
  BY <1>2, <1>3, <1>4, <1>5, <1>6 DEF WriterRegs

LEMMA WrCtrlType ==
  ASSUME wc \in WrCtrlRegs, NEW in, WrCtrlStep(in)
  PROVE  wc' \in WrCtrlRegs
<1> USE Sizes
<1>1. wc' = [state |-> wc'.state, req |-> wc'.req, wren |-> wc'.wren,
             data_cnt |-> wc'.data_cnt, cmd_cnt |-> wc'.cmd_cnt, done |-> wc'.done]
  BY Zenon DEF WrCtrlStep
<1>2. wc'.state \in {"IDLE", "WR_REQ", "WRITE"}
  BY DEF WrCtrlStep, WrCtrlRegs
<1>3. /\ wc'.data_cnt = IF WrDataReq(in) THEN (wc.data_cnt + 1) % LENGTH ELSE wc.data_cnt
      /\ wc'.cmd_cnt = IF WrAddrReq(in) THEN (wc.cmd_cnt + 1) % LENGTH ELSE wc.cmd_cnt
  BY DEF WrCtrlStep
<1>4. wc'.data_cnt \in 0 .. LENGTH - 1 /\ wc'.cmd_cnt \in 0 .. LENGTH - 1
  <2>1. wc.data_cnt \in 0 .. LENGTH - 1 /\ wc.cmd_cnt \in 0 .. LENGTH - 1
    BY DEF WrCtrlRegs
  <2>2. /\ (wc.data_cnt + 1) % LENGTH \in 0 .. LENGTH - 1
        /\ (wc.cmd_cnt + 1) % LENGTH \in 0 .. LENGTH - 1
    BY <2>1, ModNext
  <2> QED
    BY <1>3, <2>1, <2>2, Zenon
<1>5. wc'.req \in BOOLEAN /\ wc'.wren \in BOOLEAN /\ wc'.done \in BOOLEAN
  BY DEF WrCtrlStep, WrReqNext
<1> QED
  BY <1>1, <1>2, <1>4, <1>5 DEF WrCtrlRegs

LEMMA RdCtrlType ==
  ASSUME rc \in RdCtrlRegs, NEW in, RdCtrlStep(in)
  PROVE  rc' \in RdCtrlRegs
<1> USE Sizes
<1>1. rc' = [state |-> rc'.state, req |-> rc'.req, en |-> rc'.en,
             data_cnt |-> rc'.data_cnt, cmd_cnt |-> rc'.cmd_cnt, done |-> rc'.done]
  BY Zenon DEF RdCtrlStep
<1>2. rc'.state \in {"IDLE", "RD_REQ", "READ"}
  BY DEF RdCtrlStep, RdCtrlRegs
<1>3. /\ rc'.data_cnt = IF RdValid(in) THEN (rc.data_cnt + 1) % LENGTH ELSE rc.data_cnt
      /\ rc'.cmd_cnt = IF RdAddrReq(in) THEN (rc.cmd_cnt + 1) % LENGTH ELSE rc.cmd_cnt
  BY DEF RdCtrlStep
<1>4. rc'.data_cnt \in 0 .. LENGTH - 1 /\ rc'.cmd_cnt \in 0 .. LENGTH - 1
  <2>1. rc.data_cnt \in 0 .. LENGTH - 1 /\ rc.cmd_cnt \in 0 .. LENGTH - 1
    BY DEF RdCtrlRegs
  <2>2. /\ (rc.data_cnt + 1) % LENGTH \in 0 .. LENGTH - 1
        /\ (rc.cmd_cnt + 1) % LENGTH \in 0 .. LENGTH - 1
    BY <2>1, ModNext
  <2> QED
    BY <1>3, <2>1, <2>2, Zenon
<1>5. rc'.req \in BOOLEAN /\ rc'.en \in BOOLEAN /\ rc'.done \in BOOLEAN
  BY DEF RdCtrlStep, RdReqNext
<1> QED
  BY <1>1, <1>2, <1>4, <1>5 DEF RdCtrlRegs

LEMMA ArbitType ==
  ASSUME ar \in ArbitRegs, ArbitStep
  PROVE  ar' \in ArbitRegs
<1>1. ar' = [state |-> ar'.state, wr_ack |-> ar'.wr_ack, rd_ack |-> ar'.rd_ack]
  BY Zenon DEF ArbitStep
<1>2. ar'.state \in {"IDLE", "ARBIT", "WRITE", "READ"}
  BY DEF ArbitStep, ArbitRegs
<1>3. ar'.wr_ack \in BOOLEAN /\ ar'.rd_ack \in BOOLEAN
  BY DEF ArbitStep
<1> QED
  BY <1>1, <1>2, <1>3 DEF ArbitRegs

LEMMA MigType ==
  ASSUME TypeInv, NEW in \in Inputs, MigStep(in)
  PROVE  /\ mig'.cmds \in Seq([op : {"write", "read"}, addr : Nat])
         /\ mig'.data \in Seq(Int)
<1> DEFINE Cmds == [op : {"write", "read"}, addr : Nat]
<1>1. mig.cmds \in Seq(Cmds) /\ mig.data \in Seq(Int)
  BY DEF TypeInv
<1>2. AppCmd \in Cmds
  BY DEF AppCmd, TypeInv, WriterRegs, StreamerRegs
<1>3. in.exec => mig.cmds # << >> /\ (Head(mig.cmds).op = "write" => mig.data # << >>)
  BY InputsType DEF MigCanExec
<1>4. WrDataReq(in) => BankWord \in Int
  <2>1. wr.commit % 2 \in 0 .. 1 /\ wr.out_idx \in 0 .. LENGTH - 1
    BY Sizes DEF TypeInv, WriterRegs
  <2> QED
    BY <2>1 DEF BankWord, TypeInv
<1>5. mig'.cmds = (IF in.exec THEN Tail(mig.cmds) ELSE mig.cmds)
                    \o (IF AppEn /\ in.rdy THEN <<AppCmd>> ELSE << >>)
  BY DEF MigStep
<1>6. mig'.data = (IF in.exec /\ Head(mig.cmds).op = "write" THEN Tail(mig.data) ELSE mig.data)
                    \o (IF WrDataReq(in) THEN <<BankWord>> ELSE << >>)
  BY DEF MigStep
<1> HIDE DEF Cmds
<1>7. (IF in.exec THEN Tail(mig.cmds) ELSE mig.cmds) \in Seq(Cmds)
  BY <1>1, <1>3
<1>8. (IF AppEn /\ in.rdy THEN <<AppCmd>> ELSE << >>) \in Seq(Cmds)
  BY <1>2
<1>9. (IF in.exec /\ Head(mig.cmds).op = "write" THEN Tail(mig.data) ELSE mig.data) \in Seq(Int)
  BY <1>1, <1>3
<1>10. (IF WrDataReq(in) THEN <<BankWord>> ELSE << >>) \in Seq(Int)
  BY <1>4
<1>11. mig'.cmds \in Seq(Cmds)
  BY <1>5, <1>7, <1>8
<1>12. mig'.data \in Seq(Int)
  BY <1>6, <1>9, <1>10
<1> QED
  BY <1>11, <1>12 DEF Cmds

LEMMA FillType ==
  ASSUME TypeInv, NEW in \in Inputs, FillStep(in)
  PROVE  /\ captured' \in 0 .. MaxWords
         /\ fill' \in [seq : 0 .. 3, idx : 0 .. LENGTH - 1]
         /\ bank' \in [0 .. 1 -> [0 .. LENGTH - 1 -> Int]]
<1> USE Sizes
<1>1. CASE Accept(in)
  <2>1. in.word /\ captured < MaxWords
    BY <1>1, InputsType DEF Accept
  <2>2. /\ bank' = [bank EXCEPT ![fill.seq % 2][fill.idx] = captured]
        /\ captured' = captured + 1
        /\ fill' = IF fill.idx = LENGTH - 1 THEN [seq |-> (fill.seq + 1) % 4, idx |-> 0]
                                          ELSE [fill EXCEPT !.idx = @ + 1]
    BY <1>1, Zenon DEF FillStep
  <2>3. fill' \in [seq : 0 .. 3, idx : 0 .. LENGTH - 1]
    <3>1. fill \in [seq : 0 .. 3, idx : 0 .. LENGTH - 1]
      BY DEF TypeInv
    <3>2. CASE fill.idx = LENGTH - 1
      BY <2>2, <3>1, <3>2
    <3>3. CASE fill.idx # LENGTH - 1
      BY <2>2, <3>1, <3>3
    <3> QED
      BY <3>2, <3>3
  <2>4. bank' \in [0 .. 1 -> [0 .. LENGTH - 1 -> Int]]
    <3>1. captured \in Int /\ bank \in [0 .. 1 -> [0 .. LENGTH - 1 -> Int]]
      BY DEF TypeInv
    <3> QED
      BY <2>2, <3>1
  <2>5. captured' \in 0 .. MaxWords
    <3>1. captured \in 0 .. MaxWords
      BY DEF TypeInv
    <3> QED
      BY <2>1, <2>2, <3>1
  <2> QED
    BY <2>3, <2>4, <2>5
<1>2. CASE ~Accept(in)
  BY <1>2 DEF FillStep, TypeInv
<1> QED
  BY <1>1, <1>2

LEMMA DepthType ==
  ASSUME depth \in 0 .. FIFO_WORDS, NEW in \in Inputs, FifoStep(in)
  PROVE  depth' \in 0 .. FIFO_WORDS
  BY Sizes, InputsType DEF FifoStep

LEMMA RtxAddrType ==
  ASSUME st.abs \in Nat
  PROVE  RtxAddr \in Addr
<1>1. st.abs \in Int /\ Cap \in Nat /\ Cap >= 1
  BY Sizes
<1>2. st.abs % Cap \in 0 .. Cap - 1
  BY <1>1, DivModBy
<1> QED
  BY <1>2 DEF RtxAddr, Addr

LEMMA NackType ==
  ASSUME NEW in \in Inputs, in.nack # << >>
  PROVE  in.nack[1] * LENGTH \in Nat /\ in.nack[2] * LENGTH \in Nat
<1>1. in.nack \in NackStarts \X NackCounts
  BY InputsType
<1>2. in.nack[1] \in Nat /\ in.nack[2] \in Nat
  BY <1>1, RingAssumption
<1> QED
  BY <1>2, Sizes

\* The registers of the streamer, one by one.
LEMMA StreamerType ==
  ASSUME st \in StreamerRegs, rc \in RdCtrlRegs, NEW in \in Inputs, StreamerStep(in)
  PROVE  st' \in StreamerRegs
<1> USE Sizes
<1> DEFINE base == StreamerBase(in)
<1>1. base \in StreamerRegs
  <2> DEFINE latch == in.nack # << >> /\ ~st.pending
             o == st.overrun \/ OverrunNow
             p == st.pending \/ latch
             a == IF latch THEN in.nack[1] * LENGTH ELSE st.abs
             l == IF latch THEN in.nack[2] * LENGTH ELSE st.left
  <2>1. base = [st EXCEPT !.start = FALSE, !.fail = FALSE, !.overrun = o, !.pending = p, !.abs = a, !.left = l]
    BY Zenon DEF StreamerBase
  <2>2. base = [state |-> st.state, start |-> FALSE, addr |-> st.addr, ptr |-> st.ptr, drained |-> st.drained,
                overrun |-> o, pending |-> p, abs |-> a, left |-> l, fail |-> FALSE]
    BY <2>1, Zenon DEF StreamerRegs
  <2>3. o \in BOOLEAN /\ p \in BOOLEAN
    BY DEF StreamerRegs
  <2>4. a \in Nat /\ l \in Int
    BY NackType DEF StreamerRegs
  <2> HIDE DEF base, o, p, a, l
  <2> QED
    BY <2>2, <2>3, <2>4 DEF StreamerRegs
<1> HIDE DEF base
<1>2. base.left \in Int /\ base.abs \in Nat /\ base.addr \in Nat /\ base.ptr \in Addr /\ base.drained \in Nat
  BY <1>1 DEF StreamerRegs
<1>3. st' = StreamerNext(in)
  BY DEF StreamerStep
<1>4. CASE st.state = "R_IDLE" /\ st.pending
  <2>1. RtxAddr \in Nat
    BY RtxAddrType DEF Addr, StreamerRegs
  <2>2. \/ st' = [base EXCEPT !.state = "X_FAIL"]
        \/ st' = [base EXCEPT !.state = "X_START", !.addr = RtxAddr]
        \/ st' = base
    BY <1>3, <1>4 DEF StreamerNext, base
  <2> QED
    BY <1>1, <2>1, <2>2 DEF StreamerRegs
<1>5. CASE st.state = "R_IDLE" /\ ~st.pending
  <2>1. \/ st' = [base EXCEPT !.state = "R_START", !.addr = st.ptr]
        \/ st' = base
    BY <1>3, <1>5 DEF StreamerNext, base
  <2>2. st.ptr \in Nat
    BY DEF StreamerRegs, Addr
  <2> QED
    BY <1>1, <2>1, <2>2 DEF StreamerRegs
<1> DEFINE word == IF RdValid(in) THEN 1 ELSE 0
           a == IF RdAddrReq(in) THEN base.addr + 1 ELSE base.addr
           s(next) == IF rc.done THEN next ELSE base.state
<1>6. word \in Nat /\ a \in Nat /\ -word \in Int
  BY <1>2
<1>7. CASE st.state = "R_RUN"
  <2>1. st' = [[base EXCEPT !.addr = a, !.state = s("R_NEXT")] EXCEPT !.drained = @ + word]
    BY <1>3, <1>7, Zenon DEF StreamerNext, base, StreamerRun
  <2>2. s("R_NEXT") \in {"R_RUN", "R_NEXT"}
    BY <1>7 DEF base, StreamerBase, StreamerRegs
  <2>3. base.drained + word \in Nat
    BY <1>2, <1>6
  <2> HIDE DEF a, s, word
  <2>4. st' = [base EXCEPT !.addr = a, !.state = s("R_NEXT"), !.drained = base.drained + word]
    BY <2>1, <1>1, Zenon DEF StreamerRegs
  <2>5. st' = [state |-> s("R_NEXT"), start |-> base.start, addr |-> a, ptr |-> base.ptr,
               drained |-> base.drained + word, overrun |-> base.overrun, pending |-> base.pending,
               abs |-> base.abs, left |-> base.left, fail |-> base.fail]
    BY <2>4, <1>1, Zenon DEF StreamerRegs
  <2> QED
    BY <1>1, <2>2, <2>3, <2>5, <1>6 DEF StreamerRegs
<1>8. CASE st.state = "X_RUN"
  <2>1. st' = [[base EXCEPT !.addr = a, !.state = s("X_NEXT")] EXCEPT !.abs = @ + word, !.left = @ - word]
    BY <1>3, <1>8, Zenon DEF StreamerNext, base, StreamerRun
  <2>2. s("X_NEXT") \in {"X_RUN", "X_NEXT"}
    BY <1>8 DEF base, StreamerBase, StreamerRegs
  <2>3. base.abs + word \in Nat /\ base.left - word \in Int
    BY <1>2, <1>6
  <2> HIDE DEF a, s, word
  <2>4. st' = [state |-> s("X_NEXT"), start |-> base.start, addr |-> a, ptr |-> base.ptr,
               drained |-> base.drained, overrun |-> base.overrun, pending |-> base.pending,
               abs |-> base.abs + word, left |-> base.left - word, fail |-> base.fail]
    BY <2>1, <1>1, Zenon DEF StreamerRegs
  <2> QED
    BY <1>1, <2>2, <2>3, <2>4, <1>6 DEF StreamerRegs
<1>9. CASE st.state \in {"R_START", "X_START", "X_FAIL", "R_NEXT", "X_NEXT"}
  <2>1. Wrap(base.ptr + LENGTH) \in Addr
    BY <1>2 DEF Wrap, Addr
  <2>2. CASE st' = [base EXCEPT !.state = "R_RUN", !.start = TRUE]
    BY <1>1, <2>2 DEF StreamerRegs
  <2>3. CASE st' = [base EXCEPT !.state = "X_RUN", !.start = TRUE]
    BY <1>1, <2>3 DEF StreamerRegs
  <2>4. CASE st' = [base EXCEPT !.state = "R_IDLE", !.ptr = Wrap(@ + LENGTH)]
    BY <1>1, <2>1, <2>4 DEF StreamerRegs
  <2>5. CASE st' = [base EXCEPT !.state = "R_IDLE", !.pending = st.left # 0]
    BY <1>1, <2>5 DEF StreamerRegs
  <2>6. CASE st' = [base EXCEPT !.state = "R_IDLE", !.pending = FALSE, !.fail = TRUE]
    BY <1>1, <2>6 DEF StreamerRegs
  <2> QED
    BY <1>3, <1>9, <2>2, <2>3, <2>4, <2>5, <2>6 DEF StreamerNext, base, XFail
<1> QED
  BY <1>4, <1>5, <1>7, <1>8, <1>9 DEF StreamerRegs

LEMMA TypeStep ==
  ASSUME TypeInv, [Next]_vars
  PROVE  TypeInv'
<1>1. ASSUME NEW in \in Inputs, Clock(in)
      PROVE  TypeInv'
  <2>1. /\ FillStep(in) /\ WriterStep(in) /\ WrCtrlStep(in) /\ RdCtrlStep(in) /\ ArbitStep
        /\ StreamerStep(in) /\ FifoStep(in) /\ MigStep(in)
    BY <1>1 DEF Clock
  <2>2. /\ wr \in WriterRegs /\ wc \in WrCtrlRegs /\ rc \in RdCtrlRegs
        /\ ar \in ArbitRegs /\ st \in StreamerRegs /\ depth \in 0 .. FIFO_WORDS
    BY DEF TypeInv
  <2>3. wr' \in WriterRegs /\ wc' \in WrCtrlRegs /\ rc' \in RdCtrlRegs /\ ar' \in ArbitRegs
    BY <2>1, <2>2, WriterType, WrCtrlType, RdCtrlType, ArbitType
  <2>4. st' \in StreamerRegs /\ depth' \in 0 .. FIFO_WORDS
    BY <2>1, <2>2, StreamerType, DepthType
  <2>5. /\ captured' \in 0 .. MaxWords
        /\ fill' \in [seq : 0 .. 3, idx : 0 .. LENGTH - 1]
        /\ bank' \in [0 .. 1 -> [0 .. LENGTH - 1 -> Int]]
    BY <2>1, FillType
  <2>6. /\ mig'.cmds \in Seq([op : {"write", "read"}, addr : Nat])
        /\ mig'.data \in Seq(Int)
    BY <2>1, MigType
  <2> QED
    BY <2>3, <2>4, <2>5, <2>6, Zenon DEF TypeInv
<1>2. CASE UNCHANGED vars
  BY <1>2, Zenon DEF vars, TypeInv
<1> QED
  BY <1>1, <1>2 DEF Next

-----------------------------------------------------------------------------
\* The queue of the MIG.

\* The counts are numbers.
LEMMA CountTypes ==
  ASSUME TypeInv
  PROVE  /\ WrCmds \in 0 .. LENGTH /\ WrData \in 0 .. LENGTH
         /\ RdCmds \in 0 .. LENGTH /\ RdWords \in 0 .. LENGTH - 1
         /\ QueuedReads \in Int /\ QueuedWrites \in Int
         /\ Len(mig.cmds) \in Nat /\ Len(mig.data) \in Nat
<1> USE Sizes
<1>1. /\ wc \in WrCtrlRegs /\ rc \in RdCtrlRegs
      /\ mig.cmds \in Seq([op : {"write", "read"}, addr : Nat]) /\ mig.data \in Seq(Int)
  BY DEF TypeInv
<1>2. WrCmds \in 0 .. LENGTH /\ WrData \in 0 .. LENGTH
  BY <1>1 DEF WrCtrlRegs, WrCmds, WrData
<1>3. RdCmds \in 0 .. LENGTH /\ RdWords \in 0 .. LENGTH - 1
  BY <1>1 DEF RdCtrlRegs, RdCmds, RdWords
<1>4. Len(mig.cmds) \in Nat /\ Len(mig.data) \in Nat
  BY <1>1
<1>5. QueuedReads \in Int
  BY <1>3 DEF QueuedReads
<1> QED
  BY <1>2, <1>3, <1>4, <1>5 DEF QueuedWrites

\* Taking the head of a queue (e = 1) or not, and adding an element (n = 1) or none.
Shift(s, a, e, n) == (IF e = 1 THEN Tail(s) ELSE s) \o (IF n = 1 THEN <<a>> ELSE << >>)

\* What is in q then.
Shifted(q, s, a, e, n) ==
  /\ Len(q) = Len(s) - e + n
  /\ \A k \in 1 .. Len(s) - e : q[k] = s[k + e]
  /\ n = 1 => q[Len(s) - e + 1] = a

LEMMA QueueShift ==
  ASSUME NEW S, NEW s \in Seq(S), NEW a \in S, NEW e \in 0 .. 1, NEW n \in 0 .. 1,
         e = 1 => s # << >>
  PROVE  Shifted(Shift(s, a, e, n), s, a, e, n)
<1> DEFINE r == IF e = 1 THEN Tail(s) ELSE s
           t == IF n = 1 THEN <<a>> ELSE << >>
           q == Shift(s, a, e, n)
<1>1. /\ r \in Seq(S) /\ Len(r) = Len(s) - e
      /\ \A k \in 1 .. Len(s) - e : r[k] = s[k + e]
  <2>1. CASE e = 1
    BY <2>1
  <2>2. CASE e = 0
    BY <2>2
  <2> QED
    BY <2>1, <2>2
<1>2. t \in Seq(S) /\ Len(t) = n /\ (n = 1 => t[1] = a)
  <2>1. CASE n = 1
    BY <2>1
  <2>2. CASE n = 0
    BY <2>2
  <2> QED
    BY <2>1, <2>2
<1>3. q = r \o t
  BY Zenon DEF Shift
<1> HIDE DEF r, t, q
<1>4. /\ Len(q) = Len(r) + Len(t)
      /\ \A k \in 1 .. Len(r) + Len(t) : q[k] = IF k <= Len(r) THEN r[k] ELSE t[k - Len(r)]
  <2>1. r \in Seq(S) /\ t \in Seq(S)
    BY <1>1, <1>2
  <2>2. /\ Len(r \o t) = Len(r) + Len(t)
        /\ \A k \in 1 .. Len(r) + Len(t) : (r \o t)[k] = IF k <= Len(r) THEN r[k] ELSE t[k - Len(r)]
    BY <2>1, ConcatProperties, Zenon
  <2> QED
    BY <1>3, <2>2, Zenon
<1>5. Len(q) = Len(s) - e + n
  BY <1>1, <1>2, <1>4
<1>6. Len(r) \in Nat /\ Len(t) \in Nat /\ Len(r) = Len(s) - e /\ Len(t) = n
  BY <1>1, <1>2
<1>7. ASSUME NEW k \in 1 .. Len(s) - e PROVE q[k] = s[k + e]
  <2>1. k \in 1 .. Len(r) + Len(t) /\ k <= Len(r)
    BY <1>6
  <2>2. q[k] = r[k]
    BY <1>4, <2>1
  <2> QED
    BY <1>1, <2>2
<1>8. ASSUME n = 1 PROVE q[Len(s) - e + 1] = a
  <2>1. n = 1 /\ t[1] = a
    BY <1>2, <1>8
  <2> DEFINE k == Len(r) + 1
  <2>2. /\ k \in 1 .. Len(r) + Len(t) /\ ~(k <= Len(r)) /\ k - Len(r) = 1 /\ k = Len(s) - e + 1
    BY <1>6, <2>1
  <2> HIDE DEF k
  <2>3. q[k] = t[k - Len(r)]
    BY <1>4, <2>2
  <2> QED
    BY <2>1, <2>2, <2>3
<1> QED
  BY <1>5, <1>7, <1>8 DEF q, Shifted

\* The queue in one cycle.
LEMMA CmdQueue ==
  ASSUME TypeInv, NEW in \in Inputs, MigStep(in),
         NEW e \in 0 .. 1, e = 1 <=> in.exec,
         NEW n \in 0 .. 1, n = 1 <=> WrAddrReq(in) \/ RdAddrReq(in)
  PROVE  Shifted(mig'.cmds, mig.cmds, AppCmd, e, n)
<1> DEFINE Cmds == [op : {"write", "read"}, addr : Nat]
<1>1. mig.cmds \in Seq(Cmds)
  BY DEF TypeInv
<1>2. AppCmd \in Cmds
  BY DEF AppCmd, TypeInv, WriterRegs, StreamerRegs
<1>3. e = 1 => mig.cmds # << >>
  BY InputsType DEF MigCanExec
<1>4. n = 1 <=> AppEn /\ in.rdy
  BY DEF WrAddrReq, RdAddrReq, AppEn
<1>5. mig'.cmds = Shift(mig.cmds, AppCmd, e, n)
  BY <1>4 DEF MigStep, Shift
<1> HIDE DEF Cmds
<1>6. Shifted(Shift(mig.cmds, AppCmd, e, n), mig.cmds, AppCmd, e, n)
  BY <1>1, <1>2, <1>3, QueueShift, Zenon
<1> QED
  BY <1>5, <1>6, Zenon

\* The head of the queue is a write or a read.
LEMMA HeadOp ==
  ASSUME TypeInv, NEW in \in Inputs, in.exec
  PROVE  /\ Len(mig.cmds) >= 1 /\ Head(mig.cmds) = mig.cmds[1]
         /\ RdValid(in) <=> mig.cmds[1].op # "write"
<1>1. mig.cmds # << >> /\ mig.cmds \in Seq([op : {"write", "read"}, addr : Nat])
  BY InputsType DEF MigCanExec, TypeInv
<1>2. Len(mig.cmds) >= 1 /\ Head(mig.cmds) = mig.cmds[1]
  BY <1>1
<1>3. mig.cmds[1] \in [op : {"write", "read"}, addr : Nat]
  <2> DEFINE Cmds == [op : {"write", "read"}, addr : Nat]
  <2>1. mig.cmds \in Seq(Cmds) /\ 1 \in 1 .. Len(mig.cmds)
    BY <1>1, <1>2
  <2> HIDE DEF Cmds
  <2>2. mig.cmds[1] \in Cmds
    BY <2>1, ElementOfSeq, Zenon
  <2> QED
    BY <2>2 DEF Cmds
<1>4. mig.cmds[1].op \in {"write", "read"}
  BY <1>3
<1> QED
  BY <1>2, <1>4 DEF RdValid

LEMMA DataQueue ==
  ASSUME TypeInv, NEW in \in Inputs, MigStep(in),
         NEW e \in 0 .. 1, e = 1 <=> in.exec /\ ~RdValid(in),
         NEW n \in 0 .. 1, n = 1 <=> WrDataReq(in)
  PROVE  /\ e = 1 => Len(mig.data) >= 1
         /\ Shifted(mig'.data, mig.data, BankWord, e, n)
<1> DEFINE w == IF n = 1 THEN BankWord ELSE 0
<1>1. mig.data \in Seq(Int)
  BY DEF TypeInv
<1>2. w \in Int
  <2>1. wr.commit % 2 \in 0 .. 1 /\ wr.out_idx \in 0 .. LENGTH - 1
    BY Sizes DEF TypeInv, WriterRegs
  <2>2. bank \in [0 .. 1 -> [0 .. LENGTH - 1 -> Int]]
    BY DEF TypeInv
  <2>3. BankWord \in Int
    BY <2>1, <2>2 DEF BankWord
  <2> QED
    BY <2>3
<1>3. in.exec => (RdValid(in) <=> Head(mig.cmds).op # "write")
  BY HeadOp
<1>4. e = 1 => mig.data # << >> /\ Len(mig.data) >= 1
  BY <1>1, <1>3, InputsType DEF MigCanExec
<1>5. mig'.data = Shift(mig.data, w, e, n)
  BY <1>3 DEF MigStep, Shift
<1>6. n = 1 => w = BankWord
  OBVIOUS
<1> HIDE DEF w
<1>7. Shifted(Shift(mig.data, w, e, n), mig.data, w, e, n)
  BY <1>1, <1>2, <1>4, QueueShift, Zenon
<1>8. Shifted(mig'.data, mig.data, w, e, n)
  BY <1>5, <1>7, Zenon
<1> QED
  BY <1>4, <1>6, <1>8 DEF Shifted

\* A read that is executed was queued by the streamer's burst, and a write by the
\* writer's.
LEMMA ExecQueued ==
  ASSUME TypeInv, QueueInv, NEW in \in Inputs, in.exec
  PROVE  /\ RdValid(in) => QueuedReads > 0 /\ QueuedWrites = 0
         /\ ~RdValid(in) => QueuedWrites > 0
<1>1. Len(mig.cmds) >= 1 /\ (RdValid(in) <=> mig.cmds[1].op # "write")
  BY HeadOp
<1>2. /\ mig.cmds[1].op = "write" <=> 1 <= QueuedWrites
      /\ QueuedWrites >= 0 /\ QueuedWrites = Len(mig.cmds) - QueuedReads
  <2>1. /\ \A k \in 1 .. Len(mig.cmds) : mig.cmds[k].op = "write" <=> k <= QueuedWrites
        /\ QueuedWrites >= 0 /\ QueuedWrites = Len(mig.cmds) - QueuedReads
    BY DEF QueueInv, QueuedWrites
  <2> QED
    BY <1>1, <2>1, CountTypes
<1>3. QueuedReads \in Int /\ QueuedWrites \in Int /\ Len(mig.cmds) \in Nat
  BY CountTypes
<1> QED
  BY <1>1, <1>2, <1>3

-----------------------------------------------------------------------------
\* The handshakes.

\* Every queued write beyond the data words lacks its data.
LEMMA OwedCount ==
  ASSUME TypeInv, QueueInv
  PROVE  Owed = QueuedWrites - Len(mig.data)
<1>1. /\ QueuedWrites \in Nat /\ QueuedWrites <= Len(mig.cmds)
      /\ Len(mig.cmds) \in Nat /\ Len(mig.data) \in Nat
  BY CountTypes DEF QueueInv, QueuedWrites
<1>2. DOMAIN mig.cmds = 1 .. Len(mig.cmds)
  BY DEF TypeInv
<1>3. \A k \in 1 .. Len(mig.cmds) : mig.cmds[k].op = "write" <=> k <= QueuedWrites
  BY DEF QueueInv
<1> DEFINE w == QueuedWrites
<1> HIDE DEF w
<1>4. {k \in DOMAIN mig.cmds : mig.cmds[k].op = "write"} = 1 .. w
  BY <1>1, <1>2, <1>3 DEF w
<1>5. Cardinality(1 .. w) = w
  BY <1>1, FS_Interval DEF w
<1> QED
  BY <1>4, <1>5 DEF Owed, w

\* The data word of the last write command is taken in the cycle after the command.
LEMMA DataForced ==
  ASSUME TypeInv, QueueInv, NEW in \in Inputs, wc.wren, WrCmds > WrData
  PROVE  WrDataReq(in)
<1>1. Owed = QueuedWrites - Len(mig.data)
  BY OwedCount
<1>2. Owed > 0 /\ Len(mig.data) < MigDepth
  <2>1. /\ QueuedWrites - Len(mig.data) = WrCmds - WrData
        /\ QueuedReads >= 0 /\ Len(mig.cmds) <= MigDepth
        /\ QueuedWrites = Len(mig.cmds) - QueuedReads
    BY DEF QueueInv, QueuedWrites
  <2>2. /\ WrCmds \in Int /\ WrData \in Int /\ QueuedReads \in Int
        /\ Len(mig.cmds) \in Nat /\ Len(mig.data) \in Nat /\ MigDepth \in Nat
    BY CountTypes, Sizes
  <2> DEFINE qw == QueuedWrites
             qr == QueuedReads
             d  == Len(mig.data)
             c  == Len(mig.cmds)
             x  == WrCmds
             y  == WrData
  <2>3. /\ qw - d = x - y /\ qr >= 0 /\ c <= MigDepth /\ qw = c - qr /\ x > y
        /\ x \in Int /\ y \in Int /\ qr \in Int /\ c \in Nat /\ d \in Nat /\ MigDepth \in Nat
    BY <2>1, <2>2
  <2> HIDE DEF qw, qr, d, c, x, y
  <2>4. qw - d > 0 /\ d < MigDepth
    BY <2>3
  <2> QED
    BY <1>1, <2>4 DEF qw, d
<1>3. in.wdf \in {wc.wren /\ Owed > 0, wc.wren /\ Len(mig.data) < MigDepth}
  BY InputsType
<1>4. in.wdf
  BY <1>2, <1>3, Zenon
<1> QED
  BY <1>4 DEF WrDataReq

\* What the writer, its controller and the arbiter do, register by register.
LEMMA WriteMoves ==
  ASSUME TypeInv, WriteInv, NEW in, Clock(in)
  PROVE  /\ wr.state = "W_IDLE" => wr'.state = (IF Occupancy # 0 THEN "W_START" ELSE "W_IDLE")
                                    /\ wr'.start = (Occupancy # 0)
         /\ wr.state = "W_START" => wr'.state = "W_RUN" /\ wr'.start = FALSE
         /\ wr.state = "W_RUN" => wr'.state = (IF wc.done THEN "W_DONE" ELSE "W_RUN") /\ wr'.start = FALSE
         /\ wr.state = "W_DONE" => wr'.state = "W_IDLE" /\ wr'.start = FALSE
         /\ wc.state = "IDLE" => wc'.state = IF wr.start THEN "WR_REQ" ELSE "IDLE"
         /\ wc.state = "WR_REQ" => wc'.state = IF ar.wr_ack THEN "WRITE" ELSE "WR_REQ"
         /\ wc.state = "WRITE" => wc'.state = IF wc'.done THEN "IDLE" ELSE "WRITE"
         /\ wc'.req = (~ar.wr_ack /\ (wr.start \/ wc.req))
         /\ wc'.wren = (ar.wr_ack \/ (wc.wren /\ ~(WrDataReq(in) /\ wc.data_cnt = LENGTH - 1)))
         /\ wc'.data_cnt = IF ~WrDataReq(in) THEN wc.data_cnt
                           ELSE IF wc.data_cnt = LENGTH - 1 THEN 0 ELSE wc.data_cnt + 1
         /\ wc'.cmd_cnt = IF ~WrAddrReq(in) THEN wc.cmd_cnt
                          ELSE IF wc.cmd_cnt = LENGTH - 1 THEN 0 ELSE wc.cmd_cnt + 1
         /\ wc'.done = (WrAddrReq(in) /\ wc.cmd_cnt = LENGTH - 1)
         /\ (WrDataReq(in) => wc.wren) /\ (WrAddrReq(in) => wc.state = "WRITE")
         /\ ar'.wr_ack = (ar.state = "ARBIT" /\ wc.req)
         /\ ar.state = "IDLE" => ar'.state = "ARBIT"
         /\ ar.state = "ARBIT" => ar'.state = IF wc.req THEN "WRITE" ELSE IF rc.req THEN "READ" ELSE "ARBIT"
         /\ ar.state = "WRITE" => ar'.state = IF wc.done THEN "ARBIT" ELSE "WRITE"
         /\ ar.state = "READ" => ar'.state = IF rc.done THEN "ARBIT" ELSE "READ"
<1> USE Sizes
<1>1. /\ WriterStep(in) /\ WrCtrlStep(in) /\ ArbitStep
      /\ wr \in WriterRegs /\ wc \in WrCtrlRegs /\ ar \in ArbitRegs
  BY DEF Clock, TypeInv
<1>2. /\ wr.state = "W_IDLE" => wr'.state = (IF Occupancy # 0 THEN "W_START" ELSE "W_IDLE")
                                 /\ wr'.start = (Occupancy # 0)
      /\ wr.state = "W_START" => wr'.state = "W_RUN" /\ wr'.start = FALSE
      /\ wr.state = "W_RUN" => wr'.state = (IF wc.done THEN "W_DONE" ELSE "W_RUN") /\ wr'.start = FALSE
      /\ wr.state = "W_DONE" => wr'.state = "W_IDLE" /\ wr'.start = FALSE
  BY <1>1 DEF WriterStep, WriterRegs, WriteInv
<1>3. /\ wc.state = "IDLE" => wc'.state = IF wr.start THEN "WR_REQ" ELSE "IDLE"
      /\ wc.state = "WR_REQ" => wc'.state = IF ar.wr_ack THEN "WRITE" ELSE "WR_REQ"
      /\ wc.state = "WRITE" => wc'.state = IF wc'.done THEN "IDLE" ELSE "WRITE"
      /\ wc'.req = (~ar.wr_ack /\ (wr.start \/ wc.req))
      /\ wc'.wren = (ar.wr_ack \/ (wc.wren /\ ~(WrDataReq(in) /\ wc.data_cnt = LENGTH - 1)))
      /\ wc'.data_cnt = IF WrDataReq(in) THEN (wc.data_cnt + 1) % LENGTH ELSE wc.data_cnt
      /\ wc'.cmd_cnt = IF WrAddrReq(in) THEN (wc.cmd_cnt + 1) % LENGTH ELSE wc.cmd_cnt
      /\ wc'.done = (WrAddrReq(in) /\ wc.cmd_cnt = LENGTH - 1)
  BY <1>1 DEF WrCtrlStep, WrReqNext
<1>4. /\ ar'.wr_ack = (ar.state = "ARBIT" /\ wc.req)
      /\ ar.state = "IDLE" => ar'.state = "ARBIT"
      /\ ar.state = "ARBIT" => ar'.state = IF wc.req THEN "WRITE" ELSE IF rc.req THEN "READ" ELSE "ARBIT"
      /\ ar.state = "WRITE" => ar'.state = IF wc.done THEN "ARBIT" ELSE "WRITE"
      /\ ar.state = "READ" => ar'.state = IF rc.done THEN "ARBIT" ELSE "READ"
  BY <1>1 DEF ArbitStep
<1>5. /\ (wc.data_cnt + 1) % LENGTH = IF wc.data_cnt = LENGTH - 1 THEN 0 ELSE wc.data_cnt + 1
      /\ (wc.cmd_cnt + 1) % LENGTH = IF wc.cmd_cnt = LENGTH - 1 THEN 0 ELSE wc.cmd_cnt + 1
  BY <1>1, ModNext DEF WrCtrlRegs
<1>6. (WrDataReq(in) => wc.wren) /\ (WrAddrReq(in) => wc.state = "WRITE")
  BY DEF WrDataReq, WrAddrReq
<1> QED
  BY <1>2, <1>3, <1>4, <1>5, <1>6, Zenon

\* What the states of the write side are made of.
LEMMA WriteTypes ==
  ASSUME TypeInv
  PROVE  /\ wc.state \in {"IDLE", "WR_REQ", "WRITE"} /\ wc.req \in BOOLEAN /\ wc.wren \in BOOLEAN
         /\ wc.done \in BOOLEAN /\ wr.start \in BOOLEAN /\ ar.wr_ack \in BOOLEAN
         /\ ar.state \in {"IDLE", "ARBIT", "WRITE", "READ"}
         /\ wr.state \in {"W_IDLE", "W_START", "W_RUN", "W_DONE"}
         /\ wc.data_cnt \in 0 .. LENGTH - 1 /\ wc.cmd_cnt \in 0 .. LENGTH - 1
         /\ LENGTH \in Nat /\ LENGTH >= 1
  BY Sizes DEF TypeInv, WriterRegs, WrCtrlRegs, ArbitRegs

LEMMA DataCounted ==
  ASSUME TypeInv, WriteInv, NEW in, Clock(in), ~ar.wr_ack
  PROVE  (IF wc'.wren THEN wc'.data_cnt ELSE LENGTH)
           = (IF wc.wren THEN wc.data_cnt ELSE LENGTH) + (IF WrDataReq(in) THEN 1 ELSE 0)
<1>1. /\ wc'.wren <=> wc.wren /\ ~(WrDataReq(in) /\ wc.data_cnt = LENGTH - 1)
      /\ wc'.data_cnt = IF ~WrDataReq(in) THEN wc.data_cnt
                        ELSE IF wc.data_cnt = LENGTH - 1 THEN 0 ELSE wc.data_cnt + 1
      /\ WrDataReq(in) => wc.wren
  BY WriteMoves
<1>2. wc.data_cnt \in 0 .. LENGTH - 1 /\ LENGTH \in Nat
  BY WriteTypes
<1>3. CASE WrDataReq(in)
  BY <1>1, <1>2, <1>3
<1>4. CASE ~WrDataReq(in)
  BY <1>1, <1>2, <1>4
<1> QED
  BY <1>3, <1>4

\* The writer's commands and data words, one by one.
LEMMA WrCounts ==
  ASSUME TypeInv, WriteInv, QueueInv, NEW in \in Inputs, Clock(in)
  PROVE  /\ wr.state = "W_DONE" =>
               /\ WrCmds = LENGTH /\ WrData = LENGTH /\ ~WrAddrReq(in) /\ ~WrDataReq(in)
               /\ WrCmds' = 0 /\ WrData' = 0
         /\ wr.state # "W_DONE" =>
               /\ WrCmds' = WrCmds + (IF WrAddrReq(in) THEN 1 ELSE 0)
               /\ WrData' = WrData + (IF WrDataReq(in) THEN 1 ELSE 0)
<1>1. CASE wr.state # "W_RUN"
  <2>1. WriteQuiet
    BY <1>1 DEF WriteInv
  <2>2. ~WrAddrReq(in) /\ ~WrDataReq(in)
    BY <2>1, WriteMoves DEF WriteQuiet
  <2>3. wc'.state # "WRITE" /\ ~wc'.wren /\ ~wc'.done
    BY <2>1, <2>2, WriteMoves DEF WriteQuiet
  <2>4. wr'.state # "W_DONE"
    BY <1>1, WriteMoves, WriteTypes
  <2>5. WrCmds' = 0 /\ WrData' = 0
    BY <2>3, <2>4 DEF WrCmds, WrData
  <2>6. /\ wr.state = "W_DONE" => WrCmds = LENGTH /\ WrData = LENGTH
        /\ wr.state # "W_DONE" => WrCmds = 0 /\ WrData = 0
    BY <2>1 DEF WriteQuiet, WrCmds, WrData
  <2> QED
    BY <2>2, <2>5, <2>6
<1>2. CASE wr.state = "W_RUN"
  <2>1. WriteAsked \/ WriteRuns \/ WriteEnds
    BY <1>2 DEF WriteInv
  <2>2. CASE WriteAsked
    <3>1. ~WrAddrReq(in) /\ ~WrDataReq(in) /\ WrCmds = 0 /\ WrData = 0
      BY <1>2, <2>2, WriteMoves DEF WriteAsked, WrCmds, WrData
    <3>2. wr'.state = "W_RUN" /\ ~wc'.done /\ wc'.cmd_cnt = 0 /\ wc'.data_cnt = 0
      BY <1>2, <2>2, <3>1, WriteMoves DEF WriteAsked
    <3>3. wc'.wren = ar.wr_ack /\ (wc'.state = "WRITE" <=> ar.wr_ack)
      BY <1>2, <2>2, <3>1, WriteMoves, WriteTypes DEF WriteAsked
    <3>4. WrCmds' = 0 /\ WrData' = 0
      BY <3>2, <3>3 DEF WrCmds, WrData
    <3> QED
      BY <1>2, <3>1, <3>4
  <2>3. CASE WriteRuns
    <3>1. /\ wc.state = "WRITE" /\ ~ar.wr_ack /\ wr'.state = "W_RUN"
          /\ WrCmds = wc.cmd_cnt
          /\ WrData = IF wc.wren THEN wc.data_cnt ELSE LENGTH
      BY <1>2, <2>3, WriteMoves DEF WriteRuns, WrCmds, WrData
    <3>2. WrCmds' = wc.cmd_cnt + (IF WrAddrReq(in) THEN 1 ELSE 0)
      <4>1. /\ wc'.done <=> WrAddrReq(in) /\ wc.cmd_cnt = LENGTH - 1
            /\ wc'.state = IF wc'.done THEN "IDLE" ELSE "WRITE"
            /\ wc'.cmd_cnt = IF ~WrAddrReq(in) THEN wc.cmd_cnt
                             ELSE IF wc.cmd_cnt = LENGTH - 1 THEN 0 ELSE wc.cmd_cnt + 1
        BY <3>1, WriteMoves
      <4>2. CASE wc'.done
        <5>1. WrCmds' = LENGTH
          BY <4>1, <4>2 DEF WrCmds
        <5> QED
          BY <4>1, <4>2, <5>1, WriteTypes
      <4>3. CASE ~wc'.done
        <5>1. WrCmds' = wc'.cmd_cnt
          BY <4>1, <4>3 DEF WrCmds
        <5> QED
          BY <4>1, <4>3, <5>1, WriteTypes
      <4> QED
        BY <4>2, <4>3
    <3>3. wc'.state = "WRITE" \/ wc'.done
      BY <3>1, WriteMoves
    <3>4. WrData' = WrData + (IF WrDataReq(in) THEN 1 ELSE 0)
      <4>1. WrData' = IF wc'.wren THEN wc'.data_cnt ELSE LENGTH
        BY <3>3 DEF WrData
      <4> QED
        BY <3>1, <4>1, DataCounted
    <3> QED
      BY <1>2, <3>1, <3>2, <3>4
  <2>4. CASE WriteEnds
    <3>1. /\ wc.state = "IDLE" /\ wc.done /\ wr'.state = "W_DONE" /\ ~wc'.done /\ wc'.state # "WRITE"
          /\ WrCmds = LENGTH /\ ~WrAddrReq(in) /\ ~ar.wr_ack
          /\ WrData = IF wc.wren THEN wc.data_cnt ELSE LENGTH
      BY <1>2, <2>4, WriteMoves DEF WriteEnds, WriteInv, WrCmds, WrData
    <3>2. WrCmds' = LENGTH
      BY <3>1 DEF WrCmds
    <3>3. WrData' = WrData + (IF WrDataReq(in) THEN 1 ELSE 0)
      <4>1. WrData' = IF wc'.wren THEN wc'.data_cnt ELSE LENGTH
        BY <3>1 DEF WrData
      <4> QED
        BY <3>1, <4>1, DataCounted
    <3> QED
      BY <1>2, <3>1, <3>2, <3>3, Sizes
  <2> QED
    BY <2>1, <2>2, <2>3, <2>4
<1> QED
  BY <1>1, <1>2

LEMMA WriteStep ==
  ASSUME TypeInv, WriteInv, QueueInv, NEW in \in Inputs, Clock(in)
  PROVE  WriteInv'
<1>1. CASE wr.state # "W_RUN"
  <2>1. WriteQuiet /\ (wr.start <=> wr.state = "W_START")
    BY <1>1 DEF WriteInv
  <2>2. CASE wr.state = "W_START"
    BY <2>1, <2>2, WriteMoves, WriteTypes DEF WriteInv, WriteQuiet, WriteAsked
  <2>3. CASE wr.state # "W_START"
    BY <1>1, <2>1, <2>3, WriteMoves, WriteTypes DEF WriteInv, WriteQuiet
  <2> QED
    BY <2>2, <2>3
<1>2. CASE wr.state = "W_RUN"
  <2>1. ~wr.start /\ (WriteAsked \/ WriteRuns \/ WriteEnds)
    BY <1>2 DEF WriteInv
  <2>2. CASE WriteAsked
    BY <1>2, <2>1, <2>2, WriteMoves, WriteTypes DEF WriteInv, WriteAsked, WriteRuns
  <2>3. CASE WriteRuns
    BY <1>2, <2>1, <2>3, WriteMoves, WriteTypes DEF WriteInv, WriteEnds, WriteRuns
  <2>4. CASE WriteEnds
    <3>1. wc.wren => WrDataReq(in) /\ wc.data_cnt = LENGTH - 1
      <4>1. SUFFICES ASSUME wc.wren PROVE WrDataReq(in) /\ wc.data_cnt = LENGTH - 1
        OBVIOUS
      <4>2. WrCmds = LENGTH /\ WrData = wc.data_cnt
        BY <2>4, <4>1 DEF WriteEnds, WrCmds, WrData
      <4>3. WrCmds > WrData
        BY <4>2, WriteTypes
      <4>4. WrDataReq(in)
        BY <4>1, <4>3, DataForced
      <4> QED
        BY <4>2, <4>4, WriteTypes DEF QueueInv
    <3>2. /\ wc.state = "IDLE" /\ ~wc.req /\ wc.done /\ wc.cmd_cnt = 0 /\ ~wr.start
          /\ ~wc.wren => wc.data_cnt = 0
          /\ ~ar.wr_ack /\ ar.state = "WRITE"
      BY <2>1, <2>4 DEF WriteEnds
    <3>3. wr'.state = "W_DONE" /\ ~wr'.start /\ ar'.state = "ARBIT" /\ ~ar'.wr_ack
      BY <1>2, <3>2, WriteMoves
    <3>4. wc'.state = "IDLE" /\ ~wc'.req /\ ~wc'.done /\ wc'.cmd_cnt = 0
      BY <3>2, WriteMoves
    <3>5. ~wc'.wren /\ wc'.data_cnt = 0
      BY <3>1, <3>2, WriteMoves
    <3> QED
      BY <3>3, <3>4, <3>5 DEF WriteInv, WriteQuiet
  <2> QED
    BY <2>1, <2>2, <2>3, <2>4
<1> QED
  BY <1>1, <1>2

\* The streamer's registers that every state updates.
LEMMA BaseFields ==
  ASSUME st \in StreamerRegs, NEW in
  PROVE  LET base  == StreamerBase(in)
             latch == in.nack # << >> /\ ~st.pending
         IN  /\ base.state = st.state /\ base.start = FALSE /\ base.addr = st.addr
             /\ base.ptr = st.ptr /\ base.drained = st.drained
             /\ base.overrun = (st.overrun \/ OverrunNow)
             /\ base.pending = (st.pending \/ latch)
             /\ base.abs = (IF latch THEN in.nack[1] * LENGTH ELSE st.abs)
             /\ base.left = (IF latch THEN in.nack[2] * LENGTH ELSE st.left)
             /\ DOMAIN base = DOMAIN st
  BY DEF StreamerBase, StreamerRegs

\* Which burst the streamer is in, and its start pulse.
LEMMA StreamerMoves ==
  ASSUME st \in StreamerRegs, NEW in, StreamerStep(in)
  PROVE  /\ st.state = "R_IDLE" =>
               st'.state \in {"R_IDLE", "R_START", "X_START", "X_FAIL"} /\ st'.start = FALSE
         /\ st.state = "R_START" => st'.state = "R_RUN" /\ st'.start = TRUE
         /\ st.state = "X_START" => st'.state = "X_RUN" /\ st'.start = TRUE
         /\ st.state = "R_RUN" =>
               st'.state = (IF rc.done THEN "R_NEXT" ELSE "R_RUN") /\ st'.start = FALSE
         /\ st.state = "X_RUN" =>
               st'.state = (IF rc.done THEN "X_NEXT" ELSE "X_RUN") /\ st'.start = FALSE
         /\ st.state \in {"R_NEXT", "X_NEXT", "X_FAIL"} =>
               st'.state = "R_IDLE" /\ st'.start = FALSE
<1> DEFINE base == StreamerBase(in)
<1>1. /\ base.state = st.state /\ base.start = FALSE /\ DOMAIN base = DOMAIN st
  BY BaseFields, Zenon
<1>2. DOMAIN st = {"state", "start", "addr", "ptr", "drained", "overrun", "pending", "abs", "left", "fail"}
  BY DEF StreamerRegs
<1>3. st' = StreamerNext(in)
  BY DEF StreamerStep
<1> HIDE DEF base
<1>4. CASE st.state = "R_IDLE"
  BY <1>1, <1>2, <1>3, <1>4 DEF StreamerNext, base
<1>5. CASE st.state = "R_START" \/ st.state = "X_START"
  BY <1>1, <1>2, <1>3, <1>5 DEF StreamerNext, base
<1>6. CASE st.state = "R_RUN"
  BY <1>1, <1>2, <1>3, <1>6 DEF StreamerNext, StreamerRun, base
<1>7. CASE st.state = "X_RUN"
  BY <1>1, <1>2, <1>3, <1>7 DEF StreamerNext, StreamerRun, base
<1>8. CASE st.state \in {"R_NEXT", "X_NEXT", "X_FAIL"}
  BY <1>1, <1>2, <1>3, <1>8 DEF StreamerNext, XFail, base
<1> QED
  BY <1>4, <1>5, <1>6, <1>7, <1>8 DEF StreamerRegs

LEMMA ReadStep ==
  ASSUME TypeInv, WriteInv, ReadInv, QueueInv, NEW in \in Inputs, Clock(in)
  PROVE  ReadInv'
<1> USE Sizes
<1>1. /\ StreamerStep(in) /\ RdCtrlStep(in) /\ ArbitStep
      /\ st \in StreamerRegs /\ rc \in RdCtrlRegs /\ ar \in ArbitRegs
      /\ wc \in WrCtrlRegs
  BY DEF Clock, TypeInv
<1>2. /\ Running => (Running' <=> ~rc.done) /\ st'.start = FALSE
      /\ ~Running => (Running' <=> st'.start) /\ st'.start \in BOOLEAN
  BY <1>1, StreamerMoves DEF Running, StreamerRegs
<1>3. /\ rc.state = "IDLE" => rc'.state = IF st.start THEN "RD_REQ" ELSE "IDLE"
      /\ rc.state = "RD_REQ" => rc'.state = IF ar.rd_ack THEN "READ" ELSE "RD_REQ"
      /\ rc.state = "READ" => rc'.state = IF rc'.done THEN "IDLE" ELSE "READ"
      /\ rc'.req = (~ar.rd_ack /\ (st.start \/ rc.req))
      /\ rc'.en = (~(RdAddrReq(in) /\ rc.cmd_cnt = LENGTH - 1) /\ (ar.rd_ack \/ rc.en))
      /\ rc'.data_cnt = IF RdValid(in) THEN (rc.data_cnt + 1) % LENGTH ELSE rc.data_cnt
      /\ rc'.cmd_cnt = IF RdAddrReq(in) THEN (rc.cmd_cnt + 1) % LENGTH ELSE rc.cmd_cnt
      /\ rc'.done = (RdValid(in) /\ rc.data_cnt = LENGTH - 1)
  BY <1>1 DEF RdCtrlStep, RdReqNext
<1>4. /\ ar'.rd_ack = (ar.state = "ARBIT" /\ ~wc.req /\ rc.req)
      /\ ar.state = "IDLE" => ar'.state = "ARBIT"
      /\ ar.state = "ARBIT" => ar'.state = IF wc.req THEN "WRITE" ELSE IF rc.req THEN "READ" ELSE "ARBIT"
      /\ ar.state = "WRITE" => ar'.state = IF wc.done THEN "ARBIT" ELSE "WRITE"
      /\ ar.state = "READ" => ar'.state = IF rc.done THEN "ARBIT" ELSE "READ"
  BY <1>1 DEF ArbitStep
<1>5. /\ (rc.data_cnt + 1) % LENGTH = IF rc.data_cnt = LENGTH - 1 THEN 0 ELSE rc.data_cnt + 1
      /\ (rc.cmd_cnt + 1) % LENGTH = IF rc.cmd_cnt = LENGTH - 1 THEN 0 ELSE rc.cmd_cnt + 1
  BY <1>1, ModNext DEF RdCtrlRegs
<1>6. /\ rc.state \in {"IDLE", "RD_REQ", "READ"} /\ rc.req \in BOOLEAN /\ rc.en \in BOOLEAN /\ rc.done \in BOOLEAN
      /\ ar.state \in {"IDLE", "ARBIT", "WRITE", "READ"} /\ ar.rd_ack \in BOOLEAN
      /\ st.start \in BOOLEAN /\ wc.req \in BOOLEAN
      /\ rc.data_cnt \in 0 .. LENGTH - 1 /\ rc.cmd_cnt \in 0 .. LENGTH - 1
  BY <1>1 DEF StreamerRegs, RdCtrlRegs, ArbitRegs, WrCtrlRegs
<1>7. RdAddrReq(in) => rc.en
  BY DEF RdAddrReq
<1>8. RdValid(in) => QueuedReads > 0
  BY ExecQueued DEF RdValid
<1>9. /\ QueuedReads = RdCmds - RdWords
       /\ RdCmds = (IF rc.state = "READ" THEN (IF rc.en THEN rc.cmd_cnt ELSE LENGTH) ELSE 0)
       /\ RdWords = (IF rc.state = "READ" THEN rc.data_cnt ELSE 0)
  BY DEF QueuedReads, RdCmds, RdWords
<1>10. CASE ~Running
  <2>1. ~st.start /\ ReadQuiet
    BY <1>10 DEF ReadInv
  <2> QED
    BY <1>2, <1>3, <1>4, <1>6, <1>7, <1>8, <1>10, <1>9, <2>1 DEF ReadInv, ReadQuiet
<1>11. CASE Running
  <2>1. CASE st.start /\ ReadQuiet
    <3>1. /\ rc.state = "IDLE" /\ ~rc.en /\ ~rc.req /\ ~rc.done /\ ~ar.rd_ack /\ ar.state # "READ"
          /\ rc.cmd_cnt = 0 /\ rc.data_cnt = 0 /\ QueuedReads = 0 /\ st.start
      BY <1>9, <2>1 DEF ReadQuiet
    <3>2. Running' /\ ~st'.start
      BY <1>2, <1>11, <3>1
    <3>3. ~RdValid(in) /\ ~RdAddrReq(in)
      BY <1>7, <1>8, <3>1
    <3>4. rc'.state = "RD_REQ" /\ rc'.req /\ ~rc'.en /\ ~rc'.done /\ rc'.cmd_cnt = 0 /\ rc'.data_cnt = 0
      BY <1>3, <3>1, <3>3
    <3>5. ~ar'.rd_ack /\ ar'.state # "READ"
      BY <1>4, <1>6, <3>1
    <3> QED
      BY <3>2, <3>4, <3>5 DEF ReadInv, ReadAsked
  <2>2. CASE ~st.start /\ ReadAsked
    <3>1. /\ rc.state = "RD_REQ" /\ rc.req /\ ~rc.en /\ ~rc.done /\ ~st.start
          /\ rc.cmd_cnt = 0 /\ rc.data_cnt = 0 /\ QueuedReads = 0
          /\ ar.rd_ack <=> ar.state = "READ"
      BY <1>9, <2>2 DEF ReadAsked
    <3>2. Running' /\ ~st'.start
      BY <1>2, <1>11, <3>1
    <3>3. ~RdValid(in) /\ ~RdAddrReq(in)
      BY <1>7, <1>8, <3>1
    <3>4. ~rc'.done /\ rc'.cmd_cnt = 0 /\ rc'.data_cnt = 0
      BY <1>3, <3>1, <3>3
    <3>5. CASE ar.rd_ack
      <4>1. rc'.state = "READ" /\ ~rc'.req /\ rc'.en
        BY <1>3, <1>7, <3>1, <3>5
      <4>2. ~ar'.rd_ack /\ ar'.state = "READ"
        BY <1>4, <3>1, <3>5
      <4> QED
        BY <3>2, <3>4, <4>1, <4>2 DEF ReadInv, ReadRuns
    <3>6. CASE ~ar.rd_ack
      <4>1. rc'.state = "RD_REQ" /\ rc'.req /\ ~rc'.en
        BY <1>3, <1>7, <3>1, <3>6
      <4>2. ar'.rd_ack <=> ar'.state = "READ"
        BY <1>4, <1>6, <3>1, <3>6
      <4> QED
        BY <3>2, <3>4, <4>1, <4>2 DEF ReadInv, ReadAsked
    <3> QED
      BY <3>5, <3>6, <1>6
  <2>3. CASE ~st.start /\ ReadRuns
    <3>1. /\ rc.state = "READ" /\ ~rc.req /\ ~rc.done /\ ~st.start
          /\ ~rc.en => rc.cmd_cnt = 0
          /\ ~ar.rd_ack /\ ar.state = "READ"
      BY <2>3 DEF ReadRuns
    <3>2. Running' /\ ~st'.start /\ ~rc'.req /\ ~ar'.rd_ack /\ ar'.state = "READ"
      BY <1>2, <1>3, <1>4, <1>11, <3>1
    <3>3. ~rc'.en => rc'.cmd_cnt = 0
      BY <1>3, <1>5, <1>7, <3>1
    <3>4. CASE rc'.done
      <4>1. rc.data_cnt = LENGTH - 1 /\ QueuedReads > 0 /\ RdValid(in)
        BY <1>3, <1>8, <3>4
      <4>2. ~rc.en
        BY <1>6, <1>9, <3>1, <4>1
      <4>3. rc'.state = "IDLE" /\ ~rc'.en /\ rc'.data_cnt = 0
        BY <1>3, <1>5, <3>1, <3>4, <4>1, <4>2
      <4> QED
        BY <3>2, <3>3, <3>4, <4>3 DEF ReadInv, ReadEnds
    <3>5. CASE ~rc'.done
      <4>1. rc'.state = "READ"
        BY <1>3, <3>1, <3>5
      <4> QED
        BY <3>2, <3>3, <3>5, <4>1 DEF ReadInv, ReadRuns
    <3> QED
      BY <3>4, <3>5
  <2>4. CASE ~st.start /\ ReadEnds
    BY <1>2, <1>3, <1>4, <1>5, <1>6, <1>7, <1>8, <1>11, <1>9, <2>4 DEF ReadInv, ReadEnds, ReadQuiet
  <2> QED
    BY <1>11, <2>1, <2>2, <2>3, <2>4 DEF ReadInv
<1> QED
  BY <1>10, <1>11

\* The commands and words of a burst being read, one by one.
LEMMA RdCounts ==
  ASSUME TypeInv, ReadInv, QueueInv, NEW in \in Inputs, Clock(in)
  PROVE  QueuedReads' = QueuedReads + (IF RdAddrReq(in) THEN 1 ELSE 0)
                                    - (IF RdValid(in) THEN 1 ELSE 0)
<1>1. RdCtrlStep(in) /\ rc \in RdCtrlRegs
  BY DEF Clock, TypeInv
<1>2. /\ rc.state = "IDLE" => rc'.state = IF st.start THEN "RD_REQ" ELSE "IDLE"
      /\ rc.state = "RD_REQ" => rc'.state = IF ar.rd_ack THEN "READ" ELSE "RD_REQ"
      /\ rc.state = "READ" => rc'.state = IF rc'.done THEN "IDLE" ELSE "READ"
      /\ rc'.en <=> ~(RdAddrReq(in) /\ rc.cmd_cnt = LENGTH - 1) /\ (ar.rd_ack \/ rc.en)
      /\ rc'.done <=> RdValid(in) /\ rc.data_cnt = LENGTH - 1
  BY <1>1 DEF RdCtrlStep
<1>3. rc.data_cnt \in 0 .. LENGTH - 1 /\ rc.cmd_cnt \in 0 .. LENGTH - 1 /\ LENGTH \in Nat
  BY <1>1, Sizes DEF RdCtrlRegs
<1>4. /\ rc'.data_cnt = IF ~RdValid(in) THEN rc.data_cnt
                        ELSE IF rc.data_cnt = LENGTH - 1 THEN 0 ELSE rc.data_cnt + 1
      /\ rc'.cmd_cnt = IF ~RdAddrReq(in) THEN rc.cmd_cnt
                       ELSE IF rc.cmd_cnt = LENGTH - 1 THEN 0 ELSE rc.cmd_cnt + 1
  <2>1. /\ rc'.data_cnt = IF RdValid(in) THEN (rc.data_cnt + 1) % LENGTH ELSE rc.data_cnt
        /\ rc'.cmd_cnt = IF RdAddrReq(in) THEN (rc.cmd_cnt + 1) % LENGTH ELSE rc.cmd_cnt
    BY <1>1 DEF RdCtrlStep
  <2>2. /\ (rc.data_cnt + 1) % LENGTH = IF rc.data_cnt = LENGTH - 1 THEN 0 ELSE rc.data_cnt + 1
        /\ (rc.cmd_cnt + 1) % LENGTH = IF rc.cmd_cnt = LENGTH - 1 THEN 0 ELSE rc.cmd_cnt + 1
    BY <1>3, Sizes, ModNext
  <2> QED
    BY <2>1, <2>2, Zenon
<1>5. (RdAddrReq(in) => rc.en) /\ (RdValid(in) => QueuedReads > 0)
  BY ExecQueued DEF RdAddrReq, RdValid
<1>6. /\ QueuedReads = RdCmds - RdWords
      /\ RdCmds = (IF rc.state = "READ" THEN (IF rc.en THEN rc.cmd_cnt ELSE LENGTH) ELSE 0)
      /\ RdWords = (IF rc.state = "READ" THEN rc.data_cnt ELSE 0)
  BY DEF QueuedReads, RdCmds, RdWords
<1>7. /\ QueuedReads' = RdCmds' - RdWords'
      /\ RdCmds' = (IF rc'.state = "READ" THEN (IF rc'.en THEN rc'.cmd_cnt ELSE LENGTH) ELSE 0)
      /\ RdWords' = (IF rc'.state = "READ" THEN rc'.data_cnt ELSE 0)
  BY DEF QueuedReads, RdCmds, RdWords
<1>8. rc.state \in {"IDLE", "RD_REQ", "READ"}
  BY <1>1 DEF RdCtrlRegs
<1>9. CASE rc.state # "READ"
  <2>1. ~rc.en /\ rc.cmd_cnt = 0 /\ rc.data_cnt = 0
    BY <1>9 DEF ReadInv, ReadQuiet, ReadAsked, ReadRuns, ReadEnds
  <2>2. QueuedReads = 0 /\ ~RdAddrReq(in) /\ ~RdValid(in)
    BY <1>5, <1>6, <1>9, <2>1
  <2>3. rc'.cmd_cnt = 0 /\ rc'.data_cnt = 0
    BY <1>4, <2>1, <2>2
  <2>4. rc'.state = "READ" => rc'.en
    BY <1>2, <1>8, <1>9, <2>2
  <2>5. RdCmds' = 0 /\ RdWords' = 0
    BY <1>7, <2>3, <2>4
  <2> QED
    BY <1>7, <2>2, <2>5
<1>10. CASE rc.state = "READ"
  <2>1. ~ar.rd_ack
    BY <1>10 DEF ReadInv, ReadQuiet, ReadAsked, ReadRuns, ReadEnds
  <2>2. CASE rc'.done
    <3>1. RdValid(in) /\ rc.data_cnt = LENGTH - 1 /\ QueuedReads > 0
      BY <1>2, <1>5, <2>2
    <3>2. ~rc.en
      BY <1>3, <1>6, <1>10, <3>1
    <3>3. QueuedReads = 1 /\ ~RdAddrReq(in)
      BY <1>3, <1>5, <1>6, <1>10, <3>1, <3>2
    <3>4. QueuedReads' = 0
      BY <1>2, <1>7, <1>10, <2>2
    <3> QED
      BY <3>1, <3>3, <3>4
  <2>3. CASE ~rc'.done
    <3>1. rc'.state = "READ"
      BY <1>2, <1>10, <2>3
    <3>2. RdWords' = RdWords + (IF RdValid(in) THEN 1 ELSE 0)
      BY <1>2, <1>3, <1>4, <1>6, <1>7, <1>10, <2>3, <3>1
    <3>3. RdCmds' = RdCmds + (IF RdAddrReq(in) THEN 1 ELSE 0)
      <4>1. CASE RdAddrReq(in)
        BY <1>2, <1>3, <1>4, <1>5, <1>6, <1>7, <1>10, <2>1, <3>1, <4>1
      <4>2. CASE ~RdAddrReq(in)
        BY <1>2, <1>3, <1>4, <1>6, <1>7, <1>10, <2>1, <3>1, <4>2
      <4> QED
        BY <4>1, <4>2
    <3>4. RdCmds \in Int /\ RdWords \in Int
      BY CountTypes
    <3>5. QueuedReads = RdCmds - RdWords /\ QueuedReads' = RdCmds' - RdWords'
      BY <1>6, <1>7
    <3> QED
      BY <3>2, <3>3, <3>4, <3>5
  <2> QED
    BY <2>2, <2>3
<1> QED
  BY <1>9, <1>10

\* The arbiter keeps the two sides apart.
LEMMA OneSide ==
  ASSUME WriteInv, ReadInv
  PROVE  ~(wc.state = "WRITE" /\ (rc.en \/ rc.state = "READ"))
<1>1. wc.state = "WRITE" => ar.state = "WRITE"
  BY DEF WriteInv, WriteQuiet, WriteAsked, WriteRuns, WriteEnds
<1>2. rc.en \/ rc.state = "READ" => ar.state = "READ"
  BY DEF ReadInv, ReadQuiet, ReadAsked, ReadRuns, ReadEnds
<1> QED
  BY <1>1, <1>2

\* One cycle of the queue in numbers: a write (w) or read (r) command added, a data word
\* added (d), a read (xr) or a write (xw) executed.
QueueMoved(w, r, d, xr, xw) ==
  /\ w + r \in 0 .. 1 /\ xr + xw \in 0 .. 1
  /\ Shifted(mig'.cmds, mig.cmds, AppCmd, xr + xw, w + r)
  /\ Shifted(mig'.data, mig.data, BankWord, xw, d)
  /\ QueuedReads' = QueuedReads + r - xr
  /\ QueuedWrites' = QueuedWrites + w - xw
  /\ w = 1 => QueuedReads = 0 /\ xr = 0
  /\ xr = 1 => QueuedReads > 0 /\ QueuedWrites = 0
  /\ xw = 1 => QueuedWrites > 0 /\ Len(mig.data) >= 1
  /\ w + r = 1 => Len(mig.cmds) < MigDepth
  /\ AppCmd.op = "write" <=> wc.state = "WRITE"
  /\ r = 1 => wc.state # "WRITE"

LEMMA QueueMoves ==
  ASSUME TypeInv, WriteInv, ReadInv, QueueInv, NEW in \in Inputs, Clock(in),
         NEW w \in 0 .. 1, w = 1 <=> WrAddrReq(in),
         NEW r \in 0 .. 1, r = 1 <=> RdAddrReq(in),
         NEW d \in 0 .. 1, d = 1 <=> WrDataReq(in),
         NEW xr \in 0 .. 1, xr = 1 <=> RdValid(in),
         NEW xw \in 0 .. 1, xw = 1 <=> in.exec /\ ~RdValid(in)
  PROVE  QueueMoved(w, r, d, xr, xw)
<1> DEFINE x == xr + xw
           n == w + r
<1>1. MigStep(in)
  BY DEF Clock
<1>2. /\ QueuedWrites = Len(mig.cmds) - QueuedReads /\ Len(mig.cmds) \in Nat /\ Len(mig.data) \in Nat
      /\ QueuedReads \in Int /\ QueuedWrites \in Int
  BY CountTypes DEF QueuedWrites
<1>3. r = 1 => wc.state # "WRITE"
  BY OneSide DEF RdAddrReq
<1>4. ASSUME w = 1
      PROVE  r = 0 /\ QueuedReads = 0 /\ xr = 0
  <2>1. wc.state = "WRITE" /\ rc.state # "READ"
    BY <1>4, OneSide DEF WrAddrReq
  <2>2. QueuedReads = 0
    BY <2>1 DEF QueuedReads, RdCmds, RdWords
  <2>3. RdValid(in) => QueuedReads > 0
    BY ExecQueued DEF RdValid
  <2> QED
    BY <1>3, <2>1, <2>2, <2>3
<1>5. (xr = 1 => QueuedReads > 0 /\ QueuedWrites = 0) /\ (xw = 1 => QueuedWrites > 0)
  BY ExecQueued DEF RdValid
<1>6. n \in 0 .. 1 /\ (n = 1 <=> WrAddrReq(in) \/ RdAddrReq(in))
  BY <1>4
<1>7. x \in 0 .. 1 /\ (x = 1 <=> in.exec)
  BY DEF RdValid
<1> HIDE DEF x, n
<1>8. Shifted(mig'.cmds, mig.cmds, AppCmd, x, n)
  BY <1>1, <1>6, <1>7, CmdQueue, Zenon
<1>9. (xw = 1 => Len(mig.data) >= 1) /\ Shifted(mig'.data, mig.data, BankWord, xw, d)
  BY <1>1, DataQueue, Zenon
<1>10. QueuedReads' = QueuedReads + r - xr
  <2>1. QueuedReads' = QueuedReads + (IF RdAddrReq(in) THEN 1 ELSE 0) - (IF RdValid(in) THEN 1 ELSE 0)
    BY RdCounts
  <2>2. r = (IF RdAddrReq(in) THEN 1 ELSE 0) /\ xr = (IF RdValid(in) THEN 1 ELSE 0)
    OBVIOUS
  <2> QED
    BY <2>1, <2>2, Zenon
<1>11. QueuedWrites' = QueuedWrites + w - xw
  <2>1. QueuedWrites' = Len(mig'.cmds) - QueuedReads'
    BY DEF QueuedWrites
  <2>2. Len(mig'.cmds) = Len(mig.cmds) - x + n
    BY <1>8, Zenon DEF Shifted
  <2>3. x = xr + xw /\ n = w + r
    BY DEF x, n
  <2> DEFINE l == Len(mig.cmds)
             l2 == Len(mig'.cmds)
             qr == QueuedReads
             qr2 == QueuedReads'
             qw == QueuedWrites
             qw2 == QueuedWrites'
  <2>4. /\ qw2 = l2 - qr2 /\ qw = l - qr /\ l2 = l - x + n /\ qr2 = qr + r - xr
        /\ l \in Int /\ qr \in Int
    BY <1>2, <1>10, <2>1, <2>2
  <2> HIDE DEF l, l2, qr, qr2, qw, qw2
  <2>5. qw2 = qw + w - xw
    BY <2>3, <2>4
  <2> QED
    BY <2>5 DEF qw, qw2
<1>12. n = 1 => Len(mig.cmds) < MigDepth
  BY <1>6, InputsType DEF WrAddrReq, RdAddrReq
<1>13. AppCmd.op = "write" <=> wc.state = "WRITE"
  BY DEF AppCmd
<1> QED
  BY <1>3, <1>4, <1>5, <1>6, <1>7, <1>8, <1>9, <1>10, <1>11, <1>12, <1>13, Zenon DEF QueueMoved, x, n

LEMMA QueueStep ==
  ASSUME TypeInv, WriteInv, ReadInv, QueueInv, NEW in \in Inputs, Clock(in)
  PROVE  QueueInv'
<1> DEFINE w  == IF WrAddrReq(in) THEN 1 ELSE 0
           r  == IF RdAddrReq(in) THEN 1 ELSE 0
           d  == IF WrDataReq(in) THEN 1 ELSE 0
           xr == IF RdValid(in) THEN 1 ELSE 0
           xw == IF in.exec /\ ~RdValid(in) THEN 1 ELSE 0
           x  == xr + xw
           n  == w + r
           QW == QueuedWrites
           QR == QueuedReads
           L  == Len(mig.cmds)
           D  == Len(mig.data)
<1>1. /\ QW = L - QR /\ L \in Nat /\ D \in Nat /\ QR \in Int /\ QW \in Int
      /\ WrCmds \in Int /\ WrData \in Int
  BY CountTypes DEF QueuedWrites
<1>2. /\ QR >= 0 /\ QW >= 0 /\ L <= MigDepth
      /\ QW - D = WrCmds - WrData /\ WrCmds - WrData <= 1
      /\ \A k \in 1 .. L : mig.cmds[k].op = "write" <=> k <= QW
  BY DEF QueueInv
\* How the counts move.
<1>3. /\ w \in 0 .. 1 /\ r \in 0 .. 1 /\ d \in 0 .. 1 /\ xr \in 0 .. 1 /\ xw \in 0 .. 1
      /\ w = 1 <=> WrAddrReq(in)
      /\ r = 1 <=> RdAddrReq(in)
      /\ d = 1 <=> WrDataReq(in)
      /\ xr = 1 <=> RdValid(in)
      /\ xw = 1 <=> in.exec /\ ~RdValid(in)
  OBVIOUS
<1>4. /\ wr.state = "W_DONE" => /\ WrCmds = LENGTH /\ WrData = LENGTH /\ w = 0 /\ d = 0
                                /\ WrCmds' = 0 /\ WrData' = 0
      /\ wr.state # "W_DONE" => WrCmds' = WrCmds + w /\ WrData' = WrData + d
  BY WrCounts
<1> HIDE DEF w, r, d, xr, xw
<1>5. QueueMoved(w, r, d, xr, xw)
  BY <1>3, QueueMoves, Zenon
<1>6. /\ n \in 0 .. 1 /\ x \in 0 .. 1
      /\ Shifted(mig'.cmds, mig.cmds, AppCmd, x, n)
      /\ Shifted(mig'.data, mig.data, BankWord, xw, d)
      /\ QR' = QR + r - xr /\ QW' = QW + w - xw
      /\ w = 1 => QR = 0 /\ xr = 0
      /\ xr = 1 => QR > 0 /\ QW = 0
      /\ xw = 1 => QW > 0 /\ D >= 1
      /\ n = 1 => L < MigDepth
      /\ AppCmd.op = "write" <=> wc.state = "WRITE"
      /\ r = 1 => wc.state # "WRITE"
  BY <1>5, Zenon DEF QueueMoved
<1>7. Len(mig'.cmds) = L - x + n /\ Len(mig'.data) = D - xw + d
  BY <1>6, Zenon DEF Shifted
<1>8. WrCmds - WrData = 1 => d = 1
  <2>1. WrCmds > WrData => wc.wren
    BY WriteTypes DEF WrCmds, WrData
  <2>2. WrCmds - WrData = 1 => WrCmds > WrData
    BY <1>1
  <2> QED
    BY <1>3, <2>1, <2>2, DataForced
<1>9. MigDepth \in Nat
  BY Sizes
<1>10. w = 1 => wc.state = "WRITE"
  BY <1>3 DEF WrAddrReq
<1> HIDE DEF QW, QR, L, D
<1>11. x = xr + xw /\ n = w + r
  OBVIOUS
<1> HIDE DEF x, n
<1>12. /\ QW' = QW + w - xw
       /\ w = 1 => QR = 0 /\ xr = 0
       /\ xr = 1 => QR > 0 /\ QW = 0
       /\ xw = 1 => QW > 0
  BY <1>6
<1>13. x \in 0 .. 1 /\ n \in 0 .. 1
  BY <1>6
\* The parts of the invariant.
<1>14. QR' >= 0 /\ QW' >= 0
  BY <1>1, <1>2, <1>3, <1>6
<1>15. Len(mig'.cmds) <= MigDepth
  BY <1>1, <1>2, <1>6, <1>7, <1>9
<1>16. QW' - Len(mig'.data) = WrCmds' - WrData' /\ WrCmds' - WrData' <= 1
  <2>1. QW' - Len(mig'.data) = (WrCmds - WrData) + w - d
    BY <1>1, <1>2, <1>3, <1>6, <1>7
  <2>2. CASE wr.state = "W_DONE"
    <3>1. WrCmds = LENGTH /\ WrData = LENGTH /\ w = 0 /\ d = 0 /\ WrCmds' = 0 /\ WrData' = 0
      BY <1>4, <2>2
    <3>2. LENGTH \in Nat
      BY Sizes
    <3> QED
      BY <2>1, <3>1, <3>2
  <2>3. CASE wr.state # "W_DONE"
    <3>1. WrCmds' - WrData' = (WrCmds - WrData) + w - d
      BY <1>1, <1>3, <1>4, <2>3
    <3>2. (WrCmds - WrData) + w - d <= 1
      BY <1>1, <1>2, <1>3, <1>8
    <3> QED
      BY <2>1, <3>1, <3>2
  <2> QED
    BY <2>2, <2>3
<1>17. ASSUME NEW k \in 1 .. Len(mig'.cmds)
       PROVE  mig'.cmds[k].op = "write" <=> k <= QW'
  <2>1. CASE k <= L - x
    <3>1. mig'.cmds[k] = mig.cmds[k + x] /\ k + x \in 1 .. L
      <4>1. k \in 1 .. L - x /\ k + x \in 1 .. L
        BY <1>1, <1>13, <2>1
      <4>2. \A i \in 1 .. L - x : mig'.cmds[i] = mig.cmds[i + x]
        BY <1>6, Zenon DEF Shifted, L
      <4> QED
        BY <4>1, <4>2
    <3>2. mig'.cmds[k].op = "write" <=> k + x <= QW
      BY <1>2, <3>1
    <3>3. k + x <= QW <=> k <= QW'
      BY <1>1, <1>3, <1>12, <1>11, <1>13, <2>1
    <3> QED
      BY <3>2, <3>3
  <2>2. CASE k > L - x
    <3>1. k = L - x + 1 /\ n = 1
      BY <1>1, <1>6, <1>7, <2>2
    <3>2. mig'.cmds[k] = AppCmd
      BY <1>6, <3>1 DEF Shifted, L
    <3>3. AppCmd.op = "write" <=> w = 1
      <4>1. w = 1 \/ r = 1
        BY <1>3, <1>11, <3>1
      <4>2. (AppCmd.op = "write" <=> wc.state = "WRITE") /\ (r = 1 => wc.state # "WRITE")
        BY <1>6
      <4> QED
        BY <1>10, <4>1, <4>2
    <3>4. w = 1 <=> k <= QW'
      <4>1. /\ w \in 0 .. 1 /\ r \in 0 .. 1 /\ xr \in 0 .. 1 /\ xw \in 0 .. 1
            /\ QW = L - QR /\ L \in Nat /\ QR \in Int /\ QR >= 0 /\ k = L - (xr + xw) + 1
        BY <1>1, <1>2, <1>3, <1>11, <3>1
      <4>2. w = 1 => k <= QW'
        BY <1>12, <4>1
      <4>3. w = 0 => ~(k <= QW')
        <5>1. xr = 1 => xw = 0
          BY <1>12, <4>1
        <5> QED
          BY <1>12, <4>1, <5>1
      <4> QED
        BY <4>1, <4>2, <4>3
    <3> QED
      BY <3>2, <3>3, <3>4
  <2> QED
    BY <1>1, <1>6, <1>7, <2>1, <2>2
<1> QED
  BY <1>14, <1>15, <1>16, <1>17 DEF QueueInv, QW, QR

\* One edge of ui_clk, or none.
LEMMA PortStep == PortInv /\ [Next]_vars => PortInv'
<1> SUFFICES ASSUME PortInv, [Next]_vars PROVE PortInv'
  OBVIOUS
<1>1. TypeInv /\ WriteInv /\ ReadInv /\ QueueInv
  BY DEF PortInv
<1>2. TypeInv'
  BY <1>1, TypeStep
<1>3. ASSUME NEW in \in Inputs, Clock(in)
      PROVE  WriteInv' /\ ReadInv' /\ QueueInv'
  BY <1>1, <1>2, <1>3, WriteStep, ReadStep, QueueStep
<1>4. CASE UNCHANGED vars
  <2>1. wr' = wr /\ wc' = wc /\ rc' = rc /\ ar' = ar /\ st' = st /\ mig' = mig
    BY <1>4 DEF vars
  <2>2. WriteInv'
    BY <1>1, <2>1 DEF WriteInv, WriteQuiet, WriteAsked, WriteRuns, WriteEnds
  <2>3. ReadInv'
    BY <1>1, <2>1 DEF ReadInv, ReadQuiet, ReadAsked, ReadRuns, ReadEnds, Running
  <2>4. QueueInv'
    BY <1>1, <2>1 DEF QueueInv, QueuedReads, QueuedWrites, RdCmds, RdWords, WrCmds, WrData
  <2> QED
    BY <1>2, <2>2, <2>3, <2>4 DEF PortInv
<1> QED
  BY <1>2, <1>3, <1>4 DEF Next, PortInv

LEMMA PortInvariant == Spec => []PortInv
<1> QED
  BY PortInit, PortStep, PTL DEF Spec

LEMMA PortInvRight == PortInv => PortRight
<1> SUFFICES ASSUME PortInv PROVE PortRight
  OBVIOUS
<1>1. TypeInv /\ WriteInv /\ ReadInv
  BY DEF PortInv
<1>2. TypeOK
  BY <1>1 DEF TypeInv, TypeOK, WriterRegs, WrCtrlRegs, RdCtrlRegs, ArbitRegs, StreamerRegs
<1>3. OnePortUser
  BY <1>1, OneSide DEF OnePortUser
<1>4. StartTaken
  BY <1>1 DEF StartTaken, WriteInv, WriteQuiet, ReadInv, ReadQuiet
<1> QED
  BY <1>2, <1>3, <1>4 DEF PortRight

\* ddr3_arbit gives the one command port of the MIG to one side at a time, and no start
\* pulse of the writer or the streamer finds its controller busy.
THEOREM PortIsShared == Spec => []PortRight
  BY PortInvariant, PortInvRight, PTL

-----------------------------------------------------------------------------
\* The words.  On top of the handshakes, the invariant RingInv says which words of the
\* stream the banks, the queued writes, the memory and the burst being read hold.

\* The words the burst being read has got, and room for the others.
Pushed == IF rc.state = "READ" THEN rc.data_cnt ELSE IF rc.done THEN LENGTH ELSE 0

RoomInv ==
  /\ f.valid \in BOOLEAN
  /\ f.valid => Running
  /\ Running \/ st.state \in {"R_START", "X_START"} =>
       depth + (IF f.valid THEN 1 ELSE 0) + LENGTH - Pushed <= FIFO_WORDS

\* The two banks hold the words from the last committed one (w) to the last captured
\* one (cap), for a bank sequence number s being filled up to place i and a committed
\* one c.
Banks(s, i, c, w, cap, bk) ==
  LET o    == (s - c) % 4
      next == (c + 1) % 4
  IN  /\ o \in 0 .. 2
      /\ o = 0 => cap = w + i
      /\ o = 1 => cap = w + LENGTH + i
      /\ o = 2 => cap = w + LENGTH + LENGTH /\ i = 0
      /\ o # 0 => \A k \in 0 .. LENGTH - 1 : bk[c % 2][k] = w + k
      /\ o = 2 => \A k \in 0 .. LENGTH - 1 : bk[next % 2][k] = w + LENGTH + k
      /\ \A k \in 0 .. LENGTH - 1 : k < i => bk[s % 2][k] = cap - i + k

BankInv ==
  /\ Banks(fill.seq, fill.idx, wr.commit, wr.written, captured, bank)
  /\ wr.state # "W_IDLE" => Occupancy # 0

\* A number of words that is a number of bursts.
Whole(x) == \E m \in Nat : x = LENGTH * m

\* The words the MIG has written to the memory.
Executed == (wr.written + WrCmds) - QueuedWrites

\* Where the writer's burst goes in the ring.
PlaceInv ==
  /\ Whole(wr.written)
  /\ wr.ptr = wr.written % Cap
  /\ wr.state \in {"W_START", "W_RUN"} => wr.addr = wr.ptr + WrCmds
  /\ wr.out_idx = wc.data_cnt

\* The last Cap of the first e words are in m, each at its own place.
LastLap(m, e) == \A j \in Nat : j < e /\ e <= j + Cap => m[j % Cap] = j

\* The queued writes continue what the memory holds.
MemInv ==
  /\ \A k \in 1 .. Len(mig.cmds) : k <= QueuedWrites => mig.cmds[k].addr = (Executed + k - 1) % Cap
  /\ \A k \in 1 .. Len(mig.data) : mig.data[k] = Executed + k - 1
  /\ Executed \in Nat
  /\ mig.mem \in [Addr -> Int]
  /\ LastLap(mig.mem, Executed)

\* What the burst being drained or resent reads, and what it reads next.
Drained0 == IF st.state = "R_RUN" THEN st.drained - Pushed
            ELSE IF st.state = "R_NEXT" THEN st.drained - LENGTH ELSE st.drained
Abs0 == IF st.state = "X_RUN" THEN st.abs - Pushed ELSE st.abs
Left0 == IF st.state = "X_RUN" THEN st.left + Pushed ELSE st.left

DrainInv ==
  /\ Whole(Drained0)
  /\ st.ptr = Drained0 % Cap
  /\ st.state \in {"R_START", "R_RUN", "R_NEXT"} => Drained0 + LENGTH <= wr.written
  /\ st.drained <= wr.written
  /\ st.state = "R_START" => st.addr = st.ptr
  /\ st.state = "R_RUN" /\ ~rc.done => st.addr = st.ptr + RdCmds

ResendInv ==
  /\ st.state \in {"X_START", "X_RUN", "X_NEXT", "X_FAIL"} => st.pending
  /\ st.pending => /\ Whole(Abs0)
                   /\ Whole(Left0)
                   /\ st.state # "X_NEXT" => Left0 >= LENGTH
  /\ st.state \in {"X_START", "X_RUN"} => Abs0 + LENGTH <= wr.written
  /\ st.state = "X_START" => st.addr = Abs0 % Cap
  /\ st.state = "X_RUN" /\ ~rc.done => st.addr = (Abs0 % Cap) + RdCmds

ReadsInv ==
  \A k \in 1 .. Len(mig.cmds) :
    k > QueuedWrites => mig.cmds[k].addr = st.addr - (Len(mig.cmds) + 1 - k)

DataInv == BankInv /\ PlaceInv /\ MemInv /\ DrainInv /\ ResendInv /\ ReadsInv

-----------------------------------------------------------------------------
\* The words a burst has got, one by one.
LEMMA PushedStep ==
  ASSUME PortInv, NEW in \in Inputs, Clock(in)
  PROVE  /\ Pushed \in 0 .. LENGTH
         /\ ~Running => Pushed = 0 /\ Pushed' = 0 /\ ~RdValid(in)
         /\ Running /\ ~rc.done => Pushed' = Pushed + (IF RdValid(in) THEN 1 ELSE 0)
         /\ Running /\ rc.done => Pushed = LENGTH /\ ~RdValid(in)
         /\ Running => (Running' <=> ~rc.done)
<1>1. TypeInv /\ WriteInv /\ ReadInv /\ QueueInv
  BY DEF PortInv
<1>2. RdCtrlStep(in) /\ rc \in RdCtrlRegs /\ st \in StreamerRegs /\ StreamerStep(in)
  BY <1>1 DEF Clock, TypeInv
<1>3. /\ rc.state = "IDLE" => rc'.state = IF st.start THEN "RD_REQ" ELSE "IDLE"
      /\ rc.state = "RD_REQ" => rc'.state = IF ar.rd_ack THEN "READ" ELSE "RD_REQ"
      /\ rc.state = "READ" => rc'.state = IF rc'.done THEN "IDLE" ELSE "READ"
      /\ rc'.done <=> RdValid(in) /\ rc.data_cnt = LENGTH - 1
  BY <1>2 DEF RdCtrlStep
<1>4. rc.data_cnt \in 0 .. LENGTH - 1 /\ LENGTH \in Nat /\ LENGTH >= 1
  BY <1>2, Sizes DEF RdCtrlRegs
<1>5. rc'.data_cnt = IF ~RdValid(in) THEN rc.data_cnt
                    ELSE IF rc.data_cnt = LENGTH - 1 THEN 0 ELSE rc.data_cnt + 1
  <2>1. rc'.data_cnt = IF RdValid(in) THEN (rc.data_cnt + 1) % LENGTH ELSE rc.data_cnt
    BY <1>2 DEF RdCtrlStep
  <2>2. (rc.data_cnt + 1) % LENGTH = IF rc.data_cnt = LENGTH - 1 THEN 0 ELSE rc.data_cnt + 1
    BY <1>4, ModNext
  <2> QED
    BY <2>1, <2>2, Zenon
<1>6. RdValid(in) => rc.state = "READ"
  <2>1. RdValid(in) => QueuedReads > 0
    BY <1>1, ExecQueued DEF RdValid
  <2> QED
    BY <2>1 DEF QueuedReads, RdCmds, RdWords
<1>7. Running => (Running' <=> ~rc.done)
  BY <1>2, StreamerMoves DEF Running
<1>8. Pushed \in 0 .. LENGTH
  BY <1>4 DEF Pushed
<1>9. ASSUME ~Running
      PROVE  Pushed = 0 /\ Pushed' = 0 /\ ~RdValid(in)
  <2>1. ~st.start /\ rc.state = "IDLE" /\ ~rc.done
    BY <1>1, <1>9 DEF ReadInv, ReadQuiet
  <2>2. ~RdValid(in) /\ rc'.state = "IDLE" /\ ~rc'.done
    BY <1>3, <1>6, <2>1
  <2> QED
    BY <2>1, <2>2 DEF Pushed
<1>10. ASSUME Running, ~rc.done
       PROVE  Pushed' = Pushed + (IF RdValid(in) THEN 1 ELSE 0)
  <2>1. CASE rc.state = "READ"
    <3>1. Pushed = rc.data_cnt
      BY <2>1 DEF Pushed
    <3>2. CASE rc'.done
      <4>1. Pushed' = LENGTH
        BY <1>3, <2>1, <3>2 DEF Pushed
      <4> QED
        BY <1>3, <1>4, <3>1, <3>2, <4>1
    <3>3. CASE ~rc'.done
      <4>1. Pushed' = rc'.data_cnt
        BY <1>3, <2>1, <3>3 DEF Pushed
      <4> QED
        BY <1>3, <1>4, <1>5, <3>1, <3>3, <4>1
    <3> QED
      BY <3>2, <3>3
  <2>2. CASE rc.state # "READ"
    <3>1. rc.data_cnt = 0 /\ ~RdValid(in)
      BY <1>1, <1>6, <2>2 DEF ReadInv, ReadQuiet, ReadAsked, ReadRuns, ReadEnds
    <3>2. rc'.data_cnt = 0 /\ ~rc'.done
      BY <1>3, <1>5, <3>1
    <3> QED
      BY <1>10, <2>2, <3>1, <3>2 DEF Pushed
  <2> QED
    BY <2>1, <2>2
<1>11. ASSUME Running, rc.done
       PROVE  Pushed = LENGTH /\ ~RdValid(in)
  <2>1. rc.state = "IDLE"
    BY <1>1, <1>11 DEF ReadInv, ReadQuiet, ReadAsked, ReadRuns, ReadEnds
  <2> QED
    BY <1>6, <1>11, <2>1 DEF Pushed
<1> QED
  BY <1>7, <1>8, <1>9, <1>10, <1>11

\* f is valid for the word that was read in the last cycle.
LEMMA ValidStep ==
  ASSUME PortInv, NEW in \in Inputs, Clock(in)
  PROVE  f'.valid \in BOOLEAN /\ (f'.valid <=> RdValid(in)) /\ (RdValid(in) => Running /\ ~rc.done)
<1>1. f' = EgressNext(in)
  BY DEF Clock, StreamerStep
<1>2. RdValid(in) => Running /\ ~rc.done
  BY PushedStep
<1>3. CASE RdValid(in)
  BY <1>1, <1>2, <1>3 DEF EgressNext, Running
<1>4. CASE ~RdValid(in)
  BY <1>1, <1>4 DEF EgressNext, NoEgress
<1> QED
  BY <1>2, <1>3, <1>4

LEMMA RoomStep ==
  ASSUME PortInv, RoomInv, NEW in \in Inputs, Clock(in)
  PROVE  RoomInv'
<1> DEFINE v == IF f.valid THEN 1 ELSE 0
           q == IF RdValid(in) THEN 1 ELSE 0
           taken == IF f.valid /\ depth < FIFO_WORDS THEN 1 ELSE 0
           pop == IF in.pop THEN 1 ELSE 0
<1>1. depth' = depth + taken - pop
  BY DEF Clock, FifoStep
<1>2. f'.valid \in BOOLEAN /\ (f'.valid <=> RdValid(in)) /\ (RdValid(in) => Running /\ ~rc.done)
  BY ValidStep
<1>3. f.valid \in BOOLEAN /\ (f.valid => Running)
  BY DEF RoomInv
<1>4. depth \in Nat /\ LENGTH \in Nat /\ FIFO_WORDS \in Nat
  BY Sizes DEF PortInv, TypeInv
<1>5. /\ Pushed \in 0 .. LENGTH
      /\ ~Running => Pushed = 0 /\ Pushed' = 0 /\ ~RdValid(in)
      /\ Running /\ ~rc.done => Pushed' = Pushed + q
      /\ Running => (Running' <=> ~rc.done)
  BY PushedStep
<1>6. taken \in 0 .. 1 /\ taken <= v /\ pop \in 0 .. 1 /\ v \in 0 .. 1 /\ q \in 0 .. 1
  OBVIOUS
<1>7. (IF f'.valid THEN 1 ELSE 0) = q
  BY <1>2
<1>8. f'.valid => Running'
  BY <1>2, <1>5
<1>9. st \in StreamerRegs /\ StreamerStep(in)
  BY DEF PortInv, TypeInv, Clock
<1>10. ~Running => v = 0 /\ q = 0
  BY <1>3, <1>5
<1> HIDE DEF v, q, taken, pop
<1>11. ASSUME Running' \/ st'.state \in {"R_START", "X_START"}
       PROVE  depth' + q + LENGTH - Pushed' <= FIFO_WORDS
  <2>1. CASE Running
    <3>1. ~rc.done
      <4>1. rc.done => st'.state \in {"R_NEXT", "X_NEXT"}
        BY <1>9, <2>1, StreamerMoves DEF Running
      <4> QED
        BY <1>5, <1>11, <2>1, <4>1
    <3>2. depth + v + LENGTH - Pushed <= FIFO_WORDS
      BY <2>1 DEF RoomInv, v
    <3> QED
      BY <1>1, <1>4, <1>5, <1>6, <2>1, <3>1, <3>2
  <2>2. CASE st.state \in {"R_START", "X_START"}
    <3>1. ~Running
      BY <2>2 DEF Running
    <3>2. depth + v + LENGTH - Pushed <= FIFO_WORDS
      BY <2>2 DEF RoomInv, v
    <3> QED
      BY <1>1, <1>4, <1>5, <1>6, <1>10, <3>1, <3>2
  <2>3. CASE ~Running /\ st.state \notin {"R_START", "X_START"}
    <3>1. st.state = "R_IDLE" /\ st'.state \in {"R_START", "X_START"}
      BY <1>9, <1>11, <2>3, StreamerMoves DEF Running, StreamerRegs
    <3>2. FifoHasRoom
      <4>1. /\ st' = StreamerNext(in)
            /\ StreamerBase(in).state = "R_IDLE"
        BY <1>9, <3>1, BaseFields, Zenon DEF StreamerStep
      <4> QED
        BY <1>9, <3>1, <4>1 DEF StreamerNext
    <3>3. depth + LENGTH <= FIFO_WORDS
      BY <1>4, <3>2 DEF FifoHasRoom
    <3> QED
      BY <1>1, <1>4, <1>5, <1>6, <1>10, <2>3, <3>3
  <2> QED
    BY <2>1, <2>2, <2>3
<1>12. Running' \/ st'.state \in {"R_START", "X_START"} =>
         depth' + (IF f'.valid THEN 1 ELSE 0) + LENGTH - Pushed' <= FIFO_WORDS
  BY <1>7, <1>11
<1> QED
  BY <1>2, <1>8, <1>12 DEF RoomInv

-----------------------------------------------------------------------------
\* Places in the ring.

LEMMA WholeNat ==
  ASSUME NEW x, Whole(x)
  PROVE  /\ x \in Nat
         /\ Whole(x + LENGTH)
         /\ x # 0 => x >= LENGTH /\ Whole(x - LENGTH)
<1>1. PICK m \in Nat : x = LENGTH * m
  BY DEF Whole
<1>2. LENGTH \in Nat /\ LENGTH >= 1
  BY Sizes
<1>3. x + LENGTH = LENGTH * (m + 1) /\ m + 1 \in Nat
  BY <1>1, <1>2
<1>4. ASSUME x # 0
      PROVE  x >= LENGTH /\ Whole(x - LENGTH)
  <2>1. m # 0
    BY <1>1, <1>2, <1>4
  <2>2. x - LENGTH = LENGTH * (m - 1) /\ m - 1 \in Nat
    BY <1>1, <1>2, <2>1
  <2>3. LENGTH * (m - 1) >= 0
    BY <1>2, <2>2
  <2> QED
    BY <1>1, <1>2, <2>2, <2>3 DEF Whole
<1>5. x \in Nat
  BY <1>1, <1>2
<1> QED
  BY <1>3, <1>4, <1>5 DEF Whole

LEMMA WholeTimes ==
  ASSUME NEW n \in Nat
  PROVE  Whole(n * LENGTH) /\ Whole(0)
<1>1. n * LENGTH = LENGTH * n /\ 0 = LENGTH * 0
  BY Sizes
<1> QED
  BY <1>1 DEF Whole

\* A burst that starts at a whole number does not go over the end of the ring.
LEMMA WholeLap ==
  ASSUME NEW x, Whole(x)
  PROVE  /\ x % Cap \in 0 .. Cap - LENGTH
         /\ \A k \in 0 .. LENGTH - 1 : (x + k) % Cap = (x % Cap) + k
         /\ (x + LENGTH) % Cap = Wrap((x % Cap) + LENGTH)
<1>1. PICK m \in Nat : x = LENGTH * m
  BY DEF Whole
<1>2. LENGTH \in Nat /\ LENGTH >= 1 /\ RingBursts \in Nat /\ RingBursts >= 1
  BY RingAssumption
<1>3. Cap = LENGTH * RingBursts /\ Cap \in Nat /\ Cap >= 1
  BY Sizes DEF Cap
<1> DEFINE q == m \div RingBursts
           r == m % RingBursts
           b == LENGTH * r
<1>4. q \in Int /\ r \in 0 .. RingBursts - 1 /\ m = RingBursts * q + r
  BY <1>2, DivModBy
<1> HIDE DEF q, r
<1>5. LENGTH * m = (LENGTH * RingBursts) * q + LENGTH * r
  <2>1. LENGTH * (RingBursts * q + r) = LENGTH * (RingBursts * q) + LENGTH * r
    BY <1>2, <1>4
  <2>2. LENGTH * (RingBursts * q) = (LENGTH * RingBursts) * q
    BY <1>2, <1>4
  <2> QED
    BY <1>4, <2>1, <2>2
<1>6. b \in Nat /\ b + LENGTH <= Cap
  <2> DEFINE s == RingBursts - 1 - r
  <2>1. s \in Nat /\ RingBursts = r + 1 + s
    BY <1>2, <1>4
  <2> HIDE DEF s
  <2>2. LENGTH * (r + 1 + s) = LENGTH * r + LENGTH + LENGTH * s
    BY <1>2, <1>4, <2>1
  <2>3. LENGTH * s >= 0 /\ LENGTH * r \in Nat
    BY <1>2, <1>4, <2>1
  <2> QED
    BY <1>2, <1>3, <2>1, <2>2, <2>3
<1>7. x = Cap * q + b
  BY <1>1, <1>3, <1>5
<1> HIDE DEF b
<1>8. ASSUME NEW k \in 0 .. LENGTH - 1
      PROVE  (x + k) % Cap = b + k
  <2>1. Cap * q \in Int
    BY <1>3, <1>4
  <2> DEFINE y == x + k
             t == b + k
  <2>2. t \in 0 .. Cap - 1 /\ y \in Int /\ y = Cap * q + t
    BY <1>2, <1>3, <1>6, <1>7, <2>1
  <2> HIDE DEF y, t
  <2>3. y % Cap = t
    BY <1>3, <1>4, <2>2, ModUniqueBy
  <2> QED
    BY <2>3 DEF y, t
<1>9. x % Cap = b
  <2>1. x \in Int /\ b \in 0 .. Cap - 1
    BY <1>1, <1>2, <1>3, <1>6
  <2> QED
    BY <1>3, <1>4, <1>7, <2>1, ModUniqueBy
<1>10. (x + LENGTH) % Cap = Wrap(b + LENGTH)
  <2>1. (b + LENGTH) % Cap = (x + LENGTH) % Cap
    <3>1. x \in Int /\ LENGTH \in Int
      BY <1>1, <1>2
    <3> QED
      BY <1>3, <1>9, <3>1, ModSum
  <2> DEFINE y == b + LENGTH
  <2>4. y \in Int /\ 0 <= y /\ y <= Cap /\ Cap \in Nat /\ Cap >= 1
    BY <1>2, <1>3, <1>6
  <2> HIDE DEF y
  <2>5. y % Cap = IF y >= Cap THEN 0 ELSE y
    <3>1. CASE y < Cap
      <4>1. y % Cap = y
        BY <2>4, <3>1, ModNear
      <4> QED
        BY <2>4, <3>1, <4>1
    <3>2. CASE y = Cap
      <4>1. Cap = Cap * 1 + 0 /\ 0 \in 0 .. Cap - 1 /\ Cap \in Int /\ 1 \in Int
        BY <2>4
      <4>2. Cap % Cap = 0
        BY <2>4, <4>1, ModUniqueBy
      <4> QED
        BY <2>4, <3>2, <4>2
    <3> QED
      BY <2>4, <3>1, <3>2
  <2>2. CASE b + LENGTH < Cap
    BY <1>2, <1>3, <1>6, <2>1, <2>2, <2>5 DEF Wrap, y
  <2>3. CASE b + LENGTH = Cap
    BY <1>3, <2>1, <2>3, <2>5 DEF Wrap, y
  <2> QED
    BY <1>2, <1>3, <1>6, <2>2, <2>3
<1>11. x % Cap \in 0 .. Cap - LENGTH
  BY <1>2, <1>3, <1>6, <1>9
<1>12. \A k \in 0 .. LENGTH - 1 : (x + k) % Cap = (x % Cap) + k
  BY <1>8, <1>9, Zenon
<1>13. (x + LENGTH) % Cap = Wrap((x % Cap) + LENGTH)
  BY <1>9, <1>10, Zenon
<1> QED
  BY <1>11, <1>12, <1>13, Zenon

-----------------------------------------------------------------------------
\* The banks.

\* A word cap taken into place i of bank s, and the place after it.
Filled(bk2, bk, s, i, cap) ==
  \A b \in 0 .. 1, k \in 0 .. LENGTH - 1 :
    bk2[b][k] = IF b = s % 2 /\ k = i THEN cap ELSE bk[b][k]

PlaceAfter(s2, i2, s, i) ==
  IF i = LENGTH - 1 THEN s2 = (s + 1) % 4 /\ i2 = 0 ELSE s2 = s /\ i2 = i + 1

LEMMA FillBanks ==
  ASSUME NEW s \in 0 .. 3, NEW i \in 0 .. LENGTH - 1, NEW c \in 0 .. 3, NEW w \in Nat, NEW cap \in Nat,
         NEW bk, NEW s2, NEW i2, NEW bk2,
         Banks(s, i, c, w, cap, bk), (s - c) % 4 # 2,
         Filled(bk2, bk, s, i, cap), PlaceAfter(s2, i2, s, i)
  PROVE  Banks(s2, i2, c, w, cap + 1, bk2) /\ ((s - c) % 4 # 0 => (s2 - c) % 4 # 0)
<1> USE Sizes
<1> DEFINE o  == (s - c) % 4
           o2 == (s2 - c) % 4
           n  == (c + 1) % 4
<1>1. /\ o \in 0 .. 1
      /\ o = 0 => cap = w + i
      /\ o = 1 => cap = w + LENGTH + i
      /\ o # 0 => \A k \in 0 .. LENGTH - 1 : bk[c % 2][k] = w + k
      /\ \A k \in 0 .. LENGTH - 1 : k < i => bk[s % 2][k] = cap - i + k
  BY DEF Banks
<1>2. s % 2 \in 0 .. 1 /\ c % 2 \in 0 .. 1 /\ n % 2 \in 0 .. 1 /\ n \in 0 .. 3
  OBVIOUS
<1>3. /\ o = 0 => s = c
      /\ o = 1 => s = n /\ s % 2 # c % 2
  OBVIOUS
\* What the bank being filled holds now.
<1>4. ASSUME NEW k \in 0 .. LENGTH - 1, k <= i
      PROVE  bk2[s % 2][k] = cap - i + k
  <2>1. bk2[s % 2][k] = IF k = i THEN cap ELSE bk[s % 2][k]
    BY <1>2 DEF Filled
  <2>2. k < i => bk[s % 2][k] = cap - i + k
    BY <1>1
  <2> QED
    BY <1>4, <2>1, <2>2
<1>5. o = 1 => \A k \in 0 .. LENGTH - 1 : bk2[c % 2][k] = w + k
  BY <1>1, <1>2, <1>3 DEF Filled
<1>6. CASE i = LENGTH - 1
  <2>1. s2 = (s + 1) % 4 /\ i2 = 0
    BY <1>6 DEF PlaceAfter
  <2>2. (o = 0 => o2 = 1) /\ (o = 1 => o2 = 2)
    BY <2>1
  <2>3. CASE o = 0
    <3>1. \A k \in 0 .. LENGTH - 1 : bk2[c % 2][k] = w + k
      BY <1>1, <1>3, <1>4, <1>6, <2>3
    <3>2. cap + 1 = w + LENGTH + i2 /\ o2 = 1
      BY <1>1, <1>6, <2>1, <2>2, <2>3
    <3> QED
      BY <2>1, <3>1, <3>2 DEF Banks
  <2>4. CASE o = 1
    <3>1. \A k \in 0 .. LENGTH - 1 : bk2[n % 2][k] = w + LENGTH + k
      BY <1>1, <1>3, <1>4, <1>6, <2>4
    <3>2. cap + 1 = w + LENGTH + LENGTH /\ o2 = 2
      BY <1>1, <1>6, <2>1, <2>2, <2>4
    <3> QED
      BY <1>5, <2>1, <2>4, <3>1, <3>2 DEF Banks
  <2> QED
    BY <1>1, <2>3, <2>4
<1>7. CASE i # LENGTH - 1
  <2>1. s2 = s /\ i2 = i + 1 /\ o2 = o
    BY <1>7 DEF PlaceAfter
  <2>2. \A k \in 0 .. LENGTH - 1 : k < i2 => bk2[s2 % 2][k] = (cap + 1) - i2 + k
    BY <1>4, <2>1
  <2>3. /\ o2 = 0 => cap + 1 = w + i2
        /\ o2 = 1 => cap + 1 = w + LENGTH + i2
    BY <1>1, <2>1
  <2> QED
    BY <1>1, <1>5, <2>1, <2>2, <2>3 DEF Banks
<1> QED
  BY <1>6, <1>7

\* The oldest filled bank is committed.
LEMMA CommitBanks ==
  ASSUME NEW s \in 0 .. 3, NEW i, NEW c \in 0 .. 3, NEW w \in Nat, NEW cap, NEW bk,
         Banks(s, i, c, w, cap, bk), (s - c) % 4 # 0
  PROVE  Banks(s, i, (c + 1) % 4, w + LENGTH, cap, bk)
<1> USE Sizes
<1> DEFINE o == (s - c) % 4
           n == (c + 1) % 4
<1>1. (s - n) % 4 = o - 1 /\ o \in 1 .. 2
  BY DEF Banks
<1>2. CASE o = 1
  BY <1>1, <1>2 DEF Banks
<1>3. CASE o = 2
  BY <1>1, <1>3 DEF Banks
<1> QED
  BY <1>1, <1>2, <1>3

LEMMA BankStep ==
  ASSUME PortInv, BankInv, NEW in \in Inputs, Clock(in)
  PROVE  BankInv'
<1> DEFINE N == 0 .. LENGTH - 1
<1>1. FillStep(in) /\ WriterStep(in) /\ TypeInv
  BY DEF Clock, PortInv
<1>2. /\ fill \in [seq : 0 .. 3, idx : N] /\ bank \in [0 .. 1 -> [N -> Int]]
      /\ wr \in WriterRegs /\ captured \in Nat
  BY <1>1, Sizes DEF TypeInv
<1>3. /\ fill.seq \in 0 .. 3 /\ fill.idx \in N /\ wr.commit \in 0 .. 3 /\ wr.written \in Nat
      /\ wr.state \in {"W_IDLE", "W_START", "W_RUN", "W_DONE"}
      /\ LENGTH \in Nat /\ LENGTH >= 1
  BY <1>2, Sizes DEF WriterRegs
\* What one block changes and the other does not.
<1>4. /\ wr.state = "W_DONE" => /\ wr'.commit = (wr.commit + 1) % 4
                                /\ wr'.written = wr.written + LENGTH
                                /\ wr'.state = "W_IDLE"
      /\ wr.state # "W_DONE" => /\ wr'.commit = wr.commit
                                /\ wr'.written = wr.written
                                /\ wr'.state # "W_IDLE" => Occupancy # 0 \/ wr.state # "W_IDLE"
  BY <1>1, <1>2 DEF WriterStep, WriterRegs
<1>5. ASSUME Accept(in)
      PROVE  /\ Occupancy # 2 /\ captured' = captured + 1
             /\ Filled(bank', bank, fill.seq, fill.idx, captured)
             /\ PlaceAfter(fill'.seq, fill'.idx, fill.seq, fill.idx)
  <2>1. /\ bank' = [bank EXCEPT ![fill.seq % 2][fill.idx] = captured]
        /\ captured' = captured + 1
        /\ fill' = IF fill.idx = LENGTH - 1 THEN [seq |-> (fill.seq + 1) % 4, idx |-> 0]
                                          ELSE [fill EXCEPT !.idx = @ + 1]
    BY <1>1, <1>5, Zenon DEF FillStep
  <2>2. PlaceAfter(fill'.seq, fill'.idx, fill.seq, fill.idx)
    BY <1>2, <2>1 DEF PlaceAfter
  <2>3. Filled(bank', bank, fill.seq, fill.idx, captured)
    BY <1>2, <1>3, <2>1 DEF Filled
  <2> QED
    BY <1>5, <2>1, <2>2, <2>3 DEF Accept
<1>6. ~Accept(in) => fill' = fill /\ bank' = bank /\ captured' = captured
  BY <1>1 DEF FillStep
<1>7. /\ Banks(fill'.seq, fill'.idx, wr.commit, wr.written, captured', bank')
      /\ Occupancy # 0 => (fill'.seq - wr.commit) % 4 # 0
  <2>1. Banks(fill.seq, fill.idx, wr.commit, wr.written, captured, bank)
    BY DEF BankInv
  <2>2. CASE Accept(in)
    <3>1. captured' = captured + 1 /\ (fill.seq - wr.commit) % 4 # 2
      BY <1>5, <2>2 DEF Occupancy
    <3>2. /\ Filled(bank', bank, fill.seq, fill.idx, captured)
          /\ PlaceAfter(fill'.seq, fill'.idx, fill.seq, fill.idx)
      BY <1>5, <2>2
    <3>3. /\ fill.seq \in 0 .. 3 /\ fill.idx \in 0 .. LENGTH - 1 /\ wr.commit \in 0 .. 3
          /\ wr.written \in Nat /\ captured \in Nat
      BY <1>2, <1>3
    <3>4. /\ Banks(fill'.seq, fill'.idx, wr.commit, wr.written, captured + 1, bank')
          /\ (fill.seq - wr.commit) % 4 # 0 => (fill'.seq - wr.commit) % 4 # 0
      BY <2>1, <3>1, <3>2, <3>3, FillBanks, Zenon
    <3> QED
      BY <3>1, <3>4, Zenon DEF Occupancy
  <2>3. CASE ~Accept(in)
    BY <1>6, <2>1, <2>3 DEF Occupancy
  <2> QED
    BY <2>2, <2>3
<1>8. fill'.seq \in 0 .. 3
  BY <1>3, <1>5, <1>6 DEF PlaceAfter
<1>9. CASE wr.state = "W_DONE"
  <2>1. (fill'.seq - wr.commit) % 4 # 0
    BY <1>7, <1>9 DEF BankInv
  <2>2. Banks(fill'.seq, fill'.idx, (wr.commit + 1) % 4, wr.written + LENGTH, captured', bank')
    BY <1>3, <1>7, <1>8, <2>1, CommitBanks
  <2> QED
    BY <1>4, <1>9, <2>2 DEF BankInv
<1>10. CASE wr.state # "W_DONE"
  <2>1. wr.state # "W_IDLE" => Occupancy # 0
    BY DEF BankInv
  <2>2. /\ wr'.commit = wr.commit /\ wr'.written = wr.written
        /\ wr'.state # "W_IDLE" => Occupancy # 0
    BY <1>4, <1>10, <2>1
  <2>3. Occupancy' = (fill'.seq - wr.commit) % 4
    BY <2>2 DEF Occupancy
  <2>4. wr'.state # "W_IDLE" => Occupancy' # 0
    BY <1>7, <2>2, <2>3, Zenon
  <2>5. Banks(fill'.seq, fill'.idx, wr'.commit, wr'.written, captured', bank')
    BY <1>7, <2>2
  <2> QED
    BY <2>4, <2>5 DEF BankInv
<1> QED
  BY <1>9, <1>10

-----------------------------------------------------------------------------
\* The writer's burst.

LEMMA WriterFields ==
  ASSUME wr \in WriterRegs, NEW in, WriterStep(in)
  PROVE  /\ wr.state = "W_IDLE" =>
               /\ wr'.written = wr.written /\ wr'.ptr = wr.ptr
               /\ Occupancy # 0 => wr'.state = "W_START" /\ wr'.addr = wr.ptr /\ wr'.out_idx = 0
               /\ Occupancy = 0 => wr'.state = "W_IDLE" /\ wr'.out_idx = wr.out_idx
         /\ wr.state = "W_START" =>
               /\ wr'.written = wr.written /\ wr'.ptr = wr.ptr /\ wr'.state = "W_RUN"
               /\ wr'.addr = wr.addr /\ wr'.out_idx = wr.out_idx
         /\ wr.state = "W_RUN" =>
               /\ wr'.written = wr.written /\ wr'.ptr = wr.ptr /\ wr'.state \in {"W_RUN", "W_DONE"}
               /\ wr'.addr = wr.addr + (IF WrAddrReq(in) THEN 1 ELSE 0)
               /\ wr'.out_idx = IF WrDataReq(in) THEN (wr.out_idx + 1) % LENGTH ELSE wr.out_idx
         /\ wr.state = "W_DONE" =>
               /\ wr'.written = wr.written + LENGTH /\ wr'.ptr = Wrap(wr.ptr + LENGTH)
               /\ wr'.state = "W_IDLE" /\ wr'.out_idx = wr.out_idx
<1>1. wr.addr + 0 = wr.addr
  BY DEF WriterRegs
<1> QED
  BY <1>1 DEF WriterStep, WriterRegs

LEMMA PlaceStep ==
  ASSUME PortInv, PlaceInv, NEW in \in Inputs, Clock(in)
  PROVE  PlaceInv'
<1>1. TypeInv /\ WriteInv /\ QueueInv /\ wr \in WriterRegs /\ WriterStep(in)
  BY DEF PortInv, TypeInv, Clock
<1>2. /\ wr.state \in {"W_IDLE", "W_START", "W_RUN", "W_DONE"} /\ wr.out_idx \in 0 .. LENGTH - 1
      /\ wr.addr \in Nat /\ wr.ptr \in Nat
  BY <1>1 DEF WriterRegs, Addr
<1>3. /\ Whole(wr.written) /\ wr.ptr = wr.written % Cap
      /\ wr.state \in {"W_START", "W_RUN"} => wr.addr = wr.ptr + WrCmds
      /\ wr.out_idx = wc.data_cnt
  BY DEF PlaceInv
<1>4. /\ WrCmds \in Nat
      /\ wr.state = "W_DONE" => WrCmds' = 0
      /\ wr.state # "W_DONE" => WrCmds' = WrCmds + (IF WrAddrReq(in) THEN 1 ELSE 0)
  BY <1>1, WrCounts, CountTypes
<1>5. wc'.data_cnt = IF ~WrDataReq(in) THEN wc.data_cnt
                    ELSE IF wc.data_cnt = LENGTH - 1 THEN 0 ELSE wc.data_cnt + 1
  BY <1>1, WriteMoves
<1>6. wr.state # "W_RUN" =>
        ~WrDataReq(in) /\ ~WrAddrReq(in) /\ (wr.state # "W_DONE" => WrCmds = 0) /\ wc.data_cnt = 0
  BY <1>1 DEF WriteInv, WriteQuiet, WrDataReq, WrAddrReq, WrCmds
<1>7. Whole(wr'.written) /\ wr'.ptr = wr'.written % Cap
  <2>1. CASE wr.state = "W_DONE"
    <3>1. wr'.written = wr.written + LENGTH /\ wr'.ptr = Wrap(wr.ptr + LENGTH)
      BY <1>1, <2>1, WriterFields
    <3>2. Whole(wr.written + LENGTH)
      BY <1>3, WholeNat
    <3>3. (wr.written + LENGTH) % Cap = Wrap((wr.written % Cap) + LENGTH)
      BY <1>3, WholeLap
    <3> QED
      BY <1>3, <3>1, <3>2, <3>3, Zenon
  <2>2. CASE wr.state # "W_DONE"
    <3>1. wr'.written = wr.written /\ wr'.ptr = wr.ptr
      BY <1>1, <1>2, <2>2, WriterFields
    <3> QED
      BY <1>3, <3>1, Zenon
  <2> QED
    BY <2>1, <2>2
<1>8. wr'.state \in {"W_START", "W_RUN"} => wr'.addr = wr'.ptr + WrCmds'
  <2>1. CASE wr.state = "W_IDLE"
    BY <1>1, <1>2, <1>4, <1>6, <2>1, WriterFields
  <2>2. CASE wr.state = "W_START"
    BY <1>1, <1>2, <1>3, <1>4, <1>6, <2>2, WriterFields
  <2>3. CASE wr.state = "W_RUN"
    BY <1>1, <1>2, <1>3, <1>4, <2>3, WriterFields
  <2>4. CASE wr.state = "W_DONE"
    BY <1>1, <2>4, WriterFields
  <2> QED
    BY <1>2, <2>1, <2>2, <2>3, <2>4
<1>9. wr'.out_idx = wc'.data_cnt
  <2>1. (wr.out_idx + 1) % LENGTH = IF wr.out_idx = LENGTH - 1 THEN 0 ELSE wr.out_idx + 1
    BY <1>2, Sizes, ModNext
  <2>2. CASE wr.state = "W_RUN"
    <3>1. wr'.out_idx = IF WrDataReq(in) THEN (wr.out_idx + 1) % LENGTH ELSE wr.out_idx
      BY <1>1, <2>2, WriterFields
    <3> QED
      BY <1>3, <1>5, <2>1, <3>1, Zenon
  <2>3. CASE wr.state # "W_RUN"
    <3>1. wr'.out_idx = 0 \/ wr'.out_idx = wr.out_idx
      BY <1>1, <1>2, <2>3, WriterFields
    <3> QED
      BY <1>3, <1>5, <1>6, <2>3, <3>1
  <2> QED
    BY <2>2, <2>3
<1> QED
  BY <1>7, <1>8, <1>9 DEF PlaceInv

-----------------------------------------------------------------------------
\* The memory.

LEMMA LapWritten ==
  ASSUME NEW m \in [Addr -> Int], NEW e \in Nat, LastLap(m, e),
         NEW a, a = e % Cap
  PROVE  /\ [m EXCEPT ![a] = e] \in [Addr -> Int]
         /\ LastLap([m EXCEPT ![a] = e], e + 1)
<1>1. Cap \in Nat /\ Cap >= 1
  BY Sizes
<1>2. \A j \in Nat : j % Cap \in Addr
  BY <1>1, DivModBy DEF Addr
<1>3. a \in Addr
  BY <1>2
<1>4. ASSUME NEW j \in Nat, j < e + 1, e + 1 <= j + Cap
      PROVE  [m EXCEPT ![a] = e][j % Cap] = j
  <2>1. CASE j = e
    BY <1>3, <2>1
  <2>2. CASE j # e
    <3>1. j < e /\ e < j + Cap /\ j \in Int /\ e \in Int
      BY <1>1, <1>4, <2>2
    <3>2. j % Cap # a
      BY <1>1, <3>1, ModApart
    <3>3. m[j % Cap] = j
      BY <1>1, <3>1 DEF LastLap
    <3>4. [m EXCEPT ![a] = e][j % Cap] = m[j % Cap]
      BY <1>2, <3>2
    <3> QED
      BY <3>3, <3>4
  <2> QED
    BY <2>1, <2>2
<1> QED
  BY <1>3, <1>4 DEF LastLap

\* A write command goes to the place of the next word, and a data word is the next one.
LEMMA NextWritten ==
  ASSUME PortInv, BankInv, PlaceInv, NEW in \in Inputs
  PROVE  /\ WrAddrReq(in) => AppCmd.addr = (wr.written + WrCmds) % Cap
         /\ WrDataReq(in) => BankWord = wr.written + WrData
<1>1. TypeInv /\ WriteInv
  BY DEF PortInv
<1>2. ASSUME WrAddrReq(in)
      PROVE  AppCmd.addr = (wr.written + WrCmds) % Cap
  <2>1. wc.state = "WRITE" /\ wr.state = "W_RUN"
    BY <1>1, <1>2 DEF WrAddrReq, WriteInv, WriteQuiet
  <2>2. WrCmds \in 0 .. LENGTH - 1
    BY <1>1, <2>1, WriteTypes DEF WrCmds
  <2>3. (wr.written + WrCmds) % Cap = (wr.written % Cap) + WrCmds
    BY <2>2, WholeLap DEF PlaceInv
  <2>4. wr.addr = (wr.written % Cap) + WrCmds
    BY <2>1 DEF PlaceInv
  <2>5. AppCmd.addr = wr.addr
    BY <2>1 DEF AppCmd
  <2> QED
    BY <2>3, <2>4, <2>5, Zenon
<1>3. ASSUME WrDataReq(in)
      PROVE  BankWord = wr.written + WrData
  <2>1. wc.wren /\ wr.state = "W_RUN"
    BY <1>1, <1>3 DEF WrDataReq, WriteInv, WriteQuiet
  <2>2. wr.out_idx = WrData /\ wr.out_idx \in 0 .. LENGTH - 1
    BY <1>1, <2>1, WriteTypes DEF PlaceInv, WrData
  <2>3. (fill.seq - wr.commit) % 4 # 0
    BY <2>1 DEF BankInv, Occupancy
  <2>4. \A k \in 0 .. LENGTH - 1 : bank[wr.commit % 2][k] = wr.written + k
    BY <2>3 DEF BankInv, Banks
  <2> QED
    BY <2>2, <2>4 DEF BankWord
<1> QED
  BY <1>2, <1>3

LEMMA MemStep ==
  ASSUME PortInv, BankInv, PlaceInv, MemInv, NEW in \in Inputs, Clock(in)
  PROVE  MemInv'
<1> DEFINE w  == IF WrAddrReq(in) THEN 1 ELSE 0
           r  == IF RdAddrReq(in) THEN 1 ELSE 0
           d  == IF WrDataReq(in) THEN 1 ELSE 0
           xr == IF RdValid(in) THEN 1 ELSE 0
           xw == IF in.exec /\ ~RdValid(in) THEN 1 ELSE 0
           x  == xr + xw
           n  == w + r
           QW == QueuedWrites
           L  == Len(mig.cmds)
           D  == Len(mig.data)
           E  == Executed
           T  == wr.written + WrCmds
<1>1. TypeInv /\ WriteInv /\ ReadInv /\ QueueInv /\ WriterStep(in) /\ MigStep(in)
  BY DEF PortInv, Clock
<1>2. /\ w \in 0 .. 1 /\ r \in 0 .. 1 /\ d \in 0 .. 1 /\ xr \in 0 .. 1 /\ xw \in 0 .. 1
      /\ w = 1 <=> WrAddrReq(in)
      /\ r = 1 <=> RdAddrReq(in)
      /\ d = 1 <=> WrDataReq(in)
      /\ xr = 1 <=> RdValid(in)
      /\ xw = 1 <=> in.exec /\ ~RdValid(in)
  OBVIOUS
<1>3. /\ wr.state = "W_DONE" => WrCmds = LENGTH /\ w = 0 /\ WrCmds' = 0
      /\ wr.state # "W_DONE" => WrCmds' = WrCmds + w
  BY <1>1, WrCounts
<1> HIDE DEF w, r, d, xr, xw
<1>4. QueueMoved(w, r, d, xr, xw)
  BY <1>1, <1>2, QueueMoves, Zenon
<1>5. /\ x \in 0 .. 1 /\ n \in 0 .. 1
      /\ QW' = QW + w - xw
      /\ w = 1 => QueuedReads = 0 /\ xr = 0
      /\ xr = 1 => QW = 0
      /\ xw = 1 => QW > 0 /\ D >= 1
  BY <1>4, Zenon DEF QueueMoved
<1>6. /\ Shifted(mig'.cmds, mig.cmds, AppCmd, x, n)
      /\ Shifted(mig'.data, mig.data, BankWord, xw, d)
  BY <1>4, Zenon DEF QueueMoved
<1>7. /\ QW \in Nat /\ L \in Nat /\ D \in Nat /\ QW <= L /\ (QueuedReads = 0 => QW = L)
      /\ QW - D = WrCmds - WrData /\ WrCmds \in Nat /\ WrData \in Nat
      /\ wr.written \in Nat /\ LENGTH \in Nat
  <2>1. /\ WrCmds \in 0 .. LENGTH /\ WrData \in 0 .. LENGTH /\ QueuedReads \in Int
        /\ QW \in Int /\ L \in Nat /\ D \in Nat /\ LENGTH \in Nat
    BY <1>1, CountTypes, Sizes
  <2>2. QueuedReads >= 0 /\ QW >= 0 /\ QW - D = WrCmds - WrData /\ QW = L - QueuedReads
    BY <1>1 DEF QueueInv, QueuedWrites
  <2>3. wr \in WriterRegs
    BY <1>1 DEF TypeInv
  <2>4. wr.written \in Nat
    BY <2>3 DEF WriterRegs
  <2> HIDE DEF QW, L, D
  <2> QED
    BY <2>1, <2>2, <2>4
<1>8. E = T - QW /\ E \in Nat /\ T \in Nat
  <2>1. E \in Nat
    BY DEF MemInv
  <2>2. E = T - QW
    BY DEF Executed
  <2> QED
    BY <1>7, <2>1, <2>2
<1>9. /\ w = 1 => AppCmd.addr = T % Cap
      /\ d = 1 => BankWord = wr.written + WrData
  BY <1>2, NextWritten
<1>10. /\ \A k \in 1 .. L : k <= QW => mig.cmds[k].addr = (E + k - 1) % Cap
       /\ \A k \in 1 .. D : mig.data[k] = E + k - 1
       /\ mig.mem \in [Addr -> Int]
       /\ LastLap(mig.mem, E)
  BY DEF MemInv
<1>11. E' = E + xw
  <2> DEFINE T2 == wr'.written + WrCmds'
  <2>1. T2 = T + w
    <3>1. wr \in WriterRegs
      BY <1>1 DEF TypeInv
    <3>2. /\ wr.state = "W_DONE" => wr'.written = wr.written + LENGTH
          /\ wr.state # "W_DONE" => wr'.written = wr.written
      BY <1>1, <3>1, WriterFields DEF WriterRegs
    <3>3. CASE wr.state = "W_DONE"
      <4>1. wr'.written = wr.written + LENGTH /\ WrCmds = LENGTH /\ w = 0 /\ WrCmds' = 0
        BY <1>3, <3>2, <3>3
      <4> QED
        BY <1>7, <4>1
    <3>4. CASE wr.state # "W_DONE"
      <4>1. wr'.written = wr.written /\ WrCmds' = WrCmds + w
        BY <1>3, <3>2, <3>4
      <4> QED
        BY <1>2, <1>7, <4>1
    <3> QED
      BY <3>3, <3>4
  <2>2. E' = T2 - QW'
    BY DEF Executed
  <2>3. T \in Int
    BY <1>7
  <2> HIDE DEF T2, T, E, QW
  <2> QED
    BY <1>2, <1>5, <1>7, <1>8, <2>1, <2>2, <2>3
<1>12. E' \in Nat
  BY <1>2, <1>8, <1>11
\* The words in memory.
<1>13. mig'.mem \in [Addr -> Int] /\ LastLap(mig'.mem, E')
  <2>1. CASE xw = 1
    <3>1. in.exec /\ ~RdValid(in) /\ QW > 0 /\ D >= 1
      BY <1>2, <1>5, <2>1
    <3>2. Head(mig.cmds) = mig.cmds[1] /\ mig.cmds[1].op = "write" /\ L >= 1
      BY <1>1, <3>1, HeadOp
    <3> DEFINE a == Head(mig.cmds).addr
    <3>3. a = E % Cap
      <4>1. mig.cmds[1].addr = (E + 1 - 1) % Cap
        BY <1>7, <1>10, <3>1, <3>2
      <4>2. E + 1 - 1 = E
        BY <1>8
      <4> QED
        BY <3>2, <4>1, <4>2
    <3>4. Head(mig.data) = E
      <4>1. Head(mig.data) = mig.data[1]
        <5>1. mig.data \in Seq(Int)
          BY <1>1 DEF TypeInv
        <5> QED
          BY <3>1, <5>1
      <4>2. mig.data[1] = E + 1 - 1
        BY <1>7, <1>10, <3>1
      <4> QED
        BY <1>8, <4>1, <4>2
    <3>5. mig'.mem = [mig.mem EXCEPT ![a] = E]
      <4>1. Head(mig.cmds).op = "write"
        BY <3>2
      <4> QED
        BY <1>1, <3>1, <3>4, <4>1, Zenon DEF MigStep
    <3>6. E' = E + 1
      BY <1>11, <2>1
    <3> HIDE DEF a, E
    <3>7. /\ [mig.mem EXCEPT ![a] = E] \in [Addr -> Int]
          /\ LastLap([mig.mem EXCEPT ![a] = E], E + 1)
      BY <1>8, <1>10, <3>3, LapWritten
    <3> QED
      BY <3>5, <3>6, <3>7
  <2>2. CASE xw = 0
    <3>1. mig'.mem = mig.mem
      BY <1>1, <1>2, <2>2 DEF MigStep, RdValid
    <3>2. E' = E
      BY <1>8, <1>11, <2>2
    <3> QED
      BY <1>10, <3>1, <3>2
  <2> QED
    BY <1>2, <2>1, <2>2
\* The queued write commands.
<1>14. ASSUME NEW k \in 1 .. Len(mig'.cmds), k <= QW'
       PROVE  mig'.cmds[k].addr = (E' + k - 1) % Cap
  <2>1. Len(mig'.cmds) = L - x + n
    BY <1>6, Zenon DEF Shifted
  <2>2. x = xr + xw /\ n = w + r
    OBVIOUS
  <2> HIDE DEF x, n, QW, L, E, T, D
  <2>3. CASE k <= L - x
    <3>1. k \in 1 .. L - x /\ xr = 0 /\ x = xw /\ k + x \in 1 .. L /\ k + x <= QW
      BY <1>2, <1>5, <1>7, <1>14, <2>1, <2>2, <2>3
    <3>2. mig'.cmds[k] = mig.cmds[k + x]
      BY <1>6, <3>1 DEF Shifted, L
    <3>3. mig.cmds[k + x].addr = (E + (k + x) - 1) % Cap
      BY <1>10, <3>1
    <3>4. E + (k + x) - 1 = E' + k - 1
      BY <1>2, <1>8, <1>11, <3>1
    <3> QED
      BY <3>2, <3>3, <3>4
  <2>4. CASE ~(k <= L - x)
    <3>1. n = 1 /\ k = L - x + 1
      BY <1>5, <1>7, <2>1, <2>4
    <3>2. w = 1
      BY <1>2, <1>5, <1>7, <1>14, <2>2, <3>1
    <3>3. mig'.cmds[k] = AppCmd
      BY <1>6, <3>1 DEF Shifted, L
    <3>4. E' + k - 1 = T
      BY <1>2, <1>5, <1>7, <1>8, <1>11, <2>2, <3>1, <3>2
    <3> QED
      BY <1>9, <3>2, <3>3, <3>4
  <2> QED
    BY <2>3, <2>4
\* The queued data words.
<1>15. ASSUME NEW k \in 1 .. Len(mig'.data)
       PROVE  mig'.data[k] = E' + k - 1
  <2>1. Len(mig'.data) = D - xw + d
    BY <1>6, Zenon DEF Shifted
  <2>2. T = wr.written + WrCmds
    OBVIOUS
  <2> HIDE DEF x, n, QW, L, E, T, D
  <2>3. CASE k <= D - xw
    <3>1. k \in 1 .. D - xw /\ k + xw \in 1 .. D
      BY <1>2, <1>7, <2>1, <2>3
    <3>2. mig'.data[k] = mig.data[k + xw]
      BY <1>6, <3>1 DEF Shifted, D
    <3>3. mig.data[k + xw] = E + (k + xw) - 1
      BY <1>10, <3>1
    <3> QED
      BY <1>2, <1>8, <1>11, <3>2, <3>3
  <2>4. CASE ~(k <= D - xw)
    <3>1. d = 1 /\ k = D - xw + 1
      BY <1>2, <1>7, <2>1, <2>4
    <3>2. mig'.data[k] = wr.written + WrData
      BY <1>6, <1>9, <3>1 DEF Shifted, D
    <3>3. wr.written + WrData = E' + k - 1
      <4>1. E' + k - 1 = E + D
        BY <1>2, <1>7, <1>8, <1>11, <3>1
      <4>2. T + D - QW = wr.written + WrData
        <5> DEFINE wd == wr.written
                   c == WrCmds
                   dd == WrData
        <5>1. /\ T = wd + c /\ QW - D = c - dd
              /\ QW \in Nat /\ D \in Nat /\ c \in Nat /\ dd \in Nat /\ wd \in Nat
          BY <1>7, <2>2
        <5> HIDE DEF wd, c, dd
        <5>2. T + D - QW = wd + dd
          BY <5>1
        <5> QED
          BY <5>2 DEF wd, dd
      <4>3. E + D = T + D - QW
        BY <1>7, <1>8
      <4> QED
        BY <4>1, <4>2, <4>3
    <3> QED
      BY <3>2, <3>3
  <2> QED
    BY <2>3, <2>4
<1>16. \A k \in 1 .. Len(mig'.cmds) : k <= QW' => mig'.cmds[k].addr = (E' + k - 1) % Cap
  BY <1>14
<1>17. \A k \in 1 .. Len(mig'.data) : mig'.data[k] = E' + k - 1
  BY <1>15
<1> QED
  BY <1>12, <1>13, <1>16, <1>17, Zenon DEF MemInv

-----------------------------------------------------------------------------
\* What the streamer does to its numbers, state by state.

\* A burst that is drained (w: a word was read, a: a command was taken).
DrainMoved(w, a) ==
  /\ st.state = "R_IDLE" /\ st'.state = "R_START" =>
       ~st.pending /\ BurstAvail /\ st'.addr = st.ptr
  /\ st.state = "R_NEXT" => st'.ptr = Wrap(st.ptr + LENGTH)
  /\ st.state # "R_NEXT" => st'.ptr = st.ptr
  /\ st.state = "R_RUN" => st'.drained = st.drained + w
  /\ st.state # "R_RUN" => st'.drained = st.drained
  /\ st.state \in {"R_RUN", "X_RUN"} => st'.addr = st.addr + a
  /\ st.state \in {"R_START", "X_START"} => st'.addr = st.addr

\* A NACK is latched and its packets are resent.
ResendMoved(in, w) ==
  /\ st.state = "R_IDLE" /\ st'.state = "X_START" =>
       st.pending /\ RtxWindowOk /\ st'.addr = RtxAddr
  /\ st.state = "R_IDLE" /\ st'.state = "X_FAIL" => st.pending
  /\ ~st.pending /\ in.nack # << >> /\ st.state \notin {"X_RUN", "X_NEXT", "X_FAIL"} =>
       /\ st'.pending = TRUE
       /\ st'.abs = in.nack[1] * LENGTH /\ st'.left = in.nack[2] * LENGTH
  /\ ~st.pending /\ in.nack = << >> /\ st.state \notin {"X_RUN", "X_NEXT", "X_FAIL"} =>
       st'.pending = FALSE
  /\ st.pending /\ st.state \notin {"X_RUN", "X_NEXT", "X_FAIL"} =>
       st'.pending = TRUE /\ st'.abs = st.abs /\ st'.left = st.left
  /\ st.pending /\ st.state = "X_RUN" =>
       st'.pending = TRUE /\ st'.abs = st.abs + w /\ st'.left = st.left - w
  /\ st.pending /\ st.state = "X_NEXT" =>
       st'.pending = (st.left # 0) /\ st'.abs = st.abs /\ st'.left = st.left
  /\ st.state = "X_FAIL" => st'.pending = FALSE

LEMMA StreamerFields ==
  ASSUME st \in StreamerRegs, NEW in, StreamerStep(in)
  PROVE  /\ DrainMoved(IF RdValid(in) THEN 1 ELSE 0, IF RdAddrReq(in) THEN 1 ELSE 0)
         /\ ResendMoved(in, IF RdValid(in) THEN 1 ELSE 0)
         /\ st'.overrun = (st.overrun \/ OverrunNow)
<1> DEFINE base == StreamerBase(in)
           latch == in.nack # << >> /\ ~st.pending
           w == IF RdValid(in) THEN 1 ELSE 0
           a == IF RdAddrReq(in) THEN 1 ELSE 0
<1>1. /\ base.state = st.state /\ base.addr = st.addr
      /\ base.ptr = st.ptr /\ base.drained = st.drained
      /\ base.overrun = (st.overrun \/ OverrunNow)
      /\ base.pending = (st.pending \/ latch)
      /\ base.abs = (IF latch THEN in.nack[1] * LENGTH ELSE st.abs)
      /\ base.left = (IF latch THEN in.nack[2] * LENGTH ELSE st.left)
      /\ DOMAIN base = DOMAIN st
  BY BaseFields, Zenon
<1>2. DOMAIN st = {"state", "start", "addr", "ptr", "drained", "overrun", "pending", "abs", "left", "fail"}
  BY DEF StreamerRegs
<1>3. st' = StreamerNext(in)
  BY DEF StreamerStep
<1>4. /\ st.addr \in Nat /\ st.pending \in BOOLEAN
      /\ st.state \in {"R_IDLE", "R_START", "R_RUN", "R_NEXT", "X_START", "X_RUN", "X_NEXT", "X_FAIL"}
  BY DEF StreamerRegs
<1>5. ~st.pending =>
         /\ in.nack # << >> => /\ base.pending = TRUE
                               /\ base.abs = in.nack[1] * LENGTH
                               /\ base.left = in.nack[2] * LENGTH
         /\ in.nack = << >> => base.pending = FALSE
  BY <1>1
<1>6. st.pending => base.pending = TRUE /\ base.abs = st.abs /\ base.left = st.left
  BY <1>1
<1> HIDE DEF base
<1>7. CASE st.state = "R_IDLE"
  <2>1. /\ st'.ptr = base.ptr /\ st'.drained = base.drained /\ st'.overrun = base.overrun
        /\ st'.pending = base.pending /\ st'.abs = base.abs /\ st'.left = base.left
        /\ st'.state = "X_START" => st.pending /\ RtxWindowOk /\ st'.addr = RtxAddr
        /\ st'.state = "X_FAIL" => st.pending
        /\ st'.state = "R_START" => ~st.pending /\ BurstAvail /\ st'.addr = st.ptr
    BY <1>1, <1>2, <1>3, <1>7 DEF StreamerNext, base
  <2> QED
    BY <1>1, <1>5, <1>6, <1>7, <2>1 DEF DrainMoved, ResendMoved
<1>8. CASE st.state = "R_START" \/ st.state = "X_START"
  <2>1. /\ st'.ptr = base.ptr /\ st'.drained = base.drained /\ st'.overrun = base.overrun
        /\ st'.pending = base.pending /\ st'.abs = base.abs /\ st'.left = base.left
        /\ st'.addr = base.addr
    BY <1>1, <1>2, <1>3, <1>8 DEF StreamerNext, base
  <2> QED
    BY <1>1, <1>5, <1>6, <1>8, <2>1 DEF DrainMoved, ResendMoved
<1>9. CASE st.state = "R_RUN"
  <2>1. /\ st'.ptr = base.ptr /\ st'.drained = base.drained + w /\ st'.overrun = base.overrun
        /\ st'.pending = base.pending /\ st'.abs = base.abs /\ st'.left = base.left
        /\ st'.addr = IF RdAddrReq(in) THEN base.addr + 1 ELSE base.addr
    BY <1>1, <1>2, <1>3, <1>9 DEF StreamerNext, StreamerRun, base
  <2> QED
    BY <1>1, <1>4, <1>5, <1>6, <1>9, <2>1 DEF DrainMoved, ResendMoved
<1>10. CASE st.state = "X_RUN"
  <2>1. /\ st'.ptr = base.ptr /\ st'.drained = base.drained /\ st'.overrun = base.overrun
        /\ st'.pending = base.pending /\ st'.abs = base.abs + w /\ st'.left = base.left - w
        /\ st'.addr = IF RdAddrReq(in) THEN base.addr + 1 ELSE base.addr
    BY <1>1, <1>2, <1>3, <1>10 DEF StreamerNext, StreamerRun, base
  <2> QED
    BY <1>1, <1>4, <1>5, <1>6, <1>10, <2>1 DEF DrainMoved, ResendMoved
<1>11. CASE st.state = "R_NEXT"
  <2>1. /\ st'.ptr = Wrap(base.ptr + LENGTH) /\ st'.drained = base.drained /\ st'.overrun = base.overrun
        /\ st'.pending = base.pending /\ st'.abs = base.abs /\ st'.left = base.left
    BY <1>1, <1>2, <1>3, <1>11 DEF StreamerNext, base
  <2> QED
    BY <1>1, <1>5, <1>6, <1>11, <2>1 DEF DrainMoved, ResendMoved
<1>12. CASE st.state = "X_NEXT"
  <2>1. /\ st'.ptr = base.ptr /\ st'.drained = base.drained /\ st'.overrun = base.overrun
        /\ st'.pending = (st.left # 0) /\ st'.abs = base.abs /\ st'.left = base.left
    BY <1>1, <1>2, <1>3, <1>12 DEF StreamerNext, base
  <2> QED
    BY <1>1, <1>6, <1>12, <2>1 DEF DrainMoved, ResendMoved
<1>13. CASE st.state = "X_FAIL"
  <2>1. /\ st'.ptr = base.ptr /\ st'.drained = base.drained /\ st'.overrun = base.overrun
        /\ st'.pending = FALSE
    BY <1>1, <1>2, <1>3, <1>13 DEF StreamerNext, XFail, base
  <2> QED
    BY <1>1, <1>13, <2>1 DEF DrainMoved, ResendMoved
<1> QED
  BY <1>4, <1>7, <1>8, <1>9, <1>10, <1>11, <1>12, <1>13

\* The read commands of a burst, one by one.
LEMMA RdCmdsStep ==
  ASSUME PortInv, NEW in \in Inputs, Clock(in)
  PROVE  /\ RdCmds \in 0 .. LENGTH
         /\ ~rc'.done => RdCmds' = RdCmds + (IF RdAddrReq(in) THEN 1 ELSE 0)
         /\ ~Running => RdCmds = 0 /\ RdCmds' = 0 /\ ~RdAddrReq(in)
<1>1. TypeInv /\ ReadInv /\ RdCtrlStep(in) /\ rc \in RdCtrlRegs
  BY DEF PortInv, Clock, TypeInv
<1>2. /\ rc.state = "IDLE" => rc'.state = IF st.start THEN "RD_REQ" ELSE "IDLE"
      /\ rc.state = "RD_REQ" => rc'.state = IF ar.rd_ack THEN "READ" ELSE "RD_REQ"
      /\ rc.state = "READ" => rc'.state = IF rc'.done THEN "IDLE" ELSE "READ"
      /\ rc'.en <=> ~(RdAddrReq(in) /\ rc.cmd_cnt = LENGTH - 1) /\ (ar.rd_ack \/ rc.en)
      /\ rc'.cmd_cnt = IF RdAddrReq(in) THEN (rc.cmd_cnt + 1) % LENGTH ELSE rc.cmd_cnt
  BY <1>1 DEF RdCtrlStep
<1>3. /\ rc.cmd_cnt \in 0 .. LENGTH - 1 /\ LENGTH \in Nat /\ LENGTH >= 1
      /\ rc.state \in {"IDLE", "RD_REQ", "READ"}
  BY <1>1, Sizes DEF RdCtrlRegs
<1>4. (rc.cmd_cnt + 1) % LENGTH = IF rc.cmd_cnt = LENGTH - 1 THEN 0 ELSE rc.cmd_cnt + 1
  BY <1>3, ModNext
<1>5. RdAddrReq(in) => rc.en
  BY DEF RdAddrReq
<1>6. RdCmds \in 0 .. LENGTH
  BY <1>1, CountTypes
<1>7. ASSUME rc.state # "READ"
      PROVE  RdCmds = 0 /\ RdCmds' = 0 /\ ~RdAddrReq(in)
  <2>1. ~rc.en /\ rc.cmd_cnt = 0
    BY <1>1, <1>7 DEF ReadInv, ReadQuiet, ReadAsked, ReadRuns, ReadEnds
  <2>2. ~RdAddrReq(in) /\ rc'.cmd_cnt = 0
    BY <1>2, <1>5, <2>1
  <2>3. rc'.state = "READ" => rc'.en
    BY <1>2, <1>3, <1>7, <2>2
  <2> QED
    BY <1>7, <2>2, <2>3 DEF RdCmds
<1>8. ASSUME rc.state = "READ", ~rc'.done
      PROVE  RdCmds' = RdCmds + (IF RdAddrReq(in) THEN 1 ELSE 0)
  <2>1. ~ar.rd_ack /\ rc'.state = "READ"
    BY <1>1, <1>2, <1>8 DEF ReadInv, ReadQuiet, ReadAsked, ReadRuns, ReadEnds
  <2>2. /\ RdCmds = IF rc.en THEN rc.cmd_cnt ELSE LENGTH
        /\ RdCmds' = IF rc'.en THEN rc'.cmd_cnt ELSE LENGTH
    BY <1>8, <2>1 DEF RdCmds
  <2>3. CASE RdAddrReq(in)
    <3>1. /\ rc.en /\ rc'.cmd_cnt = IF rc.cmd_cnt = LENGTH - 1 THEN 0 ELSE rc.cmd_cnt + 1
          /\ rc'.en <=> rc.cmd_cnt # LENGTH - 1
      BY <1>2, <1>4, <1>5, <2>1, <2>3
    <3> QED
      BY <1>3, <2>2, <2>3, <3>1
  <2>4. CASE ~RdAddrReq(in)
    <3>1. rc'.cmd_cnt = rc.cmd_cnt /\ (rc'.en <=> rc.en)
      BY <1>2, <2>1, <2>4
    <3> QED
      BY <1>3, <2>2, <2>4, <3>1
  <2> QED
    BY <2>3, <2>4
<1>9. ~Running => rc.state # "READ"
  BY <1>1 DEF ReadInv, ReadQuiet
<1> QED
  BY <1>6, <1>7, <1>8, <1>9

\* What the writer counts never goes back.
LEMMA WrittenGrows ==
  ASSUME TypeInv, NEW in, WriterStep(in)
  PROVE  wr.written \in Nat /\ wr'.written \in Nat /\ wr.written <= wr'.written
<1>1. wr \in WriterRegs /\ LENGTH \in Nat
  BY Sizes DEF TypeInv
<1>2. wr'.written = wr.written \/ wr'.written = wr.written + LENGTH
  BY <1>1, WriterFields DEF WriterRegs
<1> QED
  BY <1>1, <1>2 DEF WriterRegs

\* A drain starts only when a whole burst is in the ring.
LEMMA DrainStarts ==
  ASSUME TypeInv, PlaceInv, st.ptr = st.drained % Cap, st.drained <= wr.written, BurstAvail
  PROVE  st.drained + LENGTH <= wr.written
<1>1. /\ st.drained \in Int /\ wr.written \in Int /\ Cap \in Nat /\ Cap >= 1 /\ LENGTH \in Nat
  BY Sizes DEF TypeInv, StreamerRegs, WriterRegs
<1>2. ((wr.written % Cap) - (st.drained % Cap)) % Cap = (wr.written - st.drained) % Cap
  BY <1>1, ModDiffBy
<1>3. wr.written - st.drained >= (wr.written - st.drained) % Cap
  BY <1>1, ModDiffBy
<1>4. (wr.written - st.drained) % Cap >= LENGTH
  <2>1. (wr.ptr - st.ptr) % Cap >= LENGTH
    BY Zenon DEF BurstAvail
  <2>2. wr.ptr = wr.written % Cap
    BY DEF PlaceInv
  <2> QED
    BY <1>2, <2>1, <2>2, Zenon
<1>5. (wr.written - st.drained) % Cap \in Int
  <2>1. wr.written - st.drained \in Int
    BY <1>1
  <2> QED
    BY <1>1, <2>1, DivModBy
<1> QED
  BY <1>1, <1>3, <1>4, <1>5

LEMMA DrainStep ==
  ASSUME PortInv, PlaceInv, DrainInv, NEW in \in Inputs, Clock(in)
  PROVE  DrainInv'
<1> DEFINE v == IF RdValid(in) THEN 1 ELSE 0
           a == IF RdAddrReq(in) THEN 1 ELSE 0
           D0 == Drained0
<1>1. TypeInv /\ st \in StreamerRegs /\ StreamerStep(in) /\ WriterStep(in)
  BY DEF PortInv, TypeInv, Clock
<1>2. DrainMoved(v, a)
  BY <1>1, StreamerFields
<1>3. /\ st.drained \in Nat /\ st.ptr \in Nat /\ st.addr \in Nat /\ LENGTH \in Nat
      /\ st.state \in {"R_IDLE", "R_START", "R_RUN", "R_NEXT", "X_START", "X_RUN", "X_NEXT", "X_FAIL"}
  BY <1>1, Sizes DEF StreamerRegs, Addr
<1>4. /\ Whole(D0)
      /\ st.ptr = D0 % Cap
      /\ st.state \in {"R_START", "R_RUN", "R_NEXT"} => D0 + LENGTH <= wr.written
      /\ st.drained <= wr.written
      /\ st.state = "R_START" => st.addr = st.ptr
      /\ st.state = "R_RUN" /\ ~rc.done => st.addr = st.ptr + RdCmds
  BY DEF DrainInv
<1>5. wr.written \in Nat /\ wr'.written \in Nat /\ wr.written <= wr'.written
  BY <1>1, WrittenGrows
<1>6. v \in 0 .. 1 /\ a \in 0 .. 1
  OBVIOUS
<1>7. /\ Pushed \in 0 .. LENGTH
      /\ ~Running => Pushed = 0 /\ Pushed' = 0
      /\ Running /\ ~rc.done => Pushed' = Pushed + v
      /\ Running /\ rc.done => Pushed = LENGTH /\ v = 0
  BY PushedStep
<1>8. /\ RdCmds \in 0 .. LENGTH
      /\ ~rc'.done => RdCmds' = RdCmds + a
      /\ ~Running => RdCmds = 0 /\ RdCmds' = 0 /\ a = 0
  BY RdCmdsStep
<1> HIDE DEF v, a
<1>9. CASE st.state = "R_IDLE"
  <2>1. st'.drained = st.drained /\ st'.ptr = st.ptr /\ D0 = st.drained
    BY <1>2, <1>9 DEF DrainMoved, Drained0
  <2>2. st'.state \in {"R_IDLE", "R_START", "X_START", "X_FAIL"}
    BY <1>1, <1>9, StreamerMoves
  <2>3. D0' = D0
    BY <2>1, <2>2 DEF Drained0
  <2>4. st'.state = "R_START" => st'.addr = st'.ptr /\ D0 + LENGTH <= wr.written
    <3>1. st'.state = "R_START" => BurstAvail /\ st'.addr = st.ptr
      BY <1>2, <1>9 DEF DrainMoved
    <3>2. st.ptr = st.drained % Cap
      BY <1>4, <2>1, Zenon
    <3> QED
      BY <1>1, <1>4, <2>1, <3>1, <3>2, DrainStarts
  <2> HIDE DEF D0
  <2>5. D0 \in Nat
    BY <1>4, WholeNat
  <2> QED
    BY <1>3, <1>4, <1>5, <2>1, <2>2, <2>3, <2>4, <2>5 DEF DrainInv, D0
<1>10. CASE st.state = "R_START"
  <2>1. /\ st'.drained = st.drained /\ st'.ptr = st.ptr /\ st'.addr = st.addr /\ D0 = st.drained
        /\ st'.state = "R_RUN" /\ ~Running
    BY <1>1, <1>2, <1>10, StreamerMoves DEF DrainMoved, Drained0, Running
  <2>2. D0' = st'.drained - Pushed'
    BY <2>1 DEF Drained0
  <2>3. D0' = D0
    BY <1>3, <1>7, <2>1, <2>2
  <2>4. st'.addr = st'.ptr + RdCmds'
    BY <1>3, <1>4, <1>8, <1>10, <2>1
  <2> HIDE DEF D0
  <2>5. D0 \in Nat
    BY <1>4, WholeNat
  <2> QED
    BY <1>3, <1>4, <1>5, <1>10, <2>1, <2>3, <2>4, <2>5 DEF DrainInv, D0
<1>11. CASE st.state = "R_RUN"
  <2>1. /\ st'.drained = st.drained + v /\ st'.ptr = st.ptr /\ st'.addr = st.addr + a
        /\ D0 = st.drained - Pushed /\ Running
        /\ st'.state = IF rc.done THEN "R_NEXT" ELSE "R_RUN"
    BY <1>1, <1>2, <1>11, StreamerMoves DEF DrainMoved, Drained0, Running
  <2>2. D0' = IF rc.done THEN st'.drained - LENGTH ELSE st'.drained - Pushed'
    BY <2>1 DEF Drained0
  <2>3. D0' = D0
    BY <1>3, <1>6, <1>7, <2>1, <2>2
  <2>4. ~rc.done /\ ~rc'.done => st'.addr = st'.ptr + RdCmds'
    BY <1>3, <1>4, <1>6, <1>8, <1>11, <2>1
  <2>5. D0 \in Nat
    BY <1>4, WholeNat, Zenon
  <2>6. st'.drained <= wr'.written
    <3>1. st'.drained <= D0 + LENGTH
      <4>1. Pushed' \in 0 .. LENGTH \/ rc.done
        <5>1. TypeInv'
          BY TypeStep DEF PortInv, Next
        <5>2. (Pushed \in 0 .. LENGTH)'
          BY <5>1, Sizes DEF Pushed, TypeInv, RdCtrlRegs
        <5> QED
          BY <5>2
      <4> QED
        BY <1>3, <1>6, <1>7, <2>1, <4>1
    <3> QED
      BY <1>3, <1>4, <1>5, <1>6, <1>11, <2>1, <2>5, <3>1
  <2> HIDE DEF D0
  <2> QED
    BY <1>3, <1>4, <1>5, <1>11, <2>1, <2>3, <2>4, <2>5, <2>6 DEF DrainInv, D0
<1>12. CASE st.state = "R_NEXT"
  <2>1. /\ st'.drained = st.drained /\ st'.ptr = Wrap(st.ptr + LENGTH)
        /\ D0 = st.drained - LENGTH /\ st'.state = "R_IDLE"
    BY <1>1, <1>2, <1>12, StreamerMoves DEF DrainMoved, Drained0
  <2>2. D0' = st.drained
    BY <2>1 DEF Drained0
  <2> HIDE DEF D0
  <2>3. D0 \in Nat /\ D0' = D0 + LENGTH /\ Whole(D0 + LENGTH)
    BY <1>3, <1>4, <2>1, <2>2, WholeNat
  <2>4. (D0 + LENGTH) % Cap = Wrap((D0 % Cap) + LENGTH)
    BY <1>4, WholeLap
  <2>5. st'.ptr = (D0 + LENGTH) % Cap
    BY <1>4, <2>1, <2>4, Zenon
  <2>6. Whole(D0') /\ st'.ptr = D0' % Cap
    BY <2>3, <2>5
  <2> QED
    BY <1>3, <1>4, <1>5, <2>1, <2>6 DEF DrainInv, D0
<1>13. CASE st.state \in {"X_START", "X_RUN", "X_NEXT", "X_FAIL"}
  <2>1. st'.drained = st.drained /\ st'.ptr = st.ptr /\ D0 = st.drained
    BY <1>2, <1>13 DEF DrainMoved, Drained0
  <2>2. st'.state \in {"R_IDLE", "X_RUN", "X_NEXT"}
    BY <1>1, <1>13, StreamerMoves
  <2>3. D0' = D0
    BY <2>1, <2>2 DEF Drained0
  <2> HIDE DEF D0
  <2> QED
    BY <1>3, <1>4, <1>5, <2>1, <2>2, <2>3 DEF DrainInv, D0
<1> QED
  BY <1>3, <1>9, <1>10, <1>11, <1>12, <1>13

LEMMA ResendStep ==
  ASSUME PortInv, ResendInv, NEW in \in Inputs, Clock(in)
  PROVE  ResendInv'
<1> DEFINE v == IF RdValid(in) THEN 1 ELSE 0
           a == IF RdAddrReq(in) THEN 1 ELSE 0
           A0 == Abs0
           L0 == Left0
           Resent == {"X_START", "X_RUN", "X_NEXT", "X_FAIL"}
<1>1. TypeInv /\ st \in StreamerRegs /\ StreamerStep(in) /\ WriterStep(in)
  BY DEF PortInv, TypeInv, Clock
<1>2. DrainMoved(v, a) /\ ResendMoved(in, v)
  BY <1>1, StreamerFields
<1>3. /\ st.abs \in Nat /\ st.left \in Int /\ st.addr \in Nat /\ LENGTH \in Nat /\ LENGTH >= 1
      /\ st.state \in {"R_IDLE", "R_START", "R_RUN", "R_NEXT", "X_START", "X_RUN", "X_NEXT", "X_FAIL"}
      /\ st.pending \in BOOLEAN
  BY <1>1, Sizes DEF StreamerRegs
<1>4. /\ st.state \in Resent => st.pending
      /\ st.pending => Whole(A0) /\ Whole(L0) /\ (st.state # "X_NEXT" => L0 >= LENGTH)
      /\ st.state \in {"X_START", "X_RUN"} => A0 + LENGTH <= wr.written
      /\ st.state = "X_START" => st.addr = A0 % Cap
      /\ st.state = "X_RUN" /\ ~rc.done => st.addr = (A0 % Cap) + RdCmds
  BY DEF ResendInv
<1>5. wr.written \in Nat /\ wr'.written \in Nat /\ wr.written <= wr'.written
  BY <1>1, WrittenGrows
<1>6. v \in 0 .. 1 /\ a \in 0 .. 1
  OBVIOUS
<1>7. /\ Pushed \in 0 .. LENGTH
      /\ ~Running => Pushed = 0 /\ Pushed' = 0
      /\ Running /\ ~rc.done => Pushed' = Pushed + v
      /\ Running /\ rc.done => Pushed = LENGTH /\ v = 0
  BY PushedStep
<1>8. /\ RdCmds \in 0 .. LENGTH
      /\ ~rc'.done => RdCmds' = RdCmds + a
      /\ ~Running => RdCmds = 0 /\ RdCmds' = 0 /\ a = 0
  BY RdCmdsStep
<1>9. Cap \in Nat /\ Cap >= 1 /\ Whole(0)
  BY Sizes, WholeTimes
<1> HIDE DEF v, a
\* Nothing pending: a NACK is latched, or none came.
<1>10. CASE ~st.pending
  <2>1. st.state \notin Resent
    BY <1>4, <1>10
  <2>2. st'.state \in {"R_IDLE", "R_START", "R_RUN", "R_NEXT"}
    BY <1>1, <1>2, <1>3, <1>10, <2>1, StreamerMoves DEF ResendMoved
  <2>3. CASE in.nack = << >>
    <3>1. st'.pending = FALSE
      BY <1>2, <1>10, <2>1, <2>3 DEF ResendMoved
    <3> QED
      BY <2>2, <3>1 DEF ResendInv
  <2>4. CASE in.nack # << >>
    <3>1. /\ st'.pending = TRUE
          /\ st'.abs = in.nack[1] * LENGTH /\ st'.left = in.nack[2] * LENGTH
      BY <1>2, <1>10, <2>1, <2>4 DEF ResendMoved
    <3>2. in.nack[1] \in Nat /\ in.nack[2] \in Nat /\ in.nack[2] >= 1
      <4>1. in.nack \in NackStarts \X NackCounts
        BY <2>4, InputsType
      <4>2. NackStarts \subseteq Nat /\ NackCounts \subseteq Nat \ {0}
        BY RingAssumption
      <4>3. in.nack[1] \in Nat /\ in.nack[2] \in Nat \ {0}
        BY <4>1, <4>2
      <4> QED
        BY <4>3
    <3>3. Whole(st'.abs) /\ Whole(st'.left)
      BY <3>1, <3>2, WholeTimes
    <3>4. st'.left >= LENGTH
      <4> DEFINE m == in.nack[2]
      <4>1. m \in Nat /\ m >= 1 /\ st'.left = m * LENGTH
        BY <3>1, <3>2
      <4> HIDE DEF m
      <4>2. m * LENGTH >= LENGTH
        BY <1>3, <4>1
      <4> QED
        BY <4>1, <4>2
    <3>5. Abs0' = st'.abs /\ Left0' = st'.left
      BY <2>2 DEF Abs0, Left0
    <3> QED
      BY <2>2, <3>1, <3>3, <3>4, <3>5 DEF ResendInv
  <2> QED
    BY <2>3, <2>4
<1>11. CASE st.pending /\ st.state \in {"R_IDLE", "R_START", "R_RUN", "R_NEXT"}
  <2>1. /\ st'.pending = TRUE /\ st'.abs = st.abs /\ st'.left = st.left
        /\ A0 = st.abs /\ L0 = st.left
    BY <1>2, <1>11 DEF ResendMoved, Abs0, Left0
  <2>2. /\ st'.state \in {"R_IDLE", "R_START", "X_START", "X_FAIL", "R_RUN", "R_NEXT"}
        /\ st'.state = "X_START" => st.state = "R_IDLE"
    BY <1>1, <1>11, StreamerMoves
  <2>3. A0' = A0 /\ L0' = L0
    BY <2>1, <2>2 DEF Abs0, Left0
  <2>4. st'.state = "X_START" => A0 + LENGTH <= wr.written /\ st'.addr = A0 % Cap
    <3>1. st'.state = "X_START" => st.abs + st.left <= wr.written /\ st'.addr = st.abs % Cap
      BY <1>2, <2>2 DEF ResendMoved, RtxWindowOk, RtxAddr
    <3> QED
      BY <1>3, <1>4, <1>5, <1>11, <2>1, <3>1
  <2> HIDE DEF A0, L0
  <2>5. A0 \in Nat
    BY <1>3, <2>1
  <2> QED
    BY <1>3, <1>4, <1>5, <1>11, <2>1, <2>2, <2>3, <2>4, <2>5 DEF ResendInv, A0, L0
<1>12. CASE st.state = "X_START"
  <2>1. /\ st'.pending = TRUE /\ st'.abs = st.abs /\ st'.left = st.left /\ st'.addr = st.addr
        /\ A0 = st.abs /\ L0 = st.left /\ st'.state = "X_RUN" /\ ~Running /\ st.pending
    BY <1>1, <1>2, <1>4, <1>12, StreamerMoves DEF ResendMoved, DrainMoved, Abs0, Left0, Running
  <2>2. A0' = st'.abs - Pushed' /\ L0' = st'.left + Pushed'
    BY <2>1 DEF Abs0, Left0
  <2>3. A0' = A0 /\ L0' = L0
    BY <1>3, <1>7, <2>1, <2>2
  <2>4. A0 % Cap \in Int
    <3>1. A0 \in Int
      BY <1>3, <2>1
    <3> HIDE DEF A0
    <3> QED
      BY <1>9, <3>1, DivModBy
  <2>5. st'.addr = (A0 % Cap) + RdCmds'
    <3>1. st'.addr = A0 % Cap /\ RdCmds' = 0
      BY <1>4, <1>8, <1>12, <2>1
    <3> QED
      BY <2>4, <3>1
  <2> HIDE DEF A0, L0
  <2>6. A0 \in Nat
    BY <1>3, <2>1
  <2> QED
    BY <1>3, <1>4, <1>5, <1>12, <2>1, <2>3, <2>5, <2>6 DEF ResendInv, A0, L0
<1>13. CASE st.state = "X_RUN" /\ ~rc.done
  <2>1. /\ st'.pending = TRUE /\ st'.abs = st.abs + v /\ st'.left = st.left - v /\ st'.addr = st.addr + a
        /\ A0 = st.abs - Pushed /\ L0 = st.left + Pushed /\ st'.state = "X_RUN" /\ Running /\ st.pending
    BY <1>1, <1>2, <1>4, <1>13, StreamerMoves DEF ResendMoved, DrainMoved, Abs0, Left0, Running
  <2>2. A0' = st'.abs - Pushed' /\ L0' = st'.left + Pushed'
    BY <2>1 DEF Abs0, Left0
  <2>3. A0' = A0 /\ L0' = L0
    BY <1>3, <1>6, <1>7, <1>13, <2>1, <2>2
  <2>4. A0 \in Int /\ A0 % Cap \in Int
    <3>1. A0 \in Int
      BY <1>3, <1>7, <2>1
    <3> HIDE DEF A0
    <3> QED
      BY <1>9, <3>1, DivModBy
  <2>5. ~rc'.done => st'.addr = (A0 % Cap) + RdCmds'
    <3> DEFINE m == A0 % Cap
    <3>1. m \in Int /\ st.addr = m + RdCmds
      BY <1>4, <1>13, <2>4
    <3> HIDE DEF m
    <3>2. ~rc'.done => st'.addr = m + RdCmds'
      BY <1>6, <1>8, <2>1, <3>1
    <3> QED
      BY <3>2 DEF m
  <2> HIDE DEF A0, L0
  <2> QED
    BY <1>3, <1>4, <1>5, <1>13, <2>1, <2>3, <2>4, <2>5 DEF ResendInv, A0, L0
<1>14. CASE st.state = "X_RUN" /\ rc.done
  <2>1. /\ st'.pending = TRUE /\ st'.abs = st.abs + v /\ st'.left = st.left - v
        /\ A0 = st.abs - Pushed /\ L0 = st.left + Pushed /\ st'.state = "X_NEXT" /\ Running /\ st.pending
    BY <1>1, <1>2, <1>4, <1>14, StreamerMoves DEF ResendMoved, Abs0, Left0, Running
  <2>2. A0' = st'.abs /\ L0' = st'.left
    BY <2>1 DEF Abs0, Left0
  <2>3. A0' = A0 + LENGTH /\ L0' = L0 - LENGTH
    BY <1>3, <1>7, <1>14, <2>1, <2>2
  <2>4. Whole(A0) /\ Whole(L0) /\ L0 # 0
    BY <1>3, <1>4, <1>14, <2>1
  <2> HIDE DEF A0, L0
  <2>5. Whole(A0 + LENGTH) /\ Whole(L0 - LENGTH)
    BY <2>4, WholeNat
  <2>6. Whole(A0') /\ Whole(L0')
    BY <2>3, <2>5
  <2> QED
    BY <2>1, <2>6 DEF ResendInv, A0, L0
<1>15. CASE st.state = "X_NEXT"
  <2>1. /\ st'.pending = (st.left # 0) /\ st'.abs = st.abs /\ st'.left = st.left
        /\ A0 = st.abs /\ L0 = st.left /\ st'.state = "R_IDLE" /\ st.pending
    BY <1>1, <1>2, <1>4, <1>15, StreamerMoves DEF ResendMoved, Abs0, Left0
  <2>2. A0' = A0 /\ L0' = L0
    BY <2>1 DEF Abs0, Left0
  <2>3. Whole(A0) /\ Whole(L0)
    BY <1>4, <2>1
  <2> HIDE DEF A0, L0
  <2>4. L0 # 0 => L0 >= LENGTH
    BY <2>3, WholeNat
  <2> QED
    BY <2>1, <2>2, <2>3, <2>4 DEF ResendInv, A0, L0
<1>16. CASE st.state = "X_FAIL"
  <2>1. st'.pending = FALSE /\ st'.state = "R_IDLE"
    BY <1>1, <1>2, <1>16, StreamerMoves DEF ResendMoved
  <2> QED
    BY <2>1 DEF ResendInv
<1> QED
  BY <1>3, <1>10, <1>11, <1>12, <1>13, <1>14, <1>15, <1>16

LEMMA ReadsStep ==
  ASSUME PortInv, ReadsInv, NEW in \in Inputs, Clock(in)
  PROVE  ReadsInv'
<1> DEFINE w  == IF WrAddrReq(in) THEN 1 ELSE 0
           r  == IF RdAddrReq(in) THEN 1 ELSE 0
           d  == IF WrDataReq(in) THEN 1 ELSE 0
           xr == IF RdValid(in) THEN 1 ELSE 0
           xw == IF in.exec /\ ~RdValid(in) THEN 1 ELSE 0
           x  == xr + xw
           n  == w + r
           QW == QueuedWrites
           QR == QueuedReads
           L  == Len(mig.cmds)
<1>1. TypeInv /\ WriteInv /\ ReadInv /\ QueueInv /\ st \in StreamerRegs /\ StreamerStep(in)
  BY DEF PortInv, TypeInv, Clock
<1>2. /\ w \in 0 .. 1 /\ r \in 0 .. 1 /\ d \in 0 .. 1 /\ xr \in 0 .. 1 /\ xw \in 0 .. 1
      /\ w = 1 <=> WrAddrReq(in)
      /\ r = 1 <=> RdAddrReq(in)
      /\ d = 1 <=> WrDataReq(in)
      /\ xr = 1 <=> RdValid(in)
      /\ xw = 1 <=> in.exec /\ ~RdValid(in)
  OBVIOUS
<1>3. DrainMoved(xr, r)
  BY <1>1, StreamerFields
<1>4. ~Running => RdCmds = 0 /\ r = 0
  BY RdCmdsStep
<1> HIDE DEF w, r, d, xr, xw
<1>5. QueueMoved(w, r, d, xr, xw)
  BY <1>1, <1>2, QueueMoves, Zenon
<1>6. /\ x \in 0 .. 1 /\ n \in 0 .. 1
      /\ QR' = QR + r - xr
      /\ QW' = QW + w - xw
      /\ w = 1 => QR = 0 /\ xr = 0
      /\ xr = 1 => QR > 0 /\ QW = 0
      /\ xw = 1 => QW > 0
      /\ AppCmd.op = "write" <=> wc.state = "WRITE"
      /\ r = 1 => wc.state # "WRITE"
  BY <1>5, Zenon DEF QueueMoved
<1>7. Shifted(mig'.cmds, mig.cmds, AppCmd, x, n)
  BY <1>5, Zenon DEF QueueMoved
<1>8. QW \in Nat /\ QR \in Nat /\ L \in Nat /\ QW = L - QR /\ st.addr \in Nat
  <2>1. QR \in Int /\ QW \in Int /\ L \in Nat /\ QR >= 0 /\ QW >= 0 /\ QW = L - QR
    BY <1>1, CountTypes DEF QueueInv, QueuedWrites
  <2>2. st.addr \in Nat
    BY <1>1 DEF StreamerRegs
  <2> HIDE DEF QR, QW, L
  <2> QED
    BY <2>1, <2>2
<1>9. QR > 0 \/ r = 1 => st'.addr = st.addr + r
  <2>1. ~Running => QR <= 0 /\ r = 0
    <3>1. ~Running => rc.state = "IDLE"
      BY <1>1 DEF ReadInv, ReadQuiet
    <3> QED
      BY <1>4, <3>1 DEF QueuedReads, RdWords
  <2>2. Running => st'.addr = st.addr + r
    BY <1>3 DEF DrainMoved, Running
  <2> QED
    BY <1>8, <2>1, <2>2
<1>10. /\ x = xr + xw /\ n = w + r
       /\ Len(mig'.cmds) = L - x + n
  BY <1>7, Zenon DEF Shifted
<1>11. ASSUME NEW k \in 1 .. Len(mig'.cmds), k > QW'
       PROVE  mig'.cmds[k].addr = st'.addr - (Len(mig'.cmds) + 1 - k)
  <2> HIDE DEF x, n, QW, QR, L
  <2>1. CASE k <= L - x
    <3>1. k \in 1 .. L - x /\ k + x \in 1 .. L
      BY <1>6, <1>8, <2>1, <1>10
    <3>2. k + x > QW /\ QR > 0 /\ w = 0
      BY <1>2, <1>6, <1>8, <1>10, <1>11, <3>1
    <3>3. mig'.cmds[k] = mig.cmds[k + x]
      BY <1>7, <3>1 DEF Shifted, L
    <3>4. mig.cmds[k + x].addr = st.addr - (L + 1 - (k + x))
      BY <3>1, <3>2 DEF ReadsInv, L, QW
    <3>5. st'.addr = st.addr + r
      BY <1>9, <3>2
    <3>6. st.addr - (L + 1 - (k + x)) = st'.addr - (Len(mig'.cmds) + 1 - k)
      BY <1>2, <1>6, <1>8, <1>10, <3>1, <3>2, <3>5
    <3> QED
      BY <3>3, <3>4, <3>6
  <2>2. CASE ~(k <= L - x)
    <3>1. n = 1 /\ k = L - x + 1
      BY <1>6, <1>8, <1>10, <2>2
    <3>2. r = 1
      BY <1>2, <1>6, <1>8, <1>10, <1>11, <3>1
    <3>3. mig'.cmds[k] = AppCmd
      BY <1>7, <3>1 DEF Shifted, L
    <3>4. AppCmd.addr = st.addr
      BY <1>6, <3>2 DEF AppCmd
    <3>5. st'.addr = st.addr + 1
      BY <1>9, <3>2
    <3> QED
      BY <1>6, <1>8, <1>10, <3>1, <3>3, <3>4, <3>5
  <2> QED
    BY <2>1, <2>2
<1>12. \A k \in 1 .. Len(mig'.cmds) : k > QW' => mig'.cmds[k].addr = st'.addr - (Len(mig'.cmds) + 1 - k)
  BY <1>11
<1> QED
  BY <1>12, Zenon DEF ReadsInv

-----------------------------------------------------------------------------
\* What leaves.

\* While a burst is read, all writes queued before it are done, and the oldest command
\* is the read of the burst's next word.
LEMMA HeadRead ==
  ASSUME PortInv, MemInv, ReadsInv, NEW in \in Inputs, Clock(in), RdValid(in)
  PROVE  /\ Running /\ ~rc.done /\ Pushed \in 0 .. LENGTH - 1
         /\ Executed = wr.written
         /\ RdData = mig.mem[st.addr - RdCmds + Pushed]
<1>1. TypeInv /\ WriteInv /\ ReadInv /\ QueueInv
  BY DEF PortInv
<1>2. Running /\ ~rc.done
  BY ValidStep
<1>3. in.exec /\ QueuedReads > 0 /\ QueuedWrites = 0
  BY <1>1, ExecQueued DEF RdValid
<1>4. rc.state = "READ" /\ ar.state = "READ"
  <2>1. rc.state = "READ"
    BY <1>3 DEF QueuedReads, RdCmds, RdWords
  <2> QED
    BY <1>1, <2>1 DEF ReadInv, ReadQuiet, ReadAsked, ReadRuns, ReadEnds
<1>5. Pushed = RdWords /\ RdWords \in 0 .. LENGTH - 1
  BY <1>1, <1>4, CountTypes DEF Pushed, RdWords
<1>6. WrCmds = 0
  <2>1. wc.state # "WRITE" /\ ~wc.done /\ wr.state # "W_DONE"
    BY <1>1, <1>4 DEF WriteInv, WriteQuiet, WriteAsked, WriteRuns, WriteEnds
  <2> QED
    BY <2>1 DEF WrCmds
<1>7. Executed = wr.written
  BY <1>1, <1>3, <1>6 DEF Executed, TypeInv, WriterRegs
<1>8. Head(mig.cmds) = mig.cmds[1] /\ Len(mig.cmds) >= 1
  BY <1>1, <1>3, HeadOp
<1>9. Len(mig.cmds) \in Nat /\ RdCmds \in Int /\ st.addr \in Nat /\ QueuedReads \in Int
  BY <1>1, CountTypes DEF TypeInv, StreamerRegs
<1>10. mig.cmds[1].addr = st.addr - (Len(mig.cmds) + 1 - 1)
  BY <1>3, <1>8, <1>9 DEF ReadsInv
<1>11. Len(mig.cmds) = RdCmds - RdWords
  BY <1>3, <1>5, <1>9 DEF QueuedWrites, QueuedReads
<1>12. mig.cmds[1].addr = st.addr - RdCmds + Pushed
  <2> DEFINE L == Len(mig.cmds)
             c == RdCmds
             p == Pushed
             a == st.addr
  <2>1. L = c - p /\ L \in Nat /\ c \in Int /\ p \in Int /\ a \in Nat /\ LENGTH \in Nat
    BY <1>5, <1>9, <1>11, Sizes
  <2>2. mig.cmds[1].addr = a - (L + 1 - 1)
    BY <1>10
  <2> HIDE DEF L, c, p, a
  <2>3. mig.cmds[1].addr = a - c + p
    BY <2>1, <2>2
  <2> QED
    BY <2>3 DEF a, c, p
<1>13. RdData = mig.mem[st.addr - RdCmds + Pushed]
  BY <1>8, <1>12, Zenon DEF RdData
<1> QED
  BY <1>2, <1>5, <1>7, <1>13

\* A word of the ring that the writer has not gone over yet.
LEMMA WordRead ==
  ASSUME MemInv, Executed = wr.written, wr.written \in Nat,
         NEW b, Whole(b), b + LENGTH <= wr.written, NEW p \in 0 .. LENGTH - 1, wr.written <= b + p + Cap
  PROVE  mig.mem[(b % Cap) + p] = b + p
<1>1. b \in Nat /\ LENGTH \in Nat /\ Cap \in Nat
  BY WholeNat, Sizes
<1>2. (b + p) % Cap = (b % Cap) + p
  BY WholeLap
<1>3. b + p \in Nat /\ b + p < wr.written /\ wr.written <= (b + p) + Cap
  BY <1>1
<1>4. LastLap(mig.mem, wr.written)
  BY DEF MemInv
<1>5. mig.mem[(b + p) % Cap] = b + p
  BY <1>3, <1>4 DEF LastLap
<1> QED
  BY <1>2, <1>5

\* What is drained is the stream or is reported as overrun, and what is resent from inside
\* the window is right.
EgressInv == DrainedRight /\ RetransmitInsideRight

LEMMA EgressStep ==
  ASSUME PortInv, DataInv, NEW in \in Inputs, Clock(in)
  PROVE  EgressInv'
<1>1. /\ TypeInv /\ st \in StreamerRegs /\ StreamerStep(in) /\ WriterStep(in)
      /\ MemInv /\ ReadsInv /\ DrainInv /\ ResendInv
  BY DEF PortInv, TypeInv, Clock, DataInv
<1>2. f' = EgressNext(in) /\ f'.valid \in BOOLEAN /\ (f'.valid <=> RdValid(in))
  BY ValidStep DEF Clock, StreamerStep
<1>3. CASE ~RdValid(in)
  BY <1>2, <1>3 DEF EgressInv, DrainedRight, RetransmitInsideRight
<1>4. CASE RdValid(in)
  <2>1. /\ Running /\ ~rc.done /\ Pushed \in 0 .. LENGTH - 1
        /\ Executed = wr.written
        /\ RdData = mig.mem[st.addr - RdCmds + Pushed]
    BY <1>1, <1>4, HeadRead
  <2>2. wr.written \in Nat /\ wr'.written \in Nat /\ wr.written <= wr'.written
    BY <1>1, WrittenGrows
  <2>3. DrainMoved(1, IF RdAddrReq(in) THEN 1 ELSE 0) /\ ResendMoved(in, 1)
    BY <1>1, <1>4, StreamerFields
  <2>4. st'.overrun = (st.overrun \/ OverrunNow)
    BY <1>1, StreamerFields
  <2>5. /\ st.drained \in Nat /\ st.abs \in Nat /\ st.ptr \in Nat /\ st.addr \in Nat
        /\ LENGTH \in Nat /\ LENGTH >= 1 /\ Cap \in Nat /\ Cap >= 1 /\ RdCmds \in Int
    BY <1>1, CountTypes, Sizes DEF StreamerRegs, Addr
  <2>6. CASE st.state = "R_RUN"
    <3>1. f' = [valid |-> TRUE, rtx |-> FALSE, data |-> RdData, seq |-> st.drained \div LENGTH]
      BY <1>2, <1>4, <2>6 DEF EgressNext
    <3>2. st'.drained = st.drained + 1
      BY <2>3, <2>6 DEF DrainMoved
    <3> DEFINE b == Drained0
    <3>3. /\ b = st.drained - Pushed /\ Whole(b) /\ b + LENGTH <= wr.written
          /\ st.addr = (b % Cap) + RdCmds
      BY <1>1, <2>1, <2>6 DEF DrainInv, Drained0
    <3> HIDE DEF b
    <3>4. b \in Nat /\ b % Cap \in Int
      BY <2>5, <3>3, WholeNat, DivModBy
    <3>5. st.addr - RdCmds + Pushed = (b % Cap) + Pushed
      <4> DEFINE m == b % Cap
      <4>1. m \in Int /\ st.addr = m + RdCmds
        BY <3>3, <3>4
      <4> HIDE DEF m
      <4>2. st.addr - RdCmds + Pushed = m + Pushed
        BY <2>1, <2>5, <4>1
      <4> QED
        BY <4>2 DEF m
    <3>6. CASE wr.written <= st.drained + Cap
      <4>1. wr.written <= b + Pushed + Cap /\ b + Pushed = st.drained
        BY <2>1, <2>5, <3>3, <3>4, <3>6
      <4>2. mig.mem[(b % Cap) + Pushed] = b + Pushed
        BY <1>1, <2>1, <2>2, <3>3, <4>1, WordRead
      <4>3. RdData = st.drained
        BY <2>1, <3>5, <4>1, <4>2
      <4> QED
        BY <2>5, <3>1, <3>2, <4>3 DEF EgressInv, DrainedRight, RetransmitInsideRight
    <3>7. CASE wr.written > st.drained + Cap
      <4>1. OverrunNow
        BY <2>2, <2>5, <3>7 DEF OverrunNow
      <4> QED
        BY <2>4, <3>1, <4>1 DEF EgressInv, DrainedRight, RetransmitInsideRight
    <3> QED
      BY <2>2, <2>5, <3>6, <3>7
  <2>7. CASE st.state = "X_RUN"
    <3>1. f' = [valid |-> TRUE, rtx |-> TRUE, data |-> RdData, seq |-> st.abs \div LENGTH]
      BY <1>2, <1>4, <2>7 DEF EgressNext
    <3>2. st.pending /\ st'.abs = st.abs + 1
      BY <1>1, <2>3, <2>7 DEF ResendInv, ResendMoved
    <3> DEFINE b == Abs0
    <3>3. /\ b = st.abs - Pushed /\ Whole(b) /\ b + LENGTH <= wr.written
          /\ st.addr = (b % Cap) + RdCmds
      BY <1>1, <2>1, <2>7, <3>2 DEF ResendInv, Abs0
    <3> HIDE DEF b
    <3>4. b \in Nat /\ b % Cap \in Int
      BY <2>5, <3>3, WholeNat, DivModBy
    <3>5. st.addr - RdCmds + Pushed = (b % Cap) + Pushed
      <4> DEFINE m == b % Cap
      <4>1. m \in Int /\ st.addr = m + RdCmds
        BY <3>3, <3>4
      <4> HIDE DEF m
      <4>2. st.addr - RdCmds + Pushed = m + Pushed
        BY <2>1, <2>5, <4>1
      <4> QED
        BY <4>2 DEF m
    <3>6. CASE st.abs + Cap >= wr'.written + LENGTH
      <4>1. wr.written <= b + Pushed + Cap /\ b + Pushed = st.abs
        BY <2>1, <2>2, <2>5, <3>3, <3>4, <3>6
      <4>2. mig.mem[(b % Cap) + Pushed] = b + Pushed
        BY <1>1, <2>1, <2>2, <3>3, <4>1, WordRead
      <4>3. RdData = st.abs
        BY <2>1, <3>5, <4>1, <4>2
      <4> QED
        BY <2>5, <3>1, <3>2, <4>3 DEF EgressInv, DrainedRight, RetransmitInsideRight
    <3>7. CASE ~(st.abs + Cap >= wr'.written + LENGTH)
      <4>1. ~(st'.abs - 1 + Cap >= wr'.written + LENGTH)
        BY <2>2, <2>5, <3>2, <3>7
      <4> QED
        BY <3>1, <4>1 DEF EgressInv, DrainedRight, RetransmitInsideRight
    <3> QED
      BY <3>6, <3>7
  <2> QED
    BY <2>1, <2>6, <2>7 DEF Running
<1> QED
  BY <1>3, <1>4

-----------------------------------------------------------------------------
\* What the memory will hold.

LEMMA SettledIs ==
  ASSUME PortInv, MemInv,
         NEW i \in 0 .. wr.written - 1, i + Cap >= wr.written + LENGTH
  PROVE  SettledWord(i % Cap) = i
<1> DEFINE a      == i % Cap
           writes == {k \in DOMAIN mig.cmds : mig.cmds[k].op = "write"}
           hits   == {k \in writes : mig.cmds[k].addr = a}
           last   == CHOOSE k \in hits : \A j \in hits : j <= k
           place  == Cardinality({k \in writes : k <= last})
           E  == Executed
           QW == QueuedWrites
           D  == Len(mig.data)
           c  == WrCmds
           W  == wr.written
<1>1. TypeInv /\ QueueInv
  BY DEF PortInv
<1>2. SettledWord(a) = IF hits = {} THEN mig.mem[a]
                       ELSE IF place <= Len(mig.data) THEN mig.data[place] ELSE NoWord
  BY DEF SettledWord
<1>3. /\ QW \in Nat /\ D \in Nat /\ c \in 0 .. LENGTH /\ W \in Nat /\ E \in Nat
      /\ LENGTH \in Nat /\ Cap \in Nat /\ Cap >= 1 /\ i \in Int
      /\ E + QW = W + c /\ W - E <= D
      /\ QW <= Len(mig.cmds) /\ Len(mig.cmds) \in Nat
  <2>1. /\ QW \in Int /\ D \in Nat /\ c \in 0 .. LENGTH /\ WrData \in 0 .. LENGTH
        /\ LENGTH \in Nat /\ Cap \in Nat /\ Cap >= 1
        /\ QueuedReads \in Int /\ Len(mig.cmds) \in Nat
    BY <1>1, CountTypes, Sizes
  <2>2. wr \in WriterRegs
    BY <1>1 DEF TypeInv
  <2>3. W \in Nat
    BY <2>2 DEF WriterRegs
  <2>4. E = (W + c) - QW
    BY DEF Executed
  <2>5. E \in Nat
    BY DEF MemInv
  <2>6. QueuedReads >= 0 /\ QW >= 0 /\ QW - D = c - WrData /\ QW = Len(mig.cmds) - QueuedReads
    BY <1>1 DEF QueueInv, QueuedWrites
  <2>7. i \in Int
    BY <2>3
  <2> HIDE DEF QW, D, c, W, E
  <2> QED
    BY <2>1, <2>3, <2>4, <2>5, <2>6, <2>7
<1>4. /\ \A k \in 1 .. Len(mig.cmds) : k <= QW => mig.cmds[k].addr = (E + k - 1) % Cap
      /\ \A k \in 1 .. D : mig.data[k] = E + k - 1
      /\ LastLap(mig.mem, E)
  BY DEF MemInv
<1>5. writes = 1 .. QW
  <2>1. DOMAIN mig.cmds = 1 .. Len(mig.cmds)
    BY <1>1 DEF TypeInv
  <2>2. \A k \in 1 .. Len(mig.cmds) : mig.cmds[k].op = "write" <=> k <= QW
    BY <1>1 DEF QueueInv
  <2>3. QW \in Nat /\ Len(mig.cmds) \in Nat /\ QW <= Len(mig.cmds)
    BY <1>3
  <2> HIDE DEF QW
  <2> QED
    BY <2>1, <2>2, <2>3
<1>6. hits = {k \in 1 .. QW : (E + k - 1) % Cap = a}
  <2>1. ASSUME NEW k \in 1 .. QW
        PROVE  mig.cmds[k].addr = (E + k - 1) % Cap
    <3>1. QW \in Nat /\ Len(mig.cmds) \in Nat /\ QW <= Len(mig.cmds)
      BY <1>3
    <3>2. \A j \in 1 .. Len(mig.cmds) : j <= QW => mig.cmds[j].addr = (E + j - 1) % Cap
      BY <1>4
    <3> HIDE DEF QW, E
    <3>3. k \in 1 .. Len(mig.cmds) /\ k <= QW
      BY <3>1
    <3> QED
      BY <3>2, <3>3
  <2> QED
    BY <1>5, <2>1
<1>7. i < W /\ i >= 0 /\ i + Cap >= W + LENGTH
  BY <1>3
<1> HIDE DEF writes, hits, last, place, E, QW, D, c, W
\* No queued write goes to the place of a word a lap behind it.
<1>8. ASSUME NEW k \in 1 .. QW, E + k - 1 > i
      PROVE  (E + k - 1) % Cap # a
  <2>1. E + k - 1 < i + Cap /\ E + k - 1 \in Int
    BY <1>3, <1>7
  <2> QED
    BY <1>3, <1>8, <2>1, ModApart
<1>9. CASE i < E
  <2>1. hits = {}
    <3>1. \A k \in 1 .. QW : E + k - 1 > i
      BY <1>3, <1>9
    <3> QED
      BY <1>6, <1>8, <3>1
  <2>2. mig.mem[a] = i
    <3>1. i \in Nat /\ i < E /\ E <= i + Cap
      BY <1>3, <1>7, <1>9
    <3> QED
      BY <1>4, <3>1 DEF LastLap
  <2> QED
    BY <1>2, <2>1, <2>2
<1>10. CASE i >= E
  <2> DEFINE p == i - E + 1
  <2>1. p \in 1 .. QW /\ p \in 1 .. D /\ E + p - 1 = i
    BY <1>3, <1>7, <1>10
  <2>2. p \in hits
    BY <1>6, <2>1
  <2>3. \A j \in hits : j \in 1 .. QW /\ j <= p
    <3>1. ASSUME NEW j \in hits
          PROVE  j \in 1 .. QW /\ j <= p
      <4>1. j \in 1 .. QW /\ (E + j - 1) % Cap = a
        BY <1>6
      <4>2. ~(E + j - 1 > i)
        BY <1>8, <4>1
      <4> QED
        BY <1>3, <2>1, <4>1, <4>2
    <3> QED
      BY <3>1
  <2> HIDE DEF p
  <2>4. last = p
    <3>1. \E k \in hits : \A j \in hits : j <= k
      BY <2>2, <2>3
    <3>2. last \in hits /\ \A j \in hits : j <= last
      BY <3>1 DEF last
    <3>3. p <= last /\ last <= p /\ last \in 1 .. QW
      BY <2>2, <2>3, <3>2
    <3> QED
      BY <1>3, <2>1, <3>3
  <2>5. {k \in writes : k <= last} = 1 .. p
    BY <1>3, <1>5, <2>1, <2>4
  <2>6. place = p
    <3>1. Cardinality(1 .. p) = p
      BY <2>1, FS_Interval
    <3> QED
      BY <2>5, <3>1 DEF place
  <2>7. mig.data[p] = i
    BY <1>4, <2>1
  <2>8. hits # {} /\ place <= Len(mig.data)
    BY <1>3, <2>1, <2>2, <2>6 DEF D
  <2> QED
    BY <1>2, <2>6, <2>7, <2>8
<1> QED
  BY <1>3, <1>9, <1>10

-----------------------------------------------------------------------------
\* The invariant of the ring.

RingInv == PortInv /\ RoomInv /\ DataInv /\ EgressInv

LEMMA RingInit == Init => RingInv
<1> SUFFICES ASSUME Init PROVE RingInv
  OBVIOUS
<1> USE Sizes
<1>1. PortInv
  BY PortInit
<1>2. RoomInv
  BY DEF Init, RoomInv, Running
<1>3. BankInv
  <2>1. /\ fill.seq = 0 /\ fill.idx = 0 /\ wr.commit = 0 /\ wr.written = 0 /\ captured = 0
        /\ wr.state = "W_IDLE"
    BY DEF Init
  <2>2. Banks(0, 0, 0, 0, 0, bank)
    BY DEF Banks
  <2> QED
    BY <2>1, <2>2 DEF BankInv
<1>4. WrCmds = 0 /\ QueuedReads = 0 /\ QueuedWrites = 0 /\ Executed = 0
  BY DEF Init, WrCmds, QueuedReads, RdCmds, RdWords, QueuedWrites, Executed
<1>5. Whole(0) /\ 0 % Cap = 0
  <2>1. 0 % Cap = 0
    BY ModNear
  <2> QED
    BY <2>1, WholeTimes
<1>6. PlaceInv
  BY <1>4, <1>5 DEF Init, PlaceInv
<1>7. MemInv
  <2>1. mig.mem \in [Addr -> Int] /\ Len(mig.cmds) = 0 /\ Len(mig.data) = 0
    BY DEF Init, NoWord
  <2>2. LastLap(mig.mem, 0)
    BY DEF LastLap
  <2> QED
    BY <1>4, <2>1, <2>2 DEF MemInv
<1>8. DrainInv
  BY <1>5 DEF Init, DrainInv, Drained0
<1>9. ResendInv
  BY DEF Init, ResendInv
<1>10. ReadsInv
  BY DEF Init, ReadsInv
<1>11. EgressInv
  BY DEF Init, EgressInv, DrainedRight, RetransmitInsideRight
<1> QED
  BY <1>1, <1>2, <1>3, <1>6, <1>7, <1>8, <1>9, <1>10, <1>11 DEF RingInv, DataInv

LEMMA RingStep == RingInv /\ [Next]_vars => RingInv'
<1> SUFFICES ASSUME RingInv, [Next]_vars PROVE RingInv'
  OBVIOUS
<1>1. /\ PortInv /\ RoomInv /\ DataInv /\ EgressInv
      /\ BankInv /\ PlaceInv /\ MemInv /\ DrainInv /\ ResendInv /\ ReadsInv
  BY DEF RingInv, DataInv
<1>2. PortInv'
  BY <1>1, PortStep
<1>3. ASSUME NEW in \in Inputs, Clock(in)
      PROVE  RoomInv' /\ DataInv' /\ EgressInv'
  <2>1. RoomInv' /\ EgressInv'
    BY <1>1, <1>3, RoomStep, EgressStep
  <2>2. BankInv' /\ PlaceInv' /\ MemInv'
    BY <1>1, <1>3, BankStep, PlaceStep, MemStep
  <2>3. DrainInv' /\ ResendInv' /\ ReadsInv'
    BY <1>1, <1>3, DrainStep, ResendStep, ReadsStep
  <2> QED
    BY <2>1, <2>2, <2>3 DEF DataInv
<1>4. CASE UNCHANGED vars
  <2>1. /\ captured' = captured /\ fill' = fill /\ bank' = bank /\ wr' = wr /\ wc' = wc
        /\ rc' = rc /\ ar' = ar /\ st' = st /\ f' = f /\ depth' = depth /\ mig' = mig
    BY <1>4 DEF vars
  <2>2. RoomInv'
    BY <1>1, <2>1 DEF RoomInv, Running, Pushed
  <2>3. BankInv'
    BY <1>1, <2>1 DEF BankInv, Banks, Occupancy
  <2>4. /\ WrCmds' = WrCmds /\ QueuedWrites' = QueuedWrites /\ Executed' = Executed
        /\ RdCmds' = RdCmds /\ Pushed' = Pushed
    BY <2>1 DEF WrCmds, QueuedWrites, QueuedReads, RdCmds, RdWords, Executed, Pushed
  <2>5. PlaceInv'
    BY <1>1, <2>1, <2>4 DEF PlaceInv, Whole
  <2>6. MemInv'
    BY <1>1, <2>1, <2>4 DEF MemInv, LastLap
  <2>7. Drained0' = Drained0 /\ Abs0' = Abs0 /\ Left0' = Left0
    BY <2>1, <2>4 DEF Drained0, Abs0, Left0
  <2>8. DrainInv'
    BY <1>1, <2>1, <2>4, <2>7 DEF DrainInv, Whole
  <2>9. ResendInv'
    BY <1>1, <2>1, <2>4, <2>7 DEF ResendInv, Whole
  <2>10. ReadsInv'
    BY <1>1, <2>1, <2>4 DEF ReadsInv
  <2>11. EgressInv'
    BY <1>1, <2>1 DEF EgressInv, DrainedRight, RetransmitInsideRight
  <2> QED
    BY <1>2, <2>2, <2>3, <2>5, <2>6, <2>8, <2>9, <2>10, <2>11 DEF DataInv, RingInv
<1> QED
  BY <1>2, <1>3, <1>4 DEF Next, RingInv

LEMMA RingInvariant == Spec => []RingInv
  BY RingInit, RingStep, PTL DEF Spec

LEMMA RingInvRight == RingInv => RingRight /\ EgressRight
<1> SUFFICES ASSUME RingInv PROVE RingRight /\ EgressRight
  OBVIOUS
<1>1. PortInv /\ RoomInv /\ MemInv /\ DrainedRight /\ RetransmitInsideRight
  BY DEF RingInv, DataInv, EgressInv
<1>2. CommittedInRing
  BY <1>1, SettledIs DEF CommittedInRing
<1>3. NoEgressLoss
  <2>1. SUFFICES ASSUME f.valid PROVE depth < FIFO_WORDS
    BY DEF NoEgressLoss
  <2>2. depth + 1 + LENGTH - Pushed <= FIFO_WORDS
    BY <1>1, <2>1 DEF RoomInv
  <2>3. Pushed \in 0 .. LENGTH /\ depth \in Nat /\ FIFO_WORDS \in Nat /\ LENGTH \in Nat
    BY <1>1, Sizes DEF Pushed, PortInv, TypeInv, RdCtrlRegs
  <2> QED
    BY <2>2, <2>3
<1> QED
  BY <1>1, <1>2, <1>3 DEF RingRight, EgressRight

\* la_ddr_writer puts the captured words into the ring each at its own place, as far back
\* as a burst short of the ring's size, and la_ddr_ring_streamer drains them in order
\* under their own packet numbers or reports an overrun, for every size of the ring and
\* of the MIG's queue and all its stalls.
THEOREM RingHoldsTheStream == Spec => []RingRight
  BY RingInvariant, RingInvRight, PTL

\* A packet resent from inside the history window is the one asked for, and no word that
\* leaves finds the egress FIFO full, though room is checked only before a burst.
THEOREM NothingLeavesWrong == Spec => []EgressRight
  BY RingInvariant, RingInvRight, PTL

=============================================================================
