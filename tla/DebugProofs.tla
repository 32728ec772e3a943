---------------------------- MODULE DebugProofs ----------------------------
(***************************************************************************)
(* Proofs about the debug interface and the two wire interfaces below it.   *)
(*                                                                         *)
(* DbgIF: a transfer that ends without an error was run once and reached     *)
(* the device it named (TransferRunsOnce), the clock that was asked for is    *)
(* not exceeded and its divisor fits (ClockIsRight), and the state machine   *)
(* implements GoDone (DebugKeepsHandshake).  What has to be carried along is *)
(* DbgInv, stated of the registers d before and after a clock.              *)
(*                                                                         *)
(* SwdIF: what a transfer reports is what the target answered and took      *)
(* (SwdRight), and host and target keep in step on the one line (WireKept),  *)
(* for words of any length and every setting the cooling covers.  The        *)
(* invariant follows a transfer through its states: in each it says in which *)
(* phase the target is, how many clocks it has left there, who drives the    *)
(* line, and which bits have gone over it so far.                           *)
(*                                                                         *)
(* JtagIF: a command that is over did to the devices what it says           *)
(* (JtagRight), for a chain of any number of devices, registers of any       *)
(* length and words of any length.  The invariant JtagInv says where along   *)
(* the TMS bits of its command the TAP stands, and, while registers are       *)
(* shifted, that every bit has gone one place on with every bit: after n     *)
(* bits a place holds what was n places behind it, of what the registers     *)
(* showed and then of what was sent.                                        *)
(***************************************************************************)
EXTENDS DbgIF, SwdIF, JtagIF, ModFacts, FiniteSetTheorems, SequenceTheorems

States ==
  {"IDLE", "WAIT_GOCLEAR", "CALC_DIV", "WAIT_INFERIOR_START", "WAIT_INFERIOR_FINISH",
   "HANDLE_TRANSACT", "WAIT_TIMEOUT", "WAIT_CLKCHANGE", "RESETTING", "RESET_GUARD",
   "ESTABLISH_MODE"}

Access == {"APACC", "DPACC"}

Registers ==
  [state : States, active : {"LOCAL", "SWD", "SWJ", "JTAG"},
   commanded : {"LOCAL", "SWD", "JTAG"}, jtag_cmd : {"IR", "TFR", "READID", "RESET"},
   trans_os : BOOLEAN, current_dev : Devs \cup {NoDev},
   ir : {"BYPASS", UNKNOWN} \cup Access, perr : BOOLEAN,
   usecsdown : Nat, rst_timeout : Nat, step : Nat, clkDiv : Nat]

\* The layer above asks for an ID in JTAG mode only: else the interface takes the
\* instruction that was shifted before for one the chain still has.
OnlyJtagId == AnyModeId = FALSE

\* The registers of the layer above.
InOK ==
  /\ in.dev \in Devs /\ in.apndp \in Access /\ in.dwrite \in Nat
  /\ go \in BOOLEAN /\ ran \in Nat /\ busy \in {"none", "SWD", "JTAG"}

-----------------------------------------------------------------------------
\* A state runs commands of its kind only, and a transfer is pending only while a
\* command to transfer is on its way to the JTAG interface or back.
KindInv(d) ==
  /\ d.state \in {"WAIT_INFERIOR_START", "WAIT_INFERIOR_FINISH"} =>
       in.command \in {"TRANSACT", "JTAG_REG", "JTAG_GET_ID", "JTAG_RESET"}
  /\ d.state \in {"WAIT_TIMEOUT", "WAIT_CLKCHANGE", "RESETTING", "RESET_GUARD",
                  "ESTABLISH_MODE"} => in.command \notin {"TRANSACT", "SET_CLK"}
  /\ d.state = "CALC_DIV" => in.command = "SET_CLK"
  /\ d.state = "HANDLE_TRANSACT" => d.trans_os
  /\ d.trans_os =>
       /\ in.command = "TRANSACT" /\ d.active = "JTAG"
       /\ d.state \in {"WAIT_INFERIOR_START", "WAIT_INFERIOR_FINISH", "WAIT_GOCLEAR",
                       "HANDLE_TRANSACT"}

\* An interface below is busy only while the state machine waits for it.
BusyInv(d) ==
  busy # "none" =>
    busy = d.active /\ d.state \in {"WAIT_INFERIOR_START", "WAIT_INFERIOR_FINISH"}

\* While the divisor is counted, twice the clock that was asked for goes clkDiv
\* times into the system clock; when it is done, not once more.
ClockInv(d) ==
  in.command = "SET_CLK" =>
    /\ d.state = "CALC_DIV" =>
         MIN_CLOCK <= in.dwrite /\ 2 * in.dwrite * d.clkDiv < ClkFreq
    /\ d.state = "WAIT_GOCLEAR" /\ ~d.perr =>
         /\ ClkFreq <= 2 * in.dwrite * (d.clkDiv + 1)
         /\ d.clkDiv < 2^CdivLog2

\* Who the interface below is told to serve.
OrderInv(d) ==
  /\ d.state = "WAIT_INFERIOR_START" =>
       CASE in.command = "TRANSACT" -> d.jtag_cmd = IF d.trans_os THEN "IR" ELSE "TFR"
         [] in.command = "JTAG_REG" -> d.jtag_cmd = "IR" /\ d.ir = UNKNOWN
         [] in.command = "JTAG_RESET" -> d.jtag_cmd = "RESET" /\ d.ir = UNKNOWN
         [] OTHER -> d.jtag_cmd = "READID"
  /\ in.command = "TRANSACT" /\ d.state \in {"WAIT_INFERIOR_START", "WAIT_INFERIOR_FINISH",
                                             "WAIT_GOCLEAR", "HANDLE_TRANSACT"} =>
       /\ d.active = d.commanded /\ d.ir = in.apndp
       /\ d.active = "JTAG" => d.current_dev = in.dev
  /\ OnlyJtagId /\ in.command = "JTAG_GET_ID" /\ d.state = "IDLE" /\ go => d.commanded = "JTAG"

\* What the interface believes of the JTAG chain is true, but while a new instruction
\* is still to be shifted.
Selected(dev, ir) == [x \in Devs |-> IF x = dev THEN ir ELSE "BYPASS"]

ChainInv(d) ==
  /\ OnlyJtagId /\ d.commanded = "JTAG" /\ d.ir \in Access
  /\ ~(d.trans_os /\ d.state = "WAIT_INFERIOR_START" /\ busy = "none")
  => chainIr = Selected(d.current_dev, d.ir)

\* How often a transfer ran: not before it is told to the interface below, nor while
\* only the instruction is shifted.
RanInv(d) ==
  OnlyJtagId /\ in.command = "TRANSACT" =>
    CASE d.state = "IDLE" -> IF go THEN ran = 0 ELSE d.perr \/ ran = 1
      [] d.state = "WAIT_INFERIOR_START" ->
           ran = IF busy = "none" \/ d.trans_os THEN 0 ELSE 1
      [] d.state = "WAIT_INFERIOR_FINISH" -> ran = IF d.trans_os THEN 0 ELSE 1
      [] d.state = "WAIT_GOCLEAR" -> IF d.trans_os THEN ran = 0 ELSE d.perr \/ ran = 1
      [] d.state = "HANDLE_TRANSACT" -> ran = 0
      [] OTHER -> TRUE

DbgInvOf(d) ==
  /\ d \in Registers
  /\ KindInv(d) /\ BusyInv(d) /\ ClockInv(d) /\ OrderInv(d) /\ ChainInv(d) /\ RanInv(d)

DbgInv == InOK /\ DbgInvOf(dbg)

-----------------------------------------------------------------------------
\* A record with the registers and nothing else.
Whole(e) ==
  e = [state |-> e.state, active |-> e.active, commanded |-> e.commanded,
       jtag_cmd |-> e.jtag_cmd, trans_os |-> e.trans_os, current_dev |-> e.current_dev,
       ir |-> e.ir, perr |-> e.perr, usecsdown |-> e.usecsdown,
       rst_timeout |-> e.rst_timeout, step |-> e.step, clkDiv |-> e.clkDiv]

Typed(e) ==
  /\ e.state \in States /\ e.active \in {"LOCAL", "SWD", "SWJ", "JTAG"}
  /\ e.commanded \in {"LOCAL", "SWD", "JTAG"} /\ e.jtag_cmd \in {"IR", "TFR", "READID", "RESET"}
  /\ e.trans_os \in BOOLEAN /\ e.current_dev \in Devs \cup {NoDev}
  /\ e.ir \in {"BYPASS", UNKNOWN} \cup Access /\ e.perr \in BOOLEAN
  /\ e.usecsdown \in Nat /\ e.rst_timeout \in Nat /\ e.step \in Nat /\ e.clkDiv \in Nat

LEMMA RegistersAre ==
  ASSUME NEW e, Whole(e), Typed(e)
  PROVE  e \in Registers
  BY DEF Whole, Typed, Registers

-----------------------------------------------------------------------------
\* The constants, as numbers.
LEMMA ConstantsAre ==
  /\ Devs # {} /\ Devs \subseteq Nat
  /\ ClkFreq \in Nat /\ DefaultDiv \in Nat /\ ModeSteps \in Nat
  /\ 2^CdivLog2 \in Nat /\ 1 <= 2^CdivLog2 /\ 2^CdivLog2 <= ClkFreq
  /\ MIN_CLOCK \in Nat /\ MAX_CLOCK \in Nat /\ 1 <= MIN_CLOCK
  /\ ClkFreq < 2^CdivLog2 * (MIN_CLOCK + 1)
<1> DEFINE K == 2^CdivLog2
<1>1. /\ Devs # {} /\ Devs \subseteq Nat
      /\ ClkFreq \in Nat /\ DefaultDiv \in Nat /\ ModeSteps \in Nat
      /\ K \in Nat /\ 1 <= K /\ K <= ClkFreq
  BY DbgAssumption
<1> HIDE DEF K
<1>2. /\ ClkFreq \div K \in Int /\ ClkFreq % K \in 0 .. K - 1
      /\ ClkFreq = K * (ClkFreq \div K) + (ClkFreq % K)
  BY <1>1, DivModBy
<1> DEFINE q == ClkFreq \div K
<1>3. q \in Int /\ K * (q + 1) = K * q + K
  BY <1>1, <1>2
<1>4. ClkFreq < K * (q + 1)
  BY <1>1, <1>2, <1>3
<1> HIDE DEF q
<1>5. q >= 1
  <2>1. SUFFICES ASSUME q <= 0 PROVE FALSE
    BY <1>3
  <2>2. K * (q + 1) <= K
    BY <1>1, <1>3, <2>1
  <2> QED
    BY <1>1, <1>3, <1>4, <2>2
<1>6. ClkFreq \div 4 \in Nat
  BY <1>1
<1> QED
  BY <1>1, <1>3, <1>4, <1>5, <1>6 DEF K, q, MIN_CLOCK, MAX_CLOCK

Known ==
  {"PINS_WRITE", "RESET", "JTAG_REG", "TRANSACT", "SET_SWD", "SET_JTAG", "JTAG_GET_ID",
   "JTAG_RESET", "SET_SWJ", "SET_CLK", "SET_SWD_CFG", "SET_JTAG_CFG", "WAIT", "SET_TFR_CFG",
   "CLR_ERR", "SET_RST_TMR"}

Aside == {"WAIT_GOCLEAR", "WAIT_TIMEOUT", "WAIT_CLKCHANGE", "RESETTING", "RESET_GUARD",
  "ESTABLISH_MODE"}

\* A command that leaves the interfaces below alone keeps what is known.
LEMMA AsideKeeps ==
  ASSUME DbgInv, dbg.state \in Aside \cup {"IDLE"}, in.command \notin {"TRANSACT", "SET_CLK"},
         NEW e \in Registers, ~e.trans_os,
         e.state \in Aside,
         e.commanded = "JTAG" /\ e.ir \in Access =>
           dbg.commanded = "JTAG" /\ e.ir = dbg.ir /\ e.current_dev = dbg.current_dev
  PROVE  DbgInvOf(e)
<1> USE DEF DbgInv, DbgInvOf, InOK, Aside
<1>1. busy = "none"
  BY DEF BusyInv
<1>2. KindInv(e) /\ BusyInv(e) /\ ClockInv(e) /\ OrderInv(e) /\ RanInv(e)
  BY <1>1 DEF KindInv, BusyInv, ClockInv, OrderInv, RanInv
<1>3. ChainInv(e)
  BY <1>1 DEF ChainInv
<1> QED
  BY <1>2, <1>3

\* Every command keeps it.  Only the transfer, the instruction register, the ID and the
\* reset of the JTAG chain go to an interface below.
LEMMA DispatchKeeps ==
  ASSUME DbgInv, dbg.state = "IDLE", go, NEW d, d = [dbg EXCEPT !.perr = FALSE]
  PROVE  DbgInvOf(Dispatch(d))
<1> DEFINE e == Dispatch(d)
<1>1. /\ dbg \in Registers /\ dbg.trans_os = FALSE /\ busy = "none"
      /\ in.dev \in Devs /\ in.apndp \in Access /\ in.dwrite \in Nat
      /\ OrderInv(dbg) /\ ChainInv(dbg) /\ RanInv(dbg)
  BY DEF DbgInv, DbgInvOf, InOK, KindInv, BusyInv, Registers
<1>2. CASE in.command = "PINS_WRITE"
  <2>1. e = [d EXCEPT !.ir = UNKNOWN, !.active = "SWJ",
                   !.usecsdown = IF in.dwrite > 0 THEN in.dwrite ELSE @,
                   !.state = IF in.dwrite > 0 THEN "WAIT_TIMEOUT" ELSE "WAIT_CLKCHANGE"]
    BY <1>2 DEF Dispatch
  <2> HIDE DEF e
  <2>2. Whole(e)
    BY <1>1, <2>1 DEF Registers, Whole
  <2>3. e \in Registers
    <3>1. Typed(e)
      BY <1>1, <2>1, <2>2 DEF Typed, Registers, States, Access, UNKNOWN
    <3> QED
      BY <2>2, <3>1, RegistersAre
  <2>4. /\ e.state \in Aside /\ ~e.trans_os
        /\ e.commanded = "JTAG" /\ e.ir \in Access =>
             dbg.commanded = "JTAG" /\ e.ir = dbg.ir /\ e.current_dev = dbg.current_dev
    BY <1>1, <2>1 DEF Registers, Access, UNKNOWN, Aside
  <2>5. DbgInvOf(e)
    BY <1>2, <2>3, <2>4, AsideKeeps DEF Aside
  <2> QED
    BY <2>5 DEF e
<1>3. CASE in.command = "RESET"
  <2>1. e = [d EXCEPT !.ir = UNKNOWN, !.active = d.commanded, !.usecsdown = d.rst_timeout,
                   !.state = "RESETTING"]
    BY <1>3 DEF Dispatch
  <2> HIDE DEF e
  <2>2. Whole(e)
    BY <1>1, <2>1 DEF Registers, Whole
  <2>3. e \in Registers
    <3>1. Typed(e)
      BY <1>1, <2>1, <2>2 DEF Typed, Registers, States, Access, UNKNOWN
    <3> QED
      BY <2>2, <3>1, RegistersAre
  <2>4. /\ e.state \in Aside /\ ~e.trans_os
        /\ e.commanded = "JTAG" /\ e.ir \in Access =>
             dbg.commanded = "JTAG" /\ e.ir = dbg.ir /\ e.current_dev = dbg.current_dev
    BY <1>1, <2>1 DEF Registers, Access, UNKNOWN, Aside
  <2>5. DbgInvOf(e)
    BY <1>3, <2>3, <2>4, AsideKeeps DEF Aside
  <2> QED
    BY <2>5 DEF e
<1>4. CASE in.command = "SET_SWD"
  <2>1. e = Establish(d, "SWD")
    BY <1>4 DEF Dispatch
  <2> HIDE DEF e
  <2>2. Whole(e)
    BY <1>1, <2>1 DEF Registers, Whole, Establish
  <2>3. e \in Registers
    <3>1. Typed(e)
      BY <1>1, <2>1, <2>2 DEF Typed, Registers, States, Access, UNKNOWN, Establish
    <3> QED
      BY <2>2, <3>1, RegistersAre
  <2>4. /\ e.state \in Aside /\ ~e.trans_os
        /\ e.commanded = "JTAG" /\ e.ir \in Access =>
             dbg.commanded = "JTAG" /\ e.ir = dbg.ir /\ e.current_dev = dbg.current_dev
    BY <1>1, <2>1 DEF Registers, Access, UNKNOWN, Aside, Establish
  <2>5. DbgInvOf(e)
    BY <1>4, <2>3, <2>4, AsideKeeps DEF Aside
  <2> QED
    BY <2>5 DEF e
<1>5. CASE in.command = "SET_JTAG"
  <2>1. e = Establish(d, "JTAG")
    BY <1>5 DEF Dispatch
  <2> HIDE DEF e
  <2>2. Whole(e)
    BY <1>1, <2>1 DEF Registers, Whole, Establish
  <2>3. e \in Registers
    <3>1. Typed(e)
      BY <1>1, <2>1, <2>2 DEF Typed, Registers, States, Access, UNKNOWN, Establish
    <3> QED
      BY <2>2, <3>1, RegistersAre
  <2>4. /\ e.state \in Aside /\ ~e.trans_os
        /\ e.commanded = "JTAG" /\ e.ir \in Access =>
             dbg.commanded = "JTAG" /\ e.ir = dbg.ir /\ e.current_dev = dbg.current_dev
    BY <1>1, <2>1 DEF Registers, Access, UNKNOWN, Aside, Establish
  <2>5. DbgInvOf(e)
    BY <1>5, <2>3, <2>4, AsideKeeps DEF Aside
  <2> QED
    BY <2>5 DEF e
<1>6. CASE in.command = "SET_SWJ"
  <2>1. e = [d EXCEPT !.commanded = "LOCAL", !.ir = UNKNOWN, !.state = "WAIT_GOCLEAR"]
    BY <1>6 DEF Dispatch
  <2> HIDE DEF e
  <2>2. Whole(e)
    BY <1>1, <2>1 DEF Registers, Whole
  <2>3. e \in Registers
    <3>1. Typed(e)
      BY <1>1, <2>1, <2>2 DEF Typed, Registers, States, Access, UNKNOWN
    <3> QED
      BY <2>2, <3>1, RegistersAre
  <2>4. /\ e.state \in Aside /\ ~e.trans_os
        /\ e.commanded = "JTAG" /\ e.ir \in Access =>
             dbg.commanded = "JTAG" /\ e.ir = dbg.ir /\ e.current_dev = dbg.current_dev
    BY <1>1, <2>1 DEF Registers, Access, UNKNOWN, Aside
  <2>5. DbgInvOf(e)
    BY <1>6, <2>3, <2>4, AsideKeeps DEF Aside
  <2> QED
    BY <2>5 DEF e
<1>7. CASE in.command = "SET_SWD_CFG"
  <2>1. e = [d EXCEPT !.ir = UNKNOWN, !.state = "WAIT_GOCLEAR"]
    BY <1>7 DEF Dispatch
  <2> HIDE DEF e
  <2>2. Whole(e)
    BY <1>1, <2>1 DEF Registers, Whole
  <2>3. e \in Registers
    <3>1. Typed(e)
      BY <1>1, <2>1, <2>2 DEF Typed, Registers, States, Access, UNKNOWN
    <3> QED
      BY <2>2, <3>1, RegistersAre
  <2>4. /\ e.state \in Aside /\ ~e.trans_os
        /\ e.commanded = "JTAG" /\ e.ir \in Access =>
             dbg.commanded = "JTAG" /\ e.ir = dbg.ir /\ e.current_dev = dbg.current_dev
    BY <1>1, <2>1 DEF Registers, Access, UNKNOWN, Aside
  <2>5. DbgInvOf(e)
    BY <1>7, <2>3, <2>4, AsideKeeps DEF Aside
  <2> QED
    BY <2>5 DEF e
<1>8. CASE in.command = "SET_JTAG_CFG"
  <2>1. e = [d EXCEPT !.ir = UNKNOWN, !.state = "WAIT_GOCLEAR"]
    BY <1>8 DEF Dispatch
  <2> HIDE DEF e
  <2>2. Whole(e)
    BY <1>1, <2>1 DEF Registers, Whole
  <2>3. e \in Registers
    <3>1. Typed(e)
      BY <1>1, <2>1, <2>2 DEF Typed, Registers, States, Access, UNKNOWN
    <3> QED
      BY <2>2, <3>1, RegistersAre
  <2>4. /\ e.state \in Aside /\ ~e.trans_os
        /\ e.commanded = "JTAG" /\ e.ir \in Access =>
             dbg.commanded = "JTAG" /\ e.ir = dbg.ir /\ e.current_dev = dbg.current_dev
    BY <1>1, <2>1 DEF Registers, Access, UNKNOWN, Aside
  <2>5. DbgInvOf(e)
    BY <1>8, <2>3, <2>4, AsideKeeps DEF Aside
  <2> QED
    BY <2>5 DEF e
<1>9. CASE in.command = "WAIT"
  <2>1. e = [d EXCEPT !.usecsdown = in.dwrite, !.state = "WAIT_TIMEOUT"]
    BY <1>9 DEF Dispatch
  <2> HIDE DEF e
  <2>2. Whole(e)
    BY <1>1, <2>1 DEF Registers, Whole
  <2>3. e \in Registers
    <3>1. Typed(e)
      BY <1>1, <2>1, <2>2 DEF Typed, Registers, States, Access, UNKNOWN
    <3> QED
      BY <2>2, <3>1, RegistersAre
  <2>4. /\ e.state \in Aside /\ ~e.trans_os
        /\ e.commanded = "JTAG" /\ e.ir \in Access =>
             dbg.commanded = "JTAG" /\ e.ir = dbg.ir /\ e.current_dev = dbg.current_dev
    BY <1>1, <2>1 DEF Registers, Access, UNKNOWN, Aside
  <2>5. DbgInvOf(e)
    BY <1>9, <2>3, <2>4, AsideKeeps DEF Aside
  <2> QED
    BY <2>5 DEF e
<1>10. CASE in.command = "SET_TFR_CFG"
  <2>1. e = [d EXCEPT !.state = "WAIT_GOCLEAR"]
    BY <1>10 DEF Dispatch
  <2> HIDE DEF e
  <2>2. Whole(e)
    BY <1>1, <2>1 DEF Registers, Whole
  <2>3. e \in Registers
    <3>1. Typed(e)
      BY <1>1, <2>1, <2>2 DEF Typed, Registers, States, Access, UNKNOWN
    <3> QED
      BY <2>2, <3>1, RegistersAre
  <2>4. /\ e.state \in Aside /\ ~e.trans_os
        /\ e.commanded = "JTAG" /\ e.ir \in Access =>
             dbg.commanded = "JTAG" /\ e.ir = dbg.ir /\ e.current_dev = dbg.current_dev
    BY <1>1, <2>1 DEF Registers, Access, UNKNOWN, Aside
  <2>5. DbgInvOf(e)
    BY <1>10, <2>3, <2>4, AsideKeeps DEF Aside
  <2> QED
    BY <2>5 DEF e
<1>11. CASE in.command = "CLR_ERR"
  <2>1. e = [d EXCEPT !.state = "WAIT_GOCLEAR"]
    BY <1>11 DEF Dispatch
  <2> HIDE DEF e
  <2>2. Whole(e)
    BY <1>1, <2>1 DEF Registers, Whole
  <2>3. e \in Registers
    <3>1. Typed(e)
      BY <1>1, <2>1, <2>2 DEF Typed, Registers, States, Access, UNKNOWN
    <3> QED
      BY <2>2, <3>1, RegistersAre
  <2>4. /\ e.state \in Aside /\ ~e.trans_os
        /\ e.commanded = "JTAG" /\ e.ir \in Access =>
             dbg.commanded = "JTAG" /\ e.ir = dbg.ir /\ e.current_dev = dbg.current_dev
    BY <1>1, <2>1 DEF Registers, Access, UNKNOWN, Aside
  <2>5. DbgInvOf(e)
    BY <1>11, <2>3, <2>4, AsideKeeps DEF Aside
  <2> QED
    BY <2>5 DEF e
<1>12. CASE in.command = "SET_RST_TMR"
  <2>1. e = [d EXCEPT !.rst_timeout = in.dwrite, !.state = "WAIT_GOCLEAR"]
    BY <1>12 DEF Dispatch
  <2> HIDE DEF e
  <2>2. Whole(e)
    BY <1>1, <2>1 DEF Registers, Whole
  <2>3. e \in Registers
    <3>1. Typed(e)
      BY <1>1, <2>1, <2>2 DEF Typed, Registers, States, Access, UNKNOWN
    <3> QED
      BY <2>2, <3>1, RegistersAre
  <2>4. /\ e.state \in Aside /\ ~e.trans_os
        /\ e.commanded = "JTAG" /\ e.ir \in Access =>
             dbg.commanded = "JTAG" /\ e.ir = dbg.ir /\ e.current_dev = dbg.current_dev
    BY <1>1, <2>1 DEF Registers, Access, UNKNOWN, Aside
  <2>5. DbgInvOf(e)
    BY <1>12, <2>3, <2>4, AsideKeeps DEF Aside
  <2> QED
    BY <2>5 DEF e
<1>13. CASE in.command = "JTAG_REG"
  <2>1. e = [d EXCEPT !.ir = UNKNOWN, !.active = d.commanded, !.jtag_cmd = "IR",
                   !.state = "WAIT_INFERIOR_START"]
    BY <1>13 DEF Dispatch
  <2> HIDE DEF e
  <2>2. Whole(e)
    BY <1>1, <2>1 DEF Registers, Whole
  <2>3. e \in Registers
    <3>1. Typed(e)
      BY <1>1, <2>1, <2>2 DEF Typed, Registers, States, Access, UNKNOWN
    <3> QED
      BY <2>2, <3>1, RegistersAre
  <2>4. KindInv(e) /\ BusyInv(e) /\ ClockInv(e) /\ OrderInv(e) /\ RanInv(e)
    BY <1>1, <1>13, <2>1 DEF Registers, KindInv, BusyInv, ClockInv, OrderInv, RanInv
  <2>5. ChainInv(e)
    BY <1>1, <1>13, <2>1 DEF Registers, Access, UNKNOWN, BusyInv, OrderInv, ChainInv
  <2> QED
    BY <2>3, <2>4, <2>5 DEF e, DbgInvOf
<1>14. CASE in.command = "JTAG_GET_ID"
  <2>1. e = [d EXCEPT !.commanded = "JTAG", !.jtag_cmd = "READID",
                   !.state = "WAIT_INFERIOR_START"]
    BY <1>14 DEF Dispatch
  <2> HIDE DEF e
  <2>2. Whole(e)
    BY <1>1, <2>1 DEF Registers, Whole
  <2>3. e \in Registers
    <3>1. Typed(e)
      BY <1>1, <2>1, <2>2 DEF Typed, Registers, States, Access, UNKNOWN
    <3> QED
      BY <2>2, <3>1, RegistersAre
  <2>4. KindInv(e) /\ BusyInv(e) /\ ClockInv(e) /\ OrderInv(e) /\ RanInv(e)
    BY <1>1, <1>14, <2>1 DEF Registers, KindInv, BusyInv, ClockInv, OrderInv, RanInv
  <2>5. ChainInv(e)
    BY <1>1, <1>14, <2>1 DEF Registers, Access, UNKNOWN, BusyInv, OrderInv, ChainInv
  <2> QED
    BY <2>3, <2>4, <2>5 DEF e, DbgInvOf
<1>15. CASE in.command = "JTAG_RESET"
  <2>1. e = [d EXCEPT !.commanded = "JTAG", !.jtag_cmd = "RESET", !.ir = UNKNOWN,
                   !.state = "WAIT_INFERIOR_START"]
    BY <1>15 DEF Dispatch
  <2> HIDE DEF e
  <2>2. Whole(e)
    BY <1>1, <2>1 DEF Registers, Whole
  <2>3. e \in Registers
    <3>1. Typed(e)
      BY <1>1, <2>1, <2>2 DEF Typed, Registers, States, Access, UNKNOWN
    <3> QED
      BY <2>2, <3>1, RegistersAre
  <2>4. KindInv(e) /\ BusyInv(e) /\ ClockInv(e) /\ OrderInv(e) /\ RanInv(e)
    BY <1>1, <1>15, <2>1 DEF Registers, KindInv, BusyInv, ClockInv, OrderInv, RanInv
  <2>5. ChainInv(e)
    BY <1>1, <1>15, <2>1 DEF Registers, Access, UNKNOWN, BusyInv, OrderInv, ChainInv
  <2> QED
    BY <2>3, <2>4, <2>5 DEF e, DbgInvOf
<1>16. CASE in.command = "TRANSACT"
  <2>1. e = [d EXCEPT !.jtag_cmd = IF IrStale THEN "IR" ELSE "TFR",
                   !.trans_os = IF IrStale THEN TRUE ELSE @,
                   !.current_dev = IF IrStale THEN in.dev ELSE @,
                   !.active = d.commanded, !.ir = in.apndp,
                   !.state = "WAIT_INFERIOR_START"]
    BY <1>16 DEF Dispatch
  <2> HIDE DEF e
  <2>2. Whole(e)
    BY <1>1, <2>1 DEF Registers, Whole
  <2>3. /\ e.state = "WAIT_INFERIOR_START" /\ e.perr = FALSE /\ e.ir = in.apndp
        /\ e.commanded = dbg.commanded /\ e.active = dbg.commanded
        /\ e.usecsdown = dbg.usecsdown /\ e.rst_timeout = dbg.rst_timeout /\ e.step = dbg.step
        /\ e.clkDiv = dbg.clkDiv
    BY <1>1, <2>1 DEF Registers
  <2>4. /\ IrStale => e.jtag_cmd = "IR" /\ e.trans_os = TRUE /\ e.current_dev = in.dev
        /\ ~IrStale => e.jtag_cmd = "TFR" /\ e.trans_os = FALSE /\ e.current_dev = dbg.current_dev
    BY <1>1, <2>1 DEF Registers
  <2>5. e \in Registers
    <3>1. Typed(e)
      BY <1>1, <2>2, <2>3, <2>4 DEF Typed, Registers, States, Access, UNKNOWN
    <3> QED
      BY <2>2, <3>1, RegistersAre
  <2>6. KindInv(e) /\ BusyInv(e) /\ ClockInv(e) /\ OrderInv(e) /\ RanInv(e)
    BY <1>1, <1>16, <2>3, <2>4 DEF Registers, KindInv, BusyInv, ClockInv, OrderInv, RanInv, IrStale
  <2>7. ChainInv(e)
    BY <1>1, <1>16, <2>3, <2>4 DEF Registers, Access, BusyInv, IrStale, ChainInv
  <2> QED
    BY <2>5, <2>6, <2>7 DEF e, DbgInvOf
<1>17. CASE in.command = "SET_CLK"
  <2>1. e = IF in.dwrite < MIN_CLOCK \/ in.dwrite > MAX_CLOCK THEN Refuse(d)
            ELSE [d EXCEPT !.clkDiv = 0, !.state = "CALC_DIV"]
    BY <1>17 DEF Dispatch
  <2> HIDE DEF e
  <2>2. Whole(e)
    BY <1>1, <2>1 DEF Registers, Whole, Refuse
  <2>3. e \in Registers
    <3>1. Typed(e)
      BY <1>1, <2>1, <2>2 DEF Typed, Registers, States, Access, UNKNOWN, Refuse
    <3> QED
      BY <2>2, <3>1, RegistersAre
  <2>4. KindInv(e) /\ BusyInv(e) /\ OrderInv(e) /\ RanInv(e)
    BY <1>1, <1>17, <2>1 DEF Registers, KindInv, BusyInv, OrderInv, RanInv, Refuse
  <2>5. ClockInv(e)
    <3>1. e.state = "CALC_DIV" => MIN_CLOCK <= in.dwrite /\ e.clkDiv = 0
      BY <1>1, <2>1, ConstantsAre DEF Registers, Refuse
    <3>2. e.state # "CALC_DIV" => e.perr
      BY <1>1, <2>1 DEF Registers, Refuse
    <3>3. 2 * in.dwrite * 0 < ClkFreq
      BY <1>1, ConstantsAre
    <3>4. e.state = "CALC_DIV" => MIN_CLOCK <= in.dwrite /\ 2 * in.dwrite * e.clkDiv < ClkFreq
      BY <3>1, <3>3
    <3>5. e.state = "WAIT_GOCLEAR" => e.perr
      BY <3>2
    <3> QED
      BY <3>4, <3>5 DEF ClockInv
  <2>6. ChainInv(e)
    BY <1>1, <2>1 DEF Registers, BusyInv, ChainInv, Refuse
  <2> QED
    BY <2>3, <2>4, <2>5, <2>6 DEF e, DbgInvOf
<1>18. CASE in.command \notin Known
  <2>1. e = Refuse(d)
    BY <1>18, Zenon DEF Dispatch, Known
  <2>2. in.command \notin {"TRANSACT", "SET_CLK"}
    BY <1>18 DEF Known
  <2> HIDE DEF e
  <2>3. Whole(e)
    BY <1>1, <2>1 DEF Registers, Whole, Refuse
  <2>4. e \in Registers
    <3>1. Typed(e)
      BY <1>1, <2>1, <2>3 DEF Typed, Registers, States, Access, UNKNOWN, Refuse
    <3> QED
      BY <2>3, <3>1, RegistersAre
  <2>5. /\ e.state \in Aside /\ ~e.trans_os
        /\ e.commanded = dbg.commanded /\ e.ir = dbg.ir /\ e.current_dev = dbg.current_dev
    BY <1>1, <2>1 DEF Registers, Refuse, Aside
  <2>6. DbgInvOf(e)
    BY <1>1, <2>2, <2>4, <2>5, AsideKeeps DEF ChainInv
  <2> QED
    BY <2>6 DEF e
<1> QED
  BY <1>2, <1>3, <1>4, <1>5, <1>6, <1>7, <1>8, <1>9, <1>10, <1>11, <1>12, <1>13, <1>14, <1>15, <1>16, <1>17, <1>18 DEF Known

\* A divisor that twice the clock goes into less often than into the system clock fits
\* its register.
LEMMA DivisorFits ==
  ASSUME NEW f \in Nat, MIN_CLOCK <= f, NEW c \in Nat, 2 * f * c < ClkFreq
  PROVE  c < 2^CdivLog2
<1> DEFINE K == 2^CdivLog2
<1>1. /\ K \in Nat /\ ClkFreq \in Nat /\ MIN_CLOCK \in Nat /\ 1 <= MIN_CLOCK
      /\ ClkFreq < K * (MIN_CLOCK + 1)
  BY ConstantsAre
<1> HIDE DEF K
<1>2. SUFFICES ASSUME c >= K PROVE FALSE
  BY <1>1 DEF K
<1>3. 2 * f * c >= 2 * f * K
  <2> DEFINE t == 2 * f
  <2>1. t \in Nat
    OBVIOUS
  <2> HIDE DEF t
  <2>2. t * c >= t * K
    BY <1>1, <1>2, <2>1
  <2> QED
    BY <2>2 DEF t
<1>4. 2 * f * K >= K * (MIN_CLOCK + 1)
  <2> DEFINE t == 2 * f
             u == MIN_CLOCK + 1
  <2>1. t \in Nat /\ u \in Nat /\ t >= u
    BY <1>1
  <2> HIDE DEF t, u
  <2>2. t * K >= K * u
    BY <1>1, <2>1
  <2> QED
    BY <2>2 DEF t, u
<1>5. K * (MIN_CLOCK + 1) \in Nat /\ 2 * f * c \in Nat /\ 2 * f * K \in Nat
  BY <1>1
<1> QED
  BY <1>1, <1>3, <1>4, <1>5

\* A clock in any state.
LEMMA StepKeeps ==
  ASSUME DbgInv, NEW edge \in BOOLEAN, NEW e \in Steps(edge)
  PROVE  DbgInvOf(e)
<1>1. /\ dbg \in Registers /\ DbgInvOf(dbg) /\ InOK
      /\ KindInv(dbg) /\ BusyInv(dbg) /\ ClockInv(dbg) /\ OrderInv(dbg) /\ ChainInv(dbg)
      /\ RanInv(dbg)
  BY DEF DbgInv, DbgInvOf
<1>2. CASE dbg.state = "IDLE"
  <2> DEFINE d == [dbg EXCEPT !.perr = FALSE]
  <2>1. e = IF ~(go /\ cdc_go) THEN dbg
            ELSE IF in.command \in AtEdge /\ ~edge THEN d ELSE Dispatch(d)
    BY <1>2 DEF Steps, Idle
  <2>2. CASE e = dbg
    BY <1>1, <2>2
  <2>3. CASE go /\ e = d
    <3>1. Whole(e)
      BY <1>1, <2>3 DEF Registers, Whole
    <3>2. e \in Registers
      <4>1. Typed(e)
        BY <1>1, <2>3, <3>1 DEF Typed, Registers, Access
      <4> QED
        BY <3>1, <4>1, RegistersAre
    <3>3. KindInv(e) /\ BusyInv(e) /\ ClockInv(e) /\ OrderInv(e) /\ ChainInv(e) /\ RanInv(e)
      BY <1>1, <1>2, <2>3 DEF Registers, KindInv, BusyInv, ClockInv, OrderInv, ChainInv, RanInv
    <3> QED
      BY <3>2, <3>3 DEF DbgInvOf
  <2>4. CASE go /\ e = Dispatch(d)
    BY <1>2, <2>4, DispatchKeeps
  <2> QED
    BY <2>1, <2>2, <2>3, <2>4
<1>3. CASE dbg.state = "WAIT_GOCLEAR"
  <2>1. e = IF go \/ cdc_go THEN dbg
            ELSE [dbg EXCEPT !.state = IF dbg.trans_os THEN "HANDLE_TRANSACT" ELSE "IDLE"]
    BY <1>3 DEF Steps, GoClear
  <2>2. CASE e = dbg
    BY <1>1, <2>2
  <2>3. CASE e = [dbg EXCEPT !.state = IF dbg.trans_os THEN "HANDLE_TRANSACT" ELSE "IDLE"] /\ ~go
    <3>1. Whole(e)
      BY <1>1, <2>3 DEF Registers, Whole
    <3>2. e \in Registers
      <4>1. Typed(e)
        BY <1>1, <2>3, <3>1 DEF Typed, Registers, Access, States
      <4> QED
        BY <3>1, <4>1, RegistersAre
    <3>3. KindInv(e) /\ BusyInv(e) /\ ClockInv(e) /\ OrderInv(e)
      BY <1>1, <1>3, <2>3 DEF Registers, KindInv, BusyInv, ClockInv, OrderInv
    <3>4. ChainInv(e) /\ RanInv(e)
      BY <1>1, <1>3, <2>3 DEF Registers, ChainInv, RanInv
    <3> QED
      BY <3>2, <3>3, <3>4 DEF DbgInvOf
  <2> QED
    BY <2>1, <2>2, <2>3
<1>4. CASE dbg.state = "CALC_DIV"
  <2>1. e = IF divreg >= 2 * in.dwrite THEN [dbg EXCEPT !.clkDiv = @ + 1]
            ELSE [dbg EXCEPT !.state = "WAIT_GOCLEAR"]
    BY <1>4 DEF Steps, CalcDiv
  <2>2. Whole(e)
    BY <1>1, <2>1 DEF Registers, Whole
  <2>3. e \in Registers
    <3>1. Typed(e)
      BY <1>1, <2>1, <2>2 DEF Typed, Registers, Access, States
    <3> QED
      BY <2>2, <3>1, RegistersAre
  <2>4. KindInv(e) /\ BusyInv(e) /\ OrderInv(e) /\ ChainInv(e) /\ RanInv(e)
    BY <1>1, <1>4, <2>1 DEF Registers, KindInv, BusyInv, OrderInv, ChainInv, RanInv
  <2>5. ClockInv(e)
    <3>1. /\ in.dwrite \in Nat /\ dbg.clkDiv \in Nat /\ in.command = "SET_CLK"
          /\ MIN_CLOCK <= in.dwrite /\ 2 * in.dwrite * dbg.clkDiv < ClkFreq
      BY <1>1, <1>4 DEF InOK, Registers, KindInv, ClockInv
    <3>2. CASE divreg >= 2 * in.dwrite
      <4>1. e.state = "CALC_DIV" /\ e.clkDiv = dbg.clkDiv + 1
        BY <1>1, <1>4, <2>1, <3>2 DEF Registers
      <4>2. 2 * in.dwrite * dbg.clkDiv + 2 * in.dwrite <= ClkFreq - 1
        BY <3>1, <3>2, ConstantsAre DEF divreg
      <4>3. 2 * in.dwrite * (dbg.clkDiv + 1) = 2 * in.dwrite * dbg.clkDiv + 2 * in.dwrite
        BY <3>1
      <4>4. 2 * in.dwrite * (dbg.clkDiv + 1) < ClkFreq
        BY <3>1, <4>2, <4>3, ConstantsAre
      <4> QED
        BY <3>1, <4>1, <4>4 DEF ClockInv
    <3>3. CASE ~(divreg >= 2 * in.dwrite)
      <4>1. e.state = "WAIT_GOCLEAR" /\ e.clkDiv = dbg.clkDiv
        BY <1>1, <1>4, <2>1, <3>3 DEF Registers
      <4>2. 2 * in.dwrite * dbg.clkDiv + 2 * in.dwrite > ClkFreq - 1
        BY <3>1, <3>3, ConstantsAre DEF divreg
      <4>3. 2 * in.dwrite * (dbg.clkDiv + 1) = 2 * in.dwrite * dbg.clkDiv + 2 * in.dwrite
        BY <3>1
      <4>4. ClkFreq <= 2 * in.dwrite * (dbg.clkDiv + 1)
        BY <3>1, <4>2, <4>3, ConstantsAre
      <4>5. dbg.clkDiv < 2^CdivLog2
        BY <3>1, DivisorFits
      <4> QED
        BY <4>1, <4>4, <4>5 DEF ClockInv
    <3> QED
      BY <3>2, <3>3
  <2> QED
    BY <2>3, <2>4, <2>5 DEF DbgInvOf
<1>5. CASE dbg.state = "WAIT_INFERIOR_FINISH"
  <2>1. PICK p \in BOOLEAN : e = IF busy # "none" THEN dbg
                                 ELSE [dbg EXCEPT !.state = "WAIT_GOCLEAR", !.perr = p]
    BY <1>1, <1>5 DEF Steps, WaitFinish, Registers
  <2>2. Whole(e)
    BY <1>1, <2>1 DEF Registers, Whole
  <2>3. e \in Registers
    <3>1. Typed(e)
      BY <1>1, <2>1, <2>2 DEF Typed, Registers, Access, States
    <3> QED
      BY <2>2, <3>1, RegistersAre
  <2>4. KindInv(e) /\ BusyInv(e) /\ ClockInv(e) /\ OrderInv(e)
    BY <1>1, <1>5, <2>1 DEF Registers, KindInv, BusyInv, ClockInv, OrderInv
  <2>5. ChainInv(e) /\ RanInv(e)
    BY <1>1, <1>5, <2>1 DEF Registers, ChainInv, RanInv
  <2> QED
    BY <2>3, <2>4, <2>5 DEF DbgInvOf
<1>6. CASE dbg.state = "HANDLE_TRANSACT"
  <2>1. e = [dbg EXCEPT !.trans_os = FALSE, !.jtag_cmd = "TFR", !.state = "WAIT_INFERIOR_START"]
    BY <1>6 DEF Steps, HandleTransact
  <2>2. Whole(e)
    BY <1>1, <2>1 DEF Registers, Whole
  <2>3. e \in Registers
    <3>1. Typed(e)
      BY <1>1, <2>1, <2>2 DEF Typed, Registers, Access, States
    <3> QED
      BY <2>2, <3>1, RegistersAre
  <2>4. KindInv(e) /\ BusyInv(e) /\ ClockInv(e) /\ OrderInv(e)
    BY <1>1, <1>6, <2>1 DEF Registers, KindInv, BusyInv, ClockInv, OrderInv
  <2>5. ChainInv(e) /\ RanInv(e)
    BY <1>1, <1>6, <2>1 DEF Registers, KindInv, BusyInv, ChainInv, RanInv
  <2> QED
    BY <2>3, <2>4, <2>5 DEF DbgInvOf
<1>7. CASE dbg.state = "WAIT_INFERIOR_START"
  <2>1. e = IF dbg.active \notin {"SWD", "JTAG"} THEN Refuse(dbg)
            ELSE IF busy = dbg.active THEN [dbg EXCEPT !.state = "WAIT_INFERIOR_FINISH"]
            ELSE dbg
    BY <1>7 DEF Steps, WaitStart
  <2>2. Whole(e)
    BY <1>1, <2>1 DEF Registers, Whole, Refuse
  <2>3. e \in Registers
    <3>1. dbg \in Registers
      BY <1>1
    <3>2. CASE e = dbg
      BY <3>1, <3>2
    <3>3. CASE e = Refuse(dbg)
      BY <3>1, <3>3 DEF Registers, States, Refuse
    <3>4. CASE e = [dbg EXCEPT !.state = "WAIT_INFERIOR_FINISH"]
      BY <3>1, <3>4 DEF Registers, States
    <3> QED
      BY <2>1, <3>2, <3>3, <3>4
  <2>4. KindInv(e) /\ BusyInv(e) /\ ClockInv(e) /\ OrderInv(e)
    BY <1>1, <1>7, <2>1 DEF InOK, Registers, KindInv, BusyInv, ClockInv, OrderInv, Refuse
  <2>5. ChainInv(e) /\ RanInv(e)
    BY <1>1, <1>7, <2>1 DEF Registers, KindInv, BusyInv, ChainInv, RanInv, Refuse
  <2> QED
    BY <2>3, <2>4, <2>5 DEF DbgInvOf
<1>8. CASE dbg.state \in Aside \ {"WAIT_GOCLEAR"}
  <2>1. \/ e = dbg
        \/ e = [dbg EXCEPT !.state = "WAIT_GOCLEAR"]
        \/ e = [dbg EXCEPT !.usecsdown = dbg.rst_timeout, !.state = "RESET_GUARD"]
        \/ \E s \in Aside : e = [dbg EXCEPT !.step = @ + 1, !.state = s]
    BY <1>1, <1>8 DEF Steps, EstablishMode, Aside, Registers
  <2>2. Whole(e) /\ e.state \in Aside /\ ~e.trans_os
    BY <1>1, <1>8, <2>1 DEF Registers, Whole, Aside, KindInv
  <2>3. /\ e.active = dbg.active /\ e.commanded = dbg.commanded /\ e.jtag_cmd = dbg.jtag_cmd
        /\ e.current_dev = dbg.current_dev /\ e.ir = dbg.ir /\ e.perr = dbg.perr
        /\ e.trans_os = dbg.trans_os
    BY <1>1, <2>1 DEF Registers
  <2>4. /\ e.usecsdown \in {dbg.usecsdown, dbg.rst_timeout} /\ e.clkDiv = dbg.clkDiv
        /\ e.rst_timeout = dbg.rst_timeout /\ e.step \in {dbg.step, dbg.step + 1}
    BY <1>1, <2>1 DEF Registers
  <2>5. e \in Registers
    <3>1. Typed(e)
      BY <1>1, <2>2, <2>3, <2>4 DEF Typed, Registers, Access, States, Aside
    <3> QED
      BY <2>2, <3>1, RegistersAre
  <2>6. in.command \notin {"TRANSACT", "SET_CLK"}
    BY <1>1, <1>8 DEF Aside, KindInv
  <2> QED
    BY <1>8, <2>2, <2>3, <2>5, <2>6, AsideKeeps
<1> QED
  BY <1>1, <1>2, <1>3, <1>4, <1>5, <1>6, <1>7, <1>8 DEF Registers, States, Aside

\* The microsecond counter does not touch what is kept.
LEMMA CountedKeeps ==
  ASSUME dbg \in Registers, NEW d, DbgInvOf(d), NEW tick \in BOOLEAN
  PROVE  DbgInvOf(Counted(d, tick))
<1> DEFINE e == Counted(d, tick)
<1>1. d \in Registers
  BY DEF DbgInvOf
<1>2. e = d \/ (e = [d EXCEPT !.usecsdown = @ - 1] /\ d.usecsdown > 0)
  BY DEF Counted
<1> HIDE DEF e
<1>3. CASE e = d
  BY <1>3 DEF e
<1>4. CASE e = [d EXCEPT !.usecsdown = @ - 1] /\ d.usecsdown > 0
  <2>1. Whole(e)
    BY <1>1, <1>4 DEF Registers, Whole
  <2>2. e \in Registers
    <3>1. Typed(e)
      BY <1>1, <1>4, <2>1 DEF Typed, Registers, Access, States
    <3> QED
      BY <2>1, <3>1, RegistersAre
  <2>3. /\ e.state = d.state /\ e.active = d.active /\ e.commanded = d.commanded
        /\ e.jtag_cmd = d.jtag_cmd /\ e.trans_os = d.trans_os /\ e.current_dev = d.current_dev
        /\ e.ir = d.ir /\ e.perr = d.perr /\ e.clkDiv = d.clkDiv
    BY <1>1, <1>4 DEF Registers
  <2>4. KindInv(e) /\ BusyInv(e) /\ ClockInv(e) /\ OrderInv(e) /\ ChainInv(e) /\ RanInv(e)
    BY <2>3 DEF DbgInvOf, KindInv, BusyInv, ClockInv, OrderInv, ChainInv, RanInv
  <2> QED
    BY <2>2, <2>4 DEF DbgInvOf, e
<1> QED
  BY <1>2, <1>3, <1>4

-----------------------------------------------------------------------------
\* What the layer above and the interfaces below do.

\* A command of the layer above.
LEMMA InputsAre ==
  ASSUME NEW i \in Inputs
  PROVE  i.dev \in Devs /\ i.apndp \in Access /\ i.dwrite \in Nat
<1>1. NoIn.dev \in Devs
  BY DbgAssumption DEF NoIn
<1>2. i.dev \in Devs /\ i.apndp \in Access
  BY <1>1 DEF Inputs, Access
<1>3. i.dwrite \in {0} \cup Times \cup Clocks
  BY DEF Inputs
<1>4. (\A t \in Times : t \in Nat) /\ (\A f \in Clocks : f \in Nat)
  BY DbgAssumption
<1>5. i.dwrite \in Nat
  <2> DEFINE t == i.dwrite
  <2>1. t = 0 \/ t \in Times \/ t \in Clocks
    BY <1>3
  <2> HIDE DEF t
  <2>2. t \in Nat
    BY <1>4, <2>1
  <2> QED
    BY <2>2 DEF t
<1> QED
  BY <1>2, <1>5

LEMMA RaiseKeeps ==
  ASSUME DbgInv, Raise
  PROVE  DbgInv'
<1>1. /\ dbg.state = "IDLE" /\ dbg' = dbg /\ go' = TRUE /\ ran' = 0 /\ busy' = busy
      /\ chainIr' = chainIr /\ (OnlyJtagId /\ in'.command = "JTAG_GET_ID" => dbg.commanded = "JTAG")
  BY DEF Raise, done, OnlyJtagId
<1>2. InOK'
  BY <1>1, InputsAre DEF Raise, InOK, DbgInv
<1>3. dbg.trans_os = FALSE
  BY <1>1 DEF DbgInv, DbgInvOf, KindInv, Registers
<1>4. (dbg \in Registers)' /\ KindInv(dbg)' /\ BusyInv(dbg)' /\ ClockInv(dbg)' /\ OrderInv(dbg)'
  BY <1>1, <1>3 DEF DbgInv, DbgInvOf, KindInv, BusyInv, ClockInv, OrderInv
<1>5. ChainInv(dbg)' /\ RanInv(dbg)'
  BY <1>1, <1>3 DEF DbgInv, DbgInvOf, ChainInv, RanInv
<1> QED
  BY <1>2, <1>4, <1>5 DEF DbgInv, DbgInvOf

LEMMA LowerKeeps ==
  ASSUME DbgInv, Lower
  PROVE  DbgInv'
<1>1. /\ dbg.state # "IDLE" /\ dbg' = dbg /\ go' = FALSE /\ ran' = ran /\ busy' = busy
      /\ chainIr' = chainIr /\ in' = in
  BY DEF Lower, done
<1>2. InOK' /\ (dbg \in Registers)' /\ KindInv(dbg)' /\ BusyInv(dbg)' /\ ClockInv(dbg)'
  BY <1>1 DEF DbgInv, DbgInvOf, InOK, KindInv, BusyInv, ClockInv
<1>3. OrderInv(dbg)' /\ ChainInv(dbg)' /\ RanInv(dbg)'
  BY <1>1 DEF DbgInv, DbgInvOf, OrderInv, ChainInv, RanInv
<1> QED
  BY <1>2, <1>3 DEF DbgInv, DbgInvOf

LEMMA FinishKeeps ==
  ASSUME DbgInv, InferiorFinish
  PROVE  DbgInv'
<1>1. /\ dbg.state = "WAIT_INFERIOR_FINISH" /\ dbg' = dbg /\ go' = go /\ ran' = ran
      /\ busy' = "none" /\ chainIr' = chainIr /\ in' = in
  BY DEF InferiorFinish
<1>2. InOK' /\ (dbg \in Registers)' /\ KindInv(dbg)' /\ BusyInv(dbg)' /\ ClockInv(dbg)'
  BY <1>1 DEF DbgInv, DbgInvOf, InOK, KindInv, BusyInv, ClockInv
<1>3. OrderInv(dbg)' /\ ChainInv(dbg)' /\ RanInv(dbg)'
  BY <1>1 DEF DbgInv, DbgInvOf, OrderInv, ChainInv, RanInv
<1> QED
  BY <1>2, <1>3 DEF DbgInv, DbgInvOf

\* An interface below starts: the instruction that is shifted is the one the state
\* machine believes in, and a transfer finds its device selected.
LEMMA StartKeeps ==
  ASSUME DbgInv, InferiorStart
  PROVE  DbgInv'
<1> DEFINE cmd == IF dbg.active = "SWD" THEN "SWD" ELSE dbg.jtag_cmd
<1>1. /\ dbg.state = "WAIT_INFERIOR_START" /\ busy = "none" /\ dbg.active \in {"SWD", "JTAG"}
      /\ dbg' = dbg /\ go' = go /\ busy' = dbg.active /\ in' = in
  BY DEF InferiorStart, if_go
<1>2. chainIr' = CASE cmd = "IR" -> Selected(in.dev, dbg.ir)
                   [] cmd = "RESET" -> [d \in Devs |-> "IDCODE"]
                   [] OTHER -> chainIr
  BY DEF InferiorStart, Selected
<1>3. ran' = IF ran < 2 /\ (cmd = "SWD" \/ (cmd = "TFR" /\ Reaches)) THEN ran + 1 ELSE ran
  BY DEF InferiorStart
<1>4. /\ dbg \in Registers /\ InOK /\ KindInv(dbg) /\ ClockInv(dbg) /\ OrderInv(dbg)
      /\ ChainInv(dbg) /\ RanInv(dbg)
  BY DEF DbgInv, DbgInvOf
<1> HIDE DEF cmd
<1>5. InOK' /\ (dbg \in Registers)' /\ KindInv(dbg)' /\ BusyInv(dbg)' /\ ClockInv(dbg)' /\ OrderInv(dbg)'
  BY <1>1, <1>3, <1>4 DEF InOK, KindInv, BusyInv, ClockInv, OrderInv
<1>6. ASSUME OnlyJtagId, dbg.commanded = "JTAG", dbg.ir \in Access
      PROVE  chainIr' = Selected(dbg.current_dev, dbg.ir)
  <2>1. CASE dbg.trans_os
    <3>1. cmd = "IR" /\ dbg.current_dev = in.dev
      BY <1>1, <1>4, <2>1 DEF cmd, KindInv, OrderInv
    <3> QED
      BY <1>2, <3>1
  <2>2. CASE ~dbg.trans_os
    <3>1. chainIr = Selected(dbg.current_dev, dbg.ir)
      BY <1>4, <1>6, <2>2 DEF ChainInv
    <3>2. cmd \notin {"IR", "RESET"}
      BY <1>1, <1>4, <1>6, <2>2 DEF cmd, KindInv, OrderInv, Access, UNKNOWN
    <3> QED
      BY <1>2, <3>1, <3>2
  <2> QED
    BY <2>1, <2>2
<1>7. ChainInv(dbg)'
  BY <1>1, <1>6 DEF ChainInv
<1>8. ASSUME OnlyJtagId, in.command = "TRANSACT"
      PROVE  ran = 0 /\ ran' = IF dbg.trans_os THEN 0 ELSE 1
  <2>1. ran = 0
    BY <1>1, <1>4, <1>8 DEF RanInv
  <2>2. CASE dbg.trans_os
    <3>1. cmd = "IR"
      BY <1>1, <1>4, <2>2 DEF cmd, KindInv, OrderInv
    <3> QED
      BY <1>3, <2>1, <2>2, <3>1
  <2>3. CASE ~dbg.trans_os /\ dbg.active = "SWD"
    BY <1>3, <2>1, <2>3 DEF cmd
  <2>4. CASE ~dbg.trans_os /\ dbg.active = "JTAG"
    <3>1. /\ cmd = "TFR" /\ dbg.commanded = "JTAG" /\ dbg.ir = in.apndp /\ dbg.current_dev = in.dev
          /\ in.apndp \in Access /\ in.dev \in Devs
      BY <1>1, <1>4, <1>8, <2>4 DEF cmd, InOK, OrderInv
    <3>2. chainIr = Selected(in.dev, in.apndp)
      BY <1>4, <1>8, <2>4, <3>1 DEF ChainInv
    <3>3. Reaches
      BY <3>1, <3>2 DEF Reaches, Selected
    <3> QED
      BY <1>3, <2>1, <2>4, <3>1, <3>3
  <2> QED
    BY <1>1, <2>2, <2>3, <2>4
<1>9. RanInv(dbg)'
  BY <1>1, <1>8 DEF RanInv
<1> QED
  BY <1>5, <1>7, <1>9 DEF DbgInv, DbgInvOf

LEMMA ClockKeeps ==
  ASSUME DbgInv, NEW edge \in BOOLEAN, NEW tick \in BOOLEAN, Clock(edge, tick)
  PROVE  DbgInv'
<1>1. PICK d \in Steps(edge) : dbg' = Counted(d, tick)
  BY DEF Clock
<1>2. go' = go /\ ran' = ran /\ busy' = busy /\ in' = in /\ chainIr' = chainIr
  BY DEF Clock
<1>3. DbgInvOf(dbg')
  <2>1. DbgInvOf(d)
    BY StepKeeps
  <2> QED
    BY <1>1, <2>1, CountedKeeps DEF DbgInv, DbgInvOf
<1>4. InOK' /\ (dbg \in Registers)' /\ KindInv(dbg)' /\ BusyInv(dbg)' /\ ClockInv(dbg)'
  BY <1>2, <1>3 DEF DbgInv, DbgInvOf, InOK, KindInv, BusyInv, ClockInv
<1>5. OrderInv(dbg)' /\ ChainInv(dbg)' /\ RanInv(dbg)'
  BY <1>2, <1>3 DEF DbgInvOf, OrderInv, ChainInv, RanInv
<1> QED
  BY <1>4, <1>5 DEF DbgInv, DbgInvOf

LEMMA DbgInit ==
  ASSUME Init
  PROVE  DbgInv
<1>1. InOK
  BY DbgAssumption DEF Init, NoIn, InOK, Access
<1>2. Whole(dbg)
  BY DEF Init, Whole
<1>3. dbg \in Registers
  <2>1. DefaultDiv \in Nat
    BY ConstantsAre
  <2>2. Typed(dbg)
    BY <2>1 DEF Init, Typed, States, Access, NoDev
  <2> QED
    BY <1>2, <2>2, RegistersAre
<1>4. in.command = "CLR_ERR" /\ ran = 0 /\ busy = "none"
  BY DEF Init, NoIn
<1>5. KindInv(dbg) /\ BusyInv(dbg) /\ ClockInv(dbg) /\ OrderInv(dbg) /\ ChainInv(dbg) /\ RanInv(dbg)
  BY <1>4 DEF Init, KindInv, BusyInv, ClockInv, OrderInv, ChainInv, RanInv
<1> QED
  BY <1>1, <1>3, <1>5 DEF DbgInv, DbgInvOf

THEOREM DbgInvHolds == Spec => []DbgInv
<1>1. Init => DbgInv
  BY DbgInit
<1>2. DbgInv /\ [Next]_vars => DbgInv'
  <2> SUFFICES ASSUME DbgInv, [Next]_vars PROVE DbgInv'
    OBVIOUS
  <2>1. CASE UNCHANGED vars
    BY <2>1 DEF vars, resetVars, DbgInv, DbgInvOf, InOK, KindInv, BusyInv, ClockInv, OrderInv, ChainInv, RanInv
  <2> QED
    BY <2>1, RaiseKeeps, LowerKeeps, StartKeeps, FinishKeeps, ClockKeeps DEF Next
<1> QED
  BY <1>1, <1>2, PTL DEF Spec

-----------------------------------------------------------------------------
\* A transfer that ends without an error was run once and reached the device it named,
\* on any chain, after any commands, as long as an ID is asked for in JTAG mode only.
THEOREM TransferRunsOnce ==
  ASSUME AnyModeId = FALSE
  PROVE  Spec => []TransferOnce
<1>1. DbgInv => TransferOnce
  BY DEF OnlyJtagId, DbgInv, DbgInvOf, RanInv, TransferOnce, done, InOK
<1> QED
  BY <1>1, DbgInvHolds, PTL

\* The clock that was asked for is not exceeded, and its divisor fits the register, for
\* every system clock and every width of the register.
THEOREM ClockIsRight == Spec => []ClockRight
<1>1. DbgInv => ClockRight
  BY DEF DbgInv, DbgInvOf, ClockInv, ClockRight
<1> QED
  BY <1>1, DbgInvHolds, PTL

-----------------------------------------------------------------------------
\* A clock: what it makes of the state is what GoDone lets the interface do.
LEMMA ClockImplements ==
  ASSUME DbgInv, NEW edge \in BOOLEAN, NEW tick \in BOOLEAN, Clock(edge, tick), DbgInv'
  PROVE  [Abstract!Next]_(Abstract!goDoneVars)
<1>1. PICK e \in Steps(edge) : dbg' = Counted(e, tick)
  BY DEF Clock
<1>2. dbg \in Registers /\ dbg' \in Registers /\ go \in BOOLEAN /\ go' = go
  BY DEF DbgInv, DbgInvOf, InOK, Clock
<1>3. e \in Registers
  BY StepKeeps DEF DbgInvOf
<1>4. dbg'.state = e.state /\ dbg'.trans_os = e.trans_os
  BY <1>1, <1>3 DEF Counted, Registers
<1>5. CASE dbg.state = "IDLE"
  <2>1. CASE e.state = "IDLE"
    BY <1>2, <1>4, <1>5, <2>1 DEF Abstract!goDoneVars, done, Over
  <2>2. CASE e.state # "IDLE"
    <3>1. go
      BY <1>2, <1>5, <2>2 DEF Steps, Idle
    <3>2. Over' \in BOOLEAN
      BY <1>2 DEF Over, Registers
    <3>3. Abstract!Accept
      BY <1>2, <1>4, <1>5, <2>2, <3>1, <3>2 DEF Abstract!Accept, done, Over
    <3> QED
      BY <3>3 DEF Abstract!Next
  <2> QED
    BY <2>1, <2>2
<1>6. CASE dbg.state = "WAIT_GOCLEAR"
  <2>1. \/ e.state = "WAIT_GOCLEAR" /\ e.trans_os = dbg.trans_os
        \/ ~go /\ dbg.trans_os /\ e.state = "HANDLE_TRANSACT"
        \/ ~go /\ ~dbg.trans_os /\ e.state = "IDLE"
    BY <1>2, <1>6 DEF Steps, GoClear, Registers
  <2>2. CASE e.state = "WAIT_GOCLEAR" /\ e.trans_os = dbg.trans_os
    BY <1>2, <1>4, <1>6, <2>2 DEF Abstract!goDoneVars, done, Over
  <2>3. CASE ~go /\ dbg.trans_os /\ e.state = "HANDLE_TRANSACT"
    BY <1>2, <1>4, <1>6, <2>3 DEF Abstract!goDoneVars, done, Over
  <2>4. CASE ~go /\ ~dbg.trans_os /\ e.state = "IDLE"
    <3>1. Abstract!Finish
      BY <1>2, <1>4, <1>6, <2>4 DEF Abstract!Finish, done, Over
    <3> QED
      BY <3>1 DEF Abstract!Next
  <2> QED
    BY <2>1, <2>2, <2>3, <2>4
<1>7. CASE dbg.state \notin {"IDLE", "WAIT_GOCLEAR"}
  <2>1. e.state # "IDLE"
    <3>1. CASE dbg.state = "CALC_DIV"
      BY <1>2, <3>1 DEF Registers, Steps, CalcDiv
    <3>2. CASE dbg.state = "WAIT_INFERIOR_FINISH"
      <4>1. e \in WaitFinish
        BY <3>2 DEF Steps
      <4>2. e = dbg \/ \E p \in BOOLEAN : e = [dbg EXCEPT !.state = "WAIT_GOCLEAR", !.perr = p]
        BY <1>2, <4>1 DEF WaitFinish, Registers
      <4> QED
        BY <1>2, <3>2, <4>2 DEF Registers
    <3>3. CASE dbg.state = "HANDLE_TRANSACT"
      BY <1>2, <3>3 DEF Registers, Steps, HandleTransact
    <3>4. CASE dbg.state = "WAIT_INFERIOR_START"
      BY <1>2, <3>4 DEF Registers, Steps, WaitStart, Refuse
    <3>5. CASE dbg.state = "WAIT_TIMEOUT"
      BY <1>2, <3>5 DEF Registers, Steps
    <3>6. CASE dbg.state = "WAIT_CLKCHANGE"
      BY <1>2, <3>6 DEF Registers, Steps
    <3>7. CASE dbg.state = "RESETTING"
      BY <1>2, <3>7 DEF Registers, Steps
    <3>8. CASE dbg.state = "RESET_GUARD"
      BY <1>2, <3>8 DEF Registers, Steps
    <3>9. CASE dbg.state = "ESTABLISH_MODE"
      BY <1>2, <3>9 DEF Registers, Steps, EstablishMode
    <3> QED
      BY <1>2, <1>7, <3>1, <3>2, <3>3, <3>4, <3>5, <3>6, <3>7, <3>8, <3>9 DEF Registers, States
  <2>2. ~Over /\ ~done /\ ~done'
    BY <1>4, <1>7, <2>1 DEF Over, done
  <2>3. CASE Over'
    <3>1. Over' = TRUE
      BY <1>2, <2>3 DEF Over, Registers
    <3>2. Abstract!Run
      BY <1>2, <2>2, <3>1 DEF Abstract!Run, done
    <3> QED
      BY <3>2 DEF Abstract!Next
  <2>4. CASE ~Over'
    <3>1. Over = FALSE /\ Over' = FALSE /\ done = FALSE /\ done' = FALSE
      BY <1>2, <2>2, <2>4 DEF Over, done, Registers
    <3> QED
      BY <1>2, <3>1 DEF Abstract!goDoneVars
  <2> QED
    BY <2>3, <2>4
<1> QED
  BY <1>5, <1>6, <1>7

\* The interface keeps what GoDone promises: done falls after go, go is taken back, done
\* rises when the command has run, and a transfer that takes two turns of the JTAG
\* interface is one command.
THEOREM DebugKeepsHandshake == Spec => GoDoneSpec
<1>1. Init => Abstract!Init
  BY DEF Init, Abstract!Init, done, Over
<1>2. ASSUME DbgInv, DbgInv', [Next]_vars
      PROVE  [Abstract!Next]_(Abstract!goDoneVars)
  <2>1. CASE Raise
    <3>1. Abstract!Raise
      BY <2>1 DEF Raise, Abstract!Raise, done, Over
    <3> QED
      BY <3>1 DEF Abstract!Next
  <2>2. CASE Lower
    <3>1. Over' = Over
      BY <2>2 DEF Lower, done, Over
    <3>2. Abstract!Lower
      BY <2>2, <3>1 DEF Lower, Abstract!Lower, done
    <3> QED
      BY <3>2 DEF Abstract!Next
  <2>3. CASE InferiorStart \/ InferiorFinish \/ UNCHANGED vars
    <3>1. dbg' = dbg /\ go' = go
      BY <2>3 DEF InferiorStart, InferiorFinish, vars
    <3> QED
      BY <3>1 DEF Abstract!goDoneVars, done, Over
  <2> QED
    BY <1>2, <2>1, <2>2, <2>3, ClockImplements DEF Next
<1> QED
  BY <1>1, <1>2, DbgInvHolds, PTL DEF Spec, GoDoneSpec, Abstract!Spec

-----------------------------------------------------------------------------
\* The wire interfaces.
\* What the constants are: words of at least two bits, as the answer is read out of the
\* shift register, and answers of three bits.
SwdConstants ==
  /\ DataBits \in Nat /\ DataBits >= 2
  /\ IdleCycles \in Nat
  /\ Turnarounds \subseteq Nat
  /\ Answers \subseteq (Bit \X Bit \X Bit) \X BOOLEAN

\* The settings for which swdIF.v leaves the target its time.  After a WAIT it cools for 3
\* clocks, or DataBits + 3 with a data phase, whatever the turnaround is; after any other
\* bad answer it always has the data phase, whether the setting asks for it or not, and a
\* write is followed by the idle cycles instead of a turnaround.
CoolingCovers ==
  \A t \in Turnarounds, a \in Answers :
    /\ a[1] = WAIT => t <= IF a[2] THEN 1 ELSE 2
    /\ a[1] \notin {OK, WAIT} => a[2] /\ t <= IdleCycles + 1

Answered == req.answer[1]
Reads == Answered = OK /\ req.rnw = 1
Writes == Answered = OK /\ req.rnw = 0
Refused == Answered # OK /\ Answered # WAIT

\* The bits of a word that are on the wire, or were, in its first k clocks.
OnesUpTo(w, k) == Cardinality({i \in 1 .. k : w[i] = 1})

\* The shift register ends in the first k elements of w.
Heard(w, k) == \A i \in 1 .. k : rd[DataBits - k + i] = w[i]

\* The target took the first k elements of w and nothing else.
Took(w, k) == Len(tgt.took) = k /\ \A i \in 1 .. k : tgt.took[i] = w[i]

Targets ==
  [ph : {"idle", "hdr", "trn", "ack", "data", "wtrn", "rx", "skip", "lost"},
   n : Nat, drv : BOOLEAN, out : Bit, took : Seq(Bit)]

Tgt(p, n, d, o, k) == [ph |-> p, n |-> n, drv |-> d, out |-> o, took |-> k]

SwdType ==
  /\ swd_state \in {"IDLE", "HDR_TX", "TRN1", "ACK", "TRN2", "DATA", "COOLING"}
  /\ spincount \in Int /\ bitcount \in Nat
  /\ par \in Bit /\ rd \in Word /\ dread \in Word /\ perr \in Bit
  /\ ack \in Bit \X Bit \X Bit
  /\ swdo \in Bit /\ swwr \in BOOLEAN
  /\ rising \in BOOLEAN /\ swdGo \in BOOLEAN
  /\ tgt \in Targets
  /\ swdGo \/ swd_state # "IDLE" => req \in Requests

\* Before a rising edge the line carries the bit of the frame the counter is at.
LineInv ==
  rising /\ swd_state # "IDLE" =>
    /\ swdo = FrameBit
    /\ swwr <=> \/ bitcount < PROT_TRN1
                \/ req.rnw = 0 /\ bitcount > PROT_TRN2
                \/ bitcount > PROT_PAR

IdleInv == swd_state = "IDLE" => bitcount = 0 /\ tgt.ph = "idle" /\ ~tgt.drv

HeaderInv ==
  swd_state = "HDR_TX" =>
    /\ bitcount <= PROT_HEAD_END /\ par = 0
    /\ ~tgt.drv
    /\ bitcount = 0 => tgt.ph = "idle"
    /\ bitcount > 0 => tgt.ph = "hdr" /\ Took(Header, bitcount)

TurnInv ==
  swd_state = "TRN1" =>
    /\ bitcount = PROT_TRN1 /\ par = 0
    /\ tgt.ph = "trn" /\ tgt.n = spincount /\ ~tgt.drv /\ tgt.took = << >>

AckInv ==
  swd_state = "ACK" =>
    /\ bitcount \in PROT_ACK .. PROT_ACK_END /\ par = 0
    /\ tgt.ph = "ack" /\ tgt.n = bitcount - PROT_TRN1 /\ tgt.drv
    /\ tgt.out = Answered[tgt.n] /\ tgt.took = << >>
    /\ ~swwr
    /\ Heard(Answered, bitcount - PROT_ACK)

WriteTurnInv ==
  swd_state = "TRN2" =>
    /\ Writes /\ ack = Answered /\ par = 0
    /\ bitcount \in {PROT_TRN2, PROT_DATA}
    /\ tgt.ph = "wtrn" /\ tgt.n = spincount /\ ~tgt.drv /\ tgt.took = << >>

\* The data phase at its bit k; bit DataBits is the parity, then comes one clock more.
ReadInv(k) ==
  /\ ~swwr
  /\ k <= DataBits =>
       /\ tgt.ph = "data" /\ tgt.n = k + 1 /\ tgt.drv
       /\ k < DataBits => tgt.out = req.sent[k + 1]
       /\ k = DataBits => tgt.out = (Parity(req.sent) + req.noise) % 2
       /\ Heard(req.sent, k) /\ par = OnesUpTo(req.sent, k) % 2
  /\ k > DataBits =>
       /\ tgt.ph = "skip" /\ tgt.n = req.turnaround /\ ~tgt.drv
       /\ dread = req.sent /\ par = req.noise

WriteInv(k) ==
  /\ ~tgt.drv
  /\ k <= DataBits =>
       /\ tgt.ph = "rx" /\ tgt.n = k
       /\ Took(req.dwrite, k) /\ par = OnesUpTo(req.dwrite, k) % 2
  /\ k > DataBits => tgt.ph = "idle" /\ tgt.took = Append(req.dwrite, Parity(req.dwrite))

RefusedInv(k) ==
  tgt.ph = "skip" /\ tgt.n = req.turnaround + DataBits + 1 - k /\ ~tgt.drv

DataInv ==
  swd_state = "DATA" =>
    /\ bitcount \in PROT_DATA .. PROT_PAR
    /\ ack = Answered /\ Answered # WAIT
    /\ Reads => ReadInv(bitcount - PROT_DATA)
    /\ Writes => WriteInv(bitcount - PROT_DATA)
    /\ Refused => RefusedInv(bitcount - PROT_DATA)

\* The target is done when the cooling is, and the line is held low until then.
CoolingInv ==
  swd_state = "COOLING" =>
    /\ bitcount = PROT_EOF /\ spincount \in Nat
    /\ ~tgt.drv
    /\ tgt.ph = "idle" \/ (tgt.ph = "skip" /\ tgt.n <= spincount)
    /\ SwdRight

SwdInv ==
  /\ SwdType /\ LineInv /\ IdleInv /\ HeaderInv /\ TurnInv /\ AckInv /\ WriteTurnInv
  /\ DataInv /\ CoolingInv

-----------------------------------------------------------------------------
\* What a request is made of.
LEMMA RequestFacts ==
  ASSUME SwdConstants, req \in Requests
  PROVE  /\ req.turnaround \in Turnarounds /\ req.turnaround \in Nat
         /\ req.answer \in Answers /\ dataphase \in BOOLEAN
         /\ Answered \in Bit \X Bit \X Bit
         /\ req.rnw \in Bit /\ req.noise \in Bit
         /\ req.dwrite \in Word /\ req.sent \in Word
         /\ req.addr = 1 /\ req.apndp = 0
<1>1. /\ req.turnaround \in Turnarounds /\ req.answer \in Answers
      /\ req.rnw \in Bit /\ req.noise \in Bit
      /\ req.dwrite \in Word /\ req.sent \in Word
      /\ req.addr = 1 /\ req.apndp = 0
  BY DEF Requests
<1>2. req.answer \in (Bit \X Bit \X Bit) \X BOOLEAN
  BY <1>1 DEF SwdConstants
<1> QED
  BY <1>1, <1>2 DEF SwdConstants, Answered, dataphase

\* The header is eight bits.
LEMMA HeaderFacts ==
  ASSUME SwdConstants, req \in Requests
  PROVE  /\ Header \in Seq(Bit) /\ Len(Header) = 8
         /\ \A i \in 1 .. 8 : Header[i] \in Bit
         /\ Header[1] = 1
<1>1. req.rnw \in Bit /\ req.addr \in Bit /\ req.apndp \in Bit
  BY RequestFacts DEF Bit
<1> DEFINE p == (req.apndp + req.rnw + req.addr) % 2
<1>2. p \in Bit
  BY <1>1 DEF Bit
<1>3. Header = <<1, req.apndp, req.rnw, req.addr, 0, p, 0, 1>>
  BY DEF Header
<1> HIDE DEF p
<1> QED
  BY <1>1, <1>2, <1>3 DEF Bit

\* Sums of bits.
LEMMA BitFacts ==
  ASSUME SwdConstants, NEW w \in Word
  PROVE  /\ w \in Seq(Bit) /\ Len(w) = DataBits
         /\ \A i \in 1 .. DataBits : w[i] \in Bit
         /\ Parity(w) = OnesUpTo(w, DataBits) % 2
         /\ Zeros \in Word
<1>1. w \in Seq(Bit) /\ Len(w) = DataBits
  BY LenProperties, SMT DEF Word, SwdConstants, Seq
<1> QED
  BY <1>1 DEF Word, Parity, OnesUpTo, Zeros, Bit, SwdConstants

\* The parity of the bits so far, bit by bit.
LEMMA OnesFacts ==
  ASSUME NEW w, NEW k \in Nat
  PROVE  /\ OnesUpTo(w, k) \in Nat
         /\ OnesUpTo(w, 0) = 0
         /\ OnesUpTo(w, k + 1) = OnesUpTo(w, k) + IF w[k + 1] = 1 THEN 1 ELSE 0
<1> DEFINE S(n) == {i \in 1 .. n : w[i] = 1}
<1>1. IsFiniteSet(S(k)) /\ Cardinality(S(k)) \in Nat
  <2>1. IsFiniteSet(1 .. k)
    BY FS_Interval
  <2>2. S(k) \subseteq 1 .. k
    OBVIOUS
  <2> QED
    BY <2>1, <2>2, FS_Subset, FS_CardinalityType
<1>2. S(0) = {}
  OBVIOUS
<1>3. CASE w[k + 1] = 1
  <2>1. S(k + 1) = S(k) \cup {k + 1} /\ (k + 1) \notin S(k)
    BY <1>3
  <2>2. Cardinality(S(k + 1)) = Cardinality(S(k)) + 1
    BY <1>1, <2>1, FS_AddElement
  <2> QED
    BY <1>1, <1>2, <1>3, <2>2, FS_EmptySet DEF OnesUpTo
<1>4. CASE w[k + 1] # 1
  <2>1. S(k + 1) = S(k)
    BY <1>4
  <2> QED
    BY <1>1, <1>2, <1>4, <2>1, FS_EmptySet DEF OnesUpTo
<1> QED
  BY <1>3, <1>4

\* The parity with one bit more.
LEMMA ParityStep ==
  ASSUME NEW w, NEW k \in Nat, w[k + 1] \in Bit, NEW p, p = OnesUpTo(w, k) % 2
  PROVE  (p + w[k + 1]) % 2 = OnesUpTo(w, k + 1) % 2
<1>1. /\ OnesUpTo(w, k) \in Nat
      /\ OnesUpTo(w, k + 1) = OnesUpTo(w, k) + IF w[k + 1] = 1 THEN 1 ELSE 0
  BY OnesFacts
<1>2. \A n \in Nat, b \in Bit : ((n % 2) + b) % 2 = (n + IF b = 1 THEN 1 ELSE 0) % 2
  BY DEF Bit
<1> QED
  BY <1>1, <1>2

\* The shift register takes the bit on the line in at its end.
LEMMA SlideFacts ==
  ASSUME SwdConstants, rd \in Word, NEW v \in Bit
  PROVE  /\ Slide(v) \in Word
         /\ Slide(v)[DataBits] = v
         /\ \A i \in 1 .. DataBits - 1 : Slide(v)[i] = rd[i + 1]
<1>1. rd \in Seq(Bit) /\ Len(rd) = DataBits
  BY BitFacts
<1>2. rd # << >>
  BY <1>1 DEF SwdConstants
<1> DEFINE t == Tail(rd)
<1>3. /\ t \in Seq(Bit) /\ Len(t) = DataBits - 1
      /\ \A i \in 1 .. DataBits - 1 : t[i] = rd[i + 1]
  BY <1>1, <1>2, HeadTailProperties
<1> HIDE DEF t
<1>4. /\ Append(t, v) \in Seq(Bit) /\ Len(Append(t, v)) = DataBits
      /\ Append(t, v)[DataBits] = v
      /\ \A i \in 1 .. DataBits - 1 : Append(t, v)[i] = t[i]
  BY <1>3, AppendProperties DEF SwdConstants
<1>5. Append(t, v) \in [1 .. DataBits -> Bit]
  BY <1>4, LenProperties
<1>6. Slide(v) = Append(t, v)
  BY DEF Slide, t
<1> QED
  BY <1>3, <1>4, <1>5, <1>6 DEF Word

\* The shift register with one bit more.
LEMMA HeardStep ==
  ASSUME SwdConstants, rd \in Word, NEW v \in Bit, NEW w, NEW k \in Nat, k < DataBits,
         Heard(w, k), v = w[k + 1], rd' = Slide(v)
  PROVE  \A i \in 1 .. k + 1 : rd'[DataBits - (k + 1) + i] = w[i]
<1> TAKE i \in 1 .. k + 1
<1>1. CASE i = k + 1
  BY <1>1, SlideFacts DEF SwdConstants
<1>2. CASE i \in 1 .. k
  <2>1. DataBits - (k + 1) + i \in 1 .. DataBits - 1
    BY <1>2 DEF SwdConstants
  <2>2. rd'[DataBits - (k + 1) + i] = rd[DataBits - (k + 1) + i + 1]
    BY <2>1, SlideFacts
  <2>3. DataBits - (k + 1) + i + 1 = DataBits - k + i
    BY DEF SwdConstants
  <2> QED
    BY <1>2, <2>2, <2>3 DEF Heard
<1> QED
  BY <1>1, <1>2

\* A word the shift register ends in altogether is the shift register.
LEMMA HeardAll ==
  ASSUME SwdConstants, rd \in Word, NEW w \in Word, Heard(w, DataBits)
  PROVE  rd = w
<1>1. \A i \in 1 .. DataBits : rd[i] = w[i]
  BY DEF Heard, SwdConstants
<1>2. rd = [i \in 1 .. DataBits |-> rd[i]] /\ w = [i \in 1 .. DataBits |-> w[i]]
  BY DEF Word
<1> QED
  BY <1>1, <1>2

\* What the target took grows by the bit on the line.
LEMMA TookStep ==
  ASSUME NEW w, NEW k \in Nat, tgt.took \in Seq(Bit), Took(w, k), NEW v \in Bit, v = w[k + 1]
  PROVE  /\ Append(tgt.took, v) \in Seq(Bit)
         /\ Len(Append(tgt.took, v)) = k + 1
         /\ \A i \in 1 .. k + 1 : Append(tgt.took, v)[i] = w[i]
  BY AppendProperties DEF Took

\* Whatever is on the line is a bit, and the frame is made of bits.
LEMMA LineBit ==
  ASSUME SwdType, NEW v \in Line
  PROVE  v \in Bit
  BY DEF SwdType, Line, Targets

\* The bits of the header.
LEMMA FrameBits ==
  ASSUME SwdConstants, SwdType, IdleInv, swd_state = "IDLE" \/ req \in Requests
  PROVE  FrameBit \in Bit
<1>1. CASE bitcount < PROT_TRN1 /\ req \in Requests
  <2>1. bitcount + 1 \in 1 .. 8
    BY <1>1 DEF SwdType, PROT_TRN1
  <2>2. FrameBit = Header[bitcount + 1]
    BY <1>1 DEF FrameBit, SwdConstants, SwdType, PROT_TRN1, PROT_DATA, PROT_PAR
  <2> QED
    BY <1>1, <2>1, <2>2, HeaderFacts
<1>2. CASE swd_state = "IDLE"
  <2>1. bitcount = 0
    BY <1>2 DEF IdleInv
  <2>2. Header[1] = 1
    BY DEF Header
  <2> QED
    BY <2>1, <2>2 DEF FrameBit, SwdConstants, PROT_TRN1, PROT_DATA, PROT_PAR, Bit
<1>3. CASE bitcount >= PROT_TRN1 /\ req \in Requests
  <2>1. CASE bitcount \in PROT_DATA .. PROT_DATA + DataBits - 1
    <3>1. bitcount - PROT_DATA + 1 \in 1 .. DataBits
      BY <2>1 DEF PROT_DATA, SwdConstants
    <3>2. req.dwrite[bitcount - PROT_DATA + 1] \in Bit
      BY <1>3, <3>1, RequestFacts DEF Word
    <3> QED
      BY <1>3, <2>1, <3>2 DEF FrameBit, SwdType, PROT_TRN1, PROT_DATA, PROT_PAR
  <2>2. CASE bitcount \notin PROT_DATA .. PROT_DATA + DataBits - 1
    <3>1. FrameBit = IF bitcount = PROT_PAR - 1 THEN par ELSE 0
      BY <1>3, <2>2 DEF FrameBit, SwdType, PROT_TRN1, PROT_DATA, PROT_PAR
    <3> QED
      BY <3>1 DEF SwdType, Bit
  <2> QED
    BY <2>1, <2>2
<1> QED
  BY <1>1, <1>2, <1>3 DEF SwdType, PROT_TRN1

\* The target phase by phase.
LEMMA TargetMoves ==
  ASSUME tgt \in Targets, NEW v
  PROVE
  /\ tgt.ph = "idle" =>
       Target(v) = IF v = 1 THEN Tgt("hdr", tgt.n, tgt.drv, tgt.out, <<1>>) ELSE tgt
  /\ tgt.ph = "hdr" =>
       Target(v) =
         IF Len(Append(tgt.took, v)) < 8
         THEN Tgt("hdr", tgt.n, tgt.drv, tgt.out, Append(tgt.took, v))
         ELSE IF Append(tgt.took, v) = Header
         THEN Tgt("trn", req.turnaround, FALSE, tgt.out, << >>)
         ELSE Tgt("lost", 0, FALSE, tgt.out, tgt.took)
  /\ tgt.ph = "trn" =>
       Target(v) =
         IF tgt.n > 0 THEN Tgt("trn", tgt.n - 1, FALSE, tgt.out, tgt.took)
         ELSE Tgt("ack", 1, TRUE, Answered[1], tgt.took)
  /\ tgt.ph = "ack" =>
       Target(v) =
         IF tgt.n < 3 THEN Tgt("ack", tgt.n + 1, TRUE, Answered[tgt.n + 1], tgt.took)
         ELSE IF Answered # OK
         THEN Tgt("skip", req.turnaround + (IF dataphase THEN DataBits + 1 ELSE 0), FALSE,
                  tgt.out, tgt.took)
         ELSE IF req.rnw = 0 THEN Tgt("wtrn", req.turnaround, FALSE, tgt.out, tgt.took)
         ELSE Tgt("data", 1, TRUE, req.sent[1], tgt.took)
  /\ tgt.ph = "data" =>
       Target(v) =
         IF tgt.n < DataBits THEN Tgt("data", tgt.n + 1, TRUE, req.sent[tgt.n + 1], tgt.took)
         ELSE IF tgt.n = DataBits
         THEN Tgt("data", tgt.n + 1, TRUE, (Parity(req.sent) + req.noise) % 2, tgt.took)
         ELSE Tgt("skip", req.turnaround, FALSE, tgt.out, tgt.took)
  /\ tgt.ph = "wtrn" =>
       Target(v) =
         IF tgt.n > 0 THEN Tgt("wtrn", tgt.n - 1, FALSE, tgt.out, tgt.took)
         ELSE Tgt("rx", 0, FALSE, tgt.out, tgt.took)
  /\ tgt.ph = "rx" =>
       Target(v) =
         IF tgt.n < DataBits THEN Tgt("rx", tgt.n + 1, tgt.drv, tgt.out, Append(tgt.took, v))
         ELSE Tgt("idle", 0, FALSE, tgt.out, Append(tgt.took, v))
  /\ tgt.ph = "skip" =>
       Target(v) =
         IF tgt.n > 0 THEN Tgt("skip", tgt.n - 1, FALSE, tgt.out, tgt.took)
         ELSE Tgt("idle", 0, FALSE, tgt.out, tgt.took)
  /\ tgt.ph = "lost" => Target(v) = tgt
<1>1. \A p, n : Phase(p, n) = Tgt(p, n, FALSE, tgt.out, tgt.took)
  <2> SUFFICES ASSUME NEW p, NEW n, NEW c, c = Phase(p, n)
               PROVE  c = Tgt(p, n, FALSE, tgt.out, tgt.took)
    OBVIOUS
  <2> QED
    BY DEF Targets, Phase, Tgt
<1>2. \A p, n, b : Drive(p, n, b) = Tgt(p, n, TRUE, b, tgt.took)
  <2> SUFFICES ASSUME NEW p, NEW n, NEW b, NEW c, c = Drive(p, n, b)
               PROVE  c = Tgt(p, n, TRUE, b, tgt.took)
    OBVIOUS
  <2> QED
    BY DEF Targets, Drive, Tgt
<1>3. CASE tgt.ph = "idle"
  <2> SUFFICES ASSUME NEW c, c = Target(v)
               PROVE  c = IF v = 1 THEN Tgt("hdr", tgt.n, tgt.drv, tgt.out, <<1>>) ELSE tgt
    BY <1>3
  <2>1. c = IF v = 1 THEN [tgt EXCEPT !.ph = "hdr", !.took = <<1>>] ELSE tgt
    BY <1>3 DEF Target
  <2> QED
    BY <2>1 DEF Targets, Tgt
<1>4. CASE tgt.ph = "hdr"
  <2> DEFINE taken == Append(tgt.took, v)
  <2> HIDE DEF taken
  <2> SUFFICES ASSUME NEW c, c = Target(v)
               PROVE  c = IF Len(taken) < 8 THEN Tgt("hdr", tgt.n, tgt.drv, tgt.out, taken)
                          ELSE IF taken = Header
                          THEN Tgt("trn", req.turnaround, FALSE, tgt.out, << >>)
                          ELSE Tgt("lost", 0, FALSE, tgt.out, tgt.took)
    BY <1>4 DEF taken
  <2>1. c = IF Len(taken) < 8 THEN [tgt EXCEPT !.took = taken]
            ELSE IF taken = Header THEN [Phase("trn", req.turnaround) EXCEPT !.took = << >>]
            ELSE Phase("lost", 0)
    BY <1>4 DEF Target, taken
  <2>2. CASE Len(taken) < 8
    BY <1>4, <2>1, <2>2 DEF Targets, Tgt
  <2>3. CASE ~(Len(taken) < 8) /\ taken = Header
    <3> DEFINE t == req.turnaround
    <3> HIDE DEF t
    <3>1. c = [Phase("trn", t) EXCEPT !.took = << >>]
      BY <2>1, <2>3 DEF t
    <3>2. c = Tgt("trn", t, FALSE, tgt.out, << >>)
      BY <3>1 DEF Targets, Tgt, Phase
    <3> QED
      BY <2>3, <3>2 DEF t
  <2>4. CASE ~(Len(taken) < 8) /\ taken # Header
    BY <1>1, <2>1, <2>4
  <2> QED
    BY <2>2, <2>3, <2>4
<1>5. CASE tgt.ph = "trn"
  BY <1>1, <1>2, <1>5 DEF Target, Answered
<1>6. CASE tgt.ph = "ack"
  BY <1>1, <1>2, <1>6 DEF Target, Answered
<1>7. CASE tgt.ph = "data"
  BY <1>1, <1>2, <1>7 DEF Target
<1>8. CASE tgt.ph = "wtrn"
  BY <1>1, <1>8 DEF Target
<1>9. CASE tgt.ph = "rx"
  <2> DEFINE taken == Append(tgt.took, v)
  <2> HIDE DEF taken
  <2> SUFFICES ASSUME NEW c, c = Target(v)
               PROVE  c = IF tgt.n < DataBits
                          THEN Tgt("rx", tgt.n + 1, tgt.drv, tgt.out, taken)
                          ELSE Tgt("idle", 0, FALSE, tgt.out, taken)
    BY <1>9 DEF taken
  <2>1. c = IF tgt.n < DataBits THEN [tgt EXCEPT !.n = tgt.n + 1, !.took = taken]
            ELSE [Phase("idle", 0) EXCEPT !.took = taken]
    BY <1>9 DEF Target, taken
  <2>2. CASE tgt.n < DataBits
    <3> DEFINE n == tgt.n + 1
    <3> HIDE DEF n
    <3>1. c = [tgt EXCEPT !.n = n, !.took = taken]
      BY <2>1, <2>2 DEF n
    <3>2. c = Tgt("rx", n, tgt.drv, tgt.out, taken)
      BY <1>9, <3>1 DEF Targets, Tgt
    <3> QED
      BY <2>2, <3>2 DEF n
  <2>3. CASE ~(tgt.n < DataBits)
    BY <2>1, <2>3 DEF Targets, Tgt, Phase
  <2> QED
    BY <2>2, <2>3
<1>10. CASE tgt.ph = "skip"
  BY <1>1, <1>10 DEF Target
<1>11. CASE tgt.ph = "lost"
  BY <1>11 DEF Target
<1> QED
  BY <1>3, <1>4, <1>5, <1>6, <1>7, <1>8, <1>9, <1>10, <1>11 DEF Targets

\* The target keeps its shape.
LEMMA TargetType ==
  ASSUME SwdConstants, tgt \in Targets, req \in Requests, NEW v \in Bit
  PROVE  Target(v) \in Targets
<1> DEFINE taken == Append(tgt.took, v)
           phs == {"idle", "hdr", "trn", "ack", "data", "wtrn", "rx", "skip", "lost"}
<1>1. taken \in Seq(Bit) /\ <<1>> \in Seq(Bit) /\ << >> \in Seq(Bit)
  BY DEF Targets, Bit
<1> DEFINE skipped == req.turnaround + (IF dataphase THEN DataBits + 1 ELSE 0)
<1>2. /\ req.turnaround \in Nat /\ DataBits \in Nat
      /\ \A i \in 1 .. 3 : Answered[i] \in Bit
      /\ \A i \in 1 .. DataBits : req.sent[i] \in Bit
      /\ skipped \in Nat
  BY RequestFacts DEF Word, SwdConstants
<1>3. (Parity(req.sent) + req.noise) % 2 \in Bit
  <2>1. req.noise \in Nat /\ req.sent \in Word
    BY RequestFacts DEF Bit
  <2>2. OnesUpTo(req.sent, DataBits) \in Nat
    BY OnesFacts DEF SwdConstants
  <2>3. Parity(req.sent) \in Nat
    BY <2>1, <2>2, BitFacts
  <2> QED
    BY <2>1, <2>3 DEF Bit
<1>4. tgt.drv \in BOOLEAN
  BY DEF Targets
<1>5. /\ tgt.n \in Nat /\ tgt.out \in Bit
      /\ tgt.took \in Seq(Bit) /\ tgt.ph \in phs
  BY DEF Targets
<1>6. \A p \in phs, n \in Nat, o \in Bit, k \in Seq(Bit) :
        Tgt(p, n, TRUE, o, k) \in Targets /\ Tgt(p, n, FALSE, o, k) \in Targets
  BY <1>5 DEF Targets, Tgt
<1>7. \A p \in phs, n \in Nat, o \in Bit, k \in Seq(Bit) : Tgt(p, n, tgt.drv, o, k) \in Targets
  BY <1>5, <1>4 DEF Targets, Tgt
<1>8. /\ tgt.n < 3 => Answered[tgt.n + 1] \in Bit
      /\ Answered[1] \in Bit
      /\ tgt.n < DataBits => req.sent[tgt.n + 1] \in Bit
      /\ req.sent[1] \in Bit
      /\ tgt.n > 0 => tgt.n - 1 \in Nat
  BY <1>2, <1>5, SMTT(30) DEF SwdConstants
<1>9. /\ "idle" \in phs /\ "hdr" \in phs /\ "trn" \in phs /\ "ack" \in phs /\ "data" \in phs
       /\ "wtrn" \in phs /\ "rx" \in phs /\ "skip" \in phs /\ "lost" \in phs
       /\ 0 \in Nat /\ 1 \in Nat /\ tgt.n + 1 \in Nat
  BY <1>5
<1> HIDE DEF taken, phs, skipped
<1>10. CASE tgt.ph = "idle"
  <2>1. \/ Target(v) = Tgt("hdr", tgt.n, tgt.drv, tgt.out, <<1>>)
        \/ Target(v) = tgt
    BY <1>5, <1>10, TargetMoves
  <2> QED
    BY <1>1, <1>5, <1>7, <1>9, <2>1
<1>11. CASE tgt.ph = "hdr"
  <2>1. CASE Target(v) = Tgt("hdr", tgt.n, tgt.drv, tgt.out, taken)
    BY <1>1, <1>5, <1>9, <1>7, <2>1
  <2>2. CASE \/ Target(v) = Tgt("trn", req.turnaround, FALSE, tgt.out, << >>)
             \/ Target(v) = Tgt("lost", 0, FALSE, tgt.out, tgt.took)
    BY <1>1, <1>2, <1>5, <1>6, <1>9, <2>2, ZenonT(60)
  <2> QED
    BY <1>5, <1>11, <2>1, <2>2, TargetMoves DEF taken
<1>12. CASE tgt.ph = "trn"
  <2>1. \/ tgt.n > 0 /\ Target(v) = Tgt("trn", tgt.n - 1, FALSE, tgt.out, tgt.took)
        \/ Target(v) = Tgt("ack", 1, TRUE, Answered[1], tgt.took)
    BY <1>5, <1>12, TargetMoves
  <2> QED
    BY <1>5, <1>6, <1>8, <1>9, <2>1, ZenonT(60)
<1>13. CASE tgt.ph = "ack"
  <2>1. CASE tgt.n < 3 /\ Target(v) = Tgt("ack", tgt.n + 1, TRUE, Answered[tgt.n + 1], tgt.took)
    BY <1>5, <1>6, <1>8, <1>9, <2>1, ZenonT(60)
  <2>2. CASE \/ Target(v) = Tgt("skip", skipped, FALSE, tgt.out, tgt.took)
             \/ Target(v) = Tgt("wtrn", req.turnaround, FALSE, tgt.out, tgt.took)
    BY <1>2, <1>5, <1>6, <1>9, <2>2
  <2>3. CASE Target(v) = Tgt("data", 1, TRUE, req.sent[1], tgt.took)
    BY <1>5, <1>6, <1>8, <1>9, <2>3
  <2> QED
    BY <1>5, <1>13, <2>1, <2>2, <2>3, TargetMoves DEF skipped
<1>14. CASE tgt.ph = "data"
  <2>1. CASE /\ tgt.n < DataBits
             /\ Target(v) = Tgt("data", tgt.n + 1, TRUE, req.sent[tgt.n + 1], tgt.took)
    BY <1>5, <1>6, <1>8, <1>9, <2>1, ZenonT(60)
  <2>2. CASE Target(v) = Tgt("data", tgt.n + 1, TRUE, (Parity(req.sent) + req.noise) % 2, tgt.took)
    BY <1>3, <1>5, <1>6, <1>9, <2>2
  <2>3. CASE Target(v) = Tgt("skip", req.turnaround, FALSE, tgt.out, tgt.took)
    BY <1>2, <1>5, <1>6, <1>9, <2>3
  <2> QED
    BY <1>5, <1>14, <2>1, <2>2, <2>3, TargetMoves
<1>15. CASE tgt.ph = "wtrn"
  <2>1. \/ tgt.n > 0 /\ Target(v) = Tgt("wtrn", tgt.n - 1, FALSE, tgt.out, tgt.took)
        \/ Target(v) = Tgt("rx", 0, FALSE, tgt.out, tgt.took)
    BY <1>5, <1>15, TargetMoves
  <2> QED
    BY <1>5, <1>6, <1>8, <1>9, <2>1, ZenonT(60)
<1>16. CASE tgt.ph = "rx"
  <2>1. \/ Target(v) = Tgt("rx", tgt.n + 1, tgt.drv, tgt.out, taken)
        \/ Target(v) = Tgt("idle", 0, FALSE, tgt.out, taken)
    BY <1>5, <1>16, TargetMoves DEF taken
  <2> QED
    BY <1>1, <1>5, <1>6, <1>7, <1>9, <2>1, ZenonT(60)
<1>17. CASE tgt.ph = "skip"
  <2>1. \/ tgt.n > 0 /\ Target(v) = Tgt("skip", tgt.n - 1, FALSE, tgt.out, tgt.took)
        \/ Target(v) = Tgt("idle", 0, FALSE, tgt.out, tgt.took)
    BY <1>5, <1>17, TargetMoves
  <2> QED
    BY <1>5, <1>6, <1>8, <1>9, <2>1, ZenonT(60)
<1>18. CASE tgt.ph = "lost"
  BY <1>18, TargetMoves
<1> QED
  BY <1>5, <1>10, <1>11, <1>12, <1>13, <1>14, <1>15, <1>16, <1>17, <1>18
     DEF phs

-----------------------------------------------------------------------------
\* A rising edge keeps the types.
LEMMA EdgeType ==
  ASSUME SwdConstants, SwdInv, RisingEdge
  PROVE  SwdType'
<1> USE DEF SwdInv
<1>1. PICK v \in Line :
        /\ swd_state' = Step(v).st /\ bitcount' = Step(v).bit /\ spincount' = Step(v).spin
        /\ rd' = Slide(v) /\ par' = ParNext(v)
        /\ perr' = CASE swd_state = "IDLE" /\ swdGo -> 0
                     [] swd_state = "DATA" /\ bitcount = PROT_PAR /\ req.rnw = 1 -> par
                     [] OTHER -> perr
        /\ ack' = IF swd_state = "ACK" /\ bitcount = PROT_ACK_END THEN AckOf(v) ELSE ack
        /\ dread' = IF swd_state = "DATA" /\ bitcount = PROT_PAR - 1 /\ req.rnw = 1
                    THEN rd ELSE dread
        /\ tgt' = IF swd_state = "IDLE" THEN tgt ELSE Target(v)
  BY DEF RisingEdge
<1>2. swdo' = FrameBit /\ swwr' = Driving /\ rising' = FALSE /\ swdGo' = FALSE /\ req' = req
  BY DEF RisingEdge
<1>3. v \in Bit
  BY <1>1, LineBit
<1>4. /\ Step(v).st \in {"IDLE", "HDR_TX", "TRN1", "ACK", "TRN2", "DATA", "COOLING"}
      /\ Step(v).bit \in Nat /\ Step(v).spin \in Int
      /\ Step(v).st # "IDLE" => swd_state # "IDLE" \/ swdGo
  <2>1. /\ spincount \in Int /\ bitcount \in Nat /\ DataBits \in Nat /\ IdleCycles \in Nat
        /\ swdGo \in BOOLEAN
    BY DEF SwdType, SwdConstants
  <2>2. CASE swd_state = "IDLE"
    BY <2>1, <2>2 DEF Step
  <2>3. CASE swd_state # "IDLE"
    <3>1. req.turnaround \in Nat
      BY <2>3, RequestFacts DEF SwdType
    <3>2. CASE swd_state = "HDR_TX" \/ swd_state = "TRN1"
      BY <2>1, <3>1, <3>2 DEF Step, PROT_ACK, PROT_TRN1
    <3>3. CASE swd_state = "ACK"
      <4>1. \A a : /\ AfterAck(a).st \in {"COOLING", "DATA", "TRN2"}
                   /\ AfterAck(a).bit \in Nat /\ AfterAck(a).spin \in Int
        BY <2>1, <3>1 DEF AfterAck, PROT_EOF, PROT_PAR, PROT_DATA
      <4> QED
        BY <2>1, <2>3, <3>3, <4>1 DEF Step
    <3>4. CASE swd_state = "TRN2" \/ swd_state = "DATA"
      BY <2>1, <3>1, <3>4 DEF Step, PROT_DATA
    <3>5. CASE swd_state = "COOLING"
      BY <2>1, <2>3, <3>5 DEF Step, PROT_EOF, PROT_PAR, PROT_DATA
    <3> QED
      BY <2>3, <3>2, <3>3, <3>4, <3>5 DEF SwdType
  <2> QED
    BY <2>2, <2>3
<1>5. par' \in Bit /\ perr' \in Bit
  <2>1. ParNext(v) \in Bit
    BY <1>3 DEF ParNext, SwdType, Bit
  <2>2. perr' \in Bit
    BY <1>1 DEF SwdType, Bit
  <2> QED
    BY <1>1, <2>1, <2>2
<1>6. rd' \in Word /\ dread' \in Word
  BY <1>1, <1>3, SlideFacts DEF SwdType
<1>7. ack' \in Bit \X Bit \X Bit
  <2>1. rd[DataBits - 1] \in Bit /\ rd[DataBits] \in Bit
    BY DEF SwdType, Word, SwdConstants
  <2>2. AckOf(v) \in Bit \X Bit \X Bit
    BY <1>3, <2>1 DEF AckOf
  <2> QED
    BY <1>1, <2>2 DEF SwdType
<1>8. swdo' \in Bit /\ swwr' \in BOOLEAN
  <2>1. swd_state = "IDLE" \/ req \in Requests
    BY DEF SwdType
  <2>2. FrameBit \in Bit
    BY <2>1, FrameBits
  <2> QED
    BY <1>2, <2>2 DEF Driving
<1>9. tgt' \in Targets
  <2>1. CASE swd_state = "IDLE"
    BY <1>1, <2>1 DEF SwdType
  <2>2. CASE swd_state # "IDLE"
    <3>1. req \in Requests /\ tgt \in Targets
      BY <2>2 DEF SwdType
    <3> QED
      BY <1>1, <1>3, <2>2, <3>1, TargetType
  <2> QED
    BY <2>1, <2>2
<1>10. swdGo' \/ swd_state' # "IDLE" => req' \in Requests'
  <2>1. swd_state' # "IDLE" => req \in Requests
    BY <1>1, <1>4 DEF SwdType
  <2>2. Requests' = Requests
    BY DEF Requests, Word, Bit, Zeros
  <2> QED
    BY <1>2, <2>1, <2>2
<1>11. swd_state' \in {"IDLE", "HDR_TX", "TRN1", "ACK", "TRN2", "DATA", "COOLING"}
  BY <1>1, <1>4
<1>12. bitcount' \in Nat /\ spincount' \in Int
  BY <1>1, <1>4
<1>13. rising' \in BOOLEAN /\ swdGo' \in BOOLEAN
  BY <1>2
<1> QED
  BY <1>5, <1>6, <1>7, <1>8, <1>9, <1>10, <1>11, <1>12, <1>13 DEF SwdType, Word, Targets, Bit

\* What a rising edge of a transfer does, but for the states.
LEMMA EdgeFacts ==
  ASSUME SwdConstants, SwdInv, RisingEdge, swd_state # "IDLE"
  PROVE  /\ req \in Requests /\ req' = req /\ tgt \in Targets
         /\ rd \in Word /\ Answered' = Answered /\ Header' = Header
         /\ ~rising' /\ swwr' = Driving
         /\ \E v \in Line :
              /\ v \in Bit
              /\ swd_state' = Step(v).st /\ bitcount' = Step(v).bit
              /\ spincount' = Step(v).spin
              /\ rd' = Slide(v) /\ par' = ParNext(v)
              /\ perr' = IF swd_state = "DATA" /\ bitcount = PROT_PAR /\ req.rnw = 1
                         THEN par ELSE perr
              /\ ack' = IF swd_state = "ACK" /\ bitcount = PROT_ACK_END THEN AckOf(v) ELSE ack
              /\ dread' = IF swd_state = "DATA" /\ bitcount = PROT_PAR - 1 /\ req.rnw = 1
                          THEN rd ELSE dread
              /\ tgt' = Target(v)
<1>1. PICK v \in Line :
        /\ swd_state' = Step(v).st /\ bitcount' = Step(v).bit /\ spincount' = Step(v).spin
        /\ rd' = Slide(v) /\ par' = ParNext(v)
        /\ perr' = CASE swd_state = "IDLE" /\ swdGo -> 0
                     [] swd_state = "DATA" /\ bitcount = PROT_PAR /\ req.rnw = 1 -> par
                     [] OTHER -> perr
        /\ ack' = IF swd_state = "ACK" /\ bitcount = PROT_ACK_END THEN AckOf(v) ELSE ack
        /\ dread' = IF swd_state = "DATA" /\ bitcount = PROT_PAR - 1 /\ req.rnw = 1
                    THEN rd ELSE dread
        /\ tgt' = IF swd_state = "IDLE" THEN tgt ELSE Target(v)
  BY DEF RisingEdge
<1>2. v \in Bit
  BY LineBit DEF SwdInv
<1>3. perr' = IF swd_state = "DATA" /\ bitcount = PROT_PAR /\ req.rnw = 1 THEN par ELSE perr
  BY <1>1
<1>4. tgt' = Target(v)
  BY <1>1
<1>5. req' = req /\ ~rising' /\ swwr' = Driving
  BY DEF RisingEdge
<1>6. Answered' = Answered /\ Header' = Header
  BY <1>5 DEF Answered, Header
<1>7. req \in Requests /\ tgt \in Targets /\ rd \in Word
  BY DEF SwdInv, SwdType
<1> QED
  BY <1>1, <1>2, <1>3, <1>4, <1>5, <1>6, <1>7

\* From idle: a request starts a transfer, with the target idle too.
LEMMA IdleEdge ==
  ASSUME SwdConstants, SwdInv, RisingEdge, swd_state = "IDLE"
  PROVE  SwdInv'
<1>1. /\ swd_state' = IF swdGo THEN "HDR_TX" ELSE "IDLE"
      /\ bitcount' = 0 /\ tgt' = tgt /\ ~rising'
      /\ swdGo => par' = 0
  BY DEF RisingEdge, Step, ParNext
<1>2. tgt'.ph = "idle" /\ ~tgt'.drv
  BY <1>1 DEF SwdInv, IdleInv
<1>3. IdleInv' /\ HeaderInv' /\ LineInv'
  BY <1>1, <1>2 DEF IdleInv, HeaderInv, LineInv, PROT_HEAD_END
<1>4. TurnInv' /\ AckInv' /\ WriteTurnInv' /\ DataInv' /\ CoolingInv'
  BY <1>1 DEF TurnInv, AckInv, WriteTurnInv, DataInv, CoolingInv
<1> QED
  BY <1>3, <1>4, EdgeType DEF SwdInv

\* The header: the target takes it bit by bit and starts its turnaround with the host.
LEMMA HeaderEdge ==
  ASSUME SwdConstants, SwdInv, RisingEdge, swd_state = "HDR_TX"
  PROVE  SwdInv'
<1>1. PICK v \in Line :
        /\ v \in Bit
        /\ swd_state' = Step(v).st /\ bitcount' = Step(v).bit /\ spincount' = Step(v).spin
        /\ par' = ParNext(v) /\ tgt' = Target(v)
  BY EdgeFacts
<1>2. /\ req \in Requests /\ req' = req /\ tgt \in Targets /\ Header' = Header /\ ~rising'
      /\ bitcount \in 0 .. 7 /\ par = 0
      /\ ~tgt.drv /\ tgt.took \in Seq(Bit)
      /\ bitcount = 0 => tgt.ph = "idle"
      /\ bitcount > 0 => tgt.ph = "hdr" /\ Took(Header, bitcount)
  BY EdgeFacts DEF SwdInv, SwdType, HeaderInv, PROT_HEAD_END, Targets
<1>3. v = Header[bitcount + 1]
  <2>1. swwr /\ swdo = FrameBit
    BY <1>2 DEF SwdInv, LineInv, RisingEdge, PROT_TRN1
  <2>2. v = FrameBit
    BY <2>1 DEF Line
  <2> QED
    BY <1>2, <2>2 DEF FrameBit, PROT_TRN1, PROT_DATA, PROT_PAR, SwdConstants
<1>4. par' = 0
  BY <1>1, <1>2 DEF ParNext
<1>5. /\ Header \in Seq(Bit) /\ Len(Header) = 8 /\ Header[1] = 1
  BY <1>2, HeaderFacts
<1>6. CASE bitcount < 7
  <2>1. swd_state' = "HDR_TX" /\ bitcount' = bitcount + 1
    BY <1>1, <1>2, <1>6 DEF Step, PROT_HEAD_END
  <2>2. ~tgt'.drv /\ tgt'.ph = "hdr" /\ Len(tgt'.took) = bitcount + 1
        /\ \A i \in 1 .. bitcount + 1 : tgt'.took[i] = Header[i]
    <3>1. CASE bitcount = 0
      <4>1. tgt \in Targets /\ tgt.ph = "idle" /\ v = 1
        BY <1>2, <1>3, <1>5, <3>1
      <4>2. Target(v) = Tgt("hdr", tgt.n, tgt.drv, tgt.out, <<1>>)
        BY <4>1, TargetMoves
      <4>3. tgt' = Tgt("hdr", tgt.n, tgt.drv, tgt.out, <<1>>)
        BY <1>1, <4>2
      <4> QED
        BY <1>2, <1>5, <3>1, <4>3 DEF Tgt
    <3>2. CASE bitcount > 0
      <4>1. /\ Len(Append(tgt.took, v)) = bitcount + 1
            /\ \A i \in 1 .. bitcount + 1 : Append(tgt.took, v)[i] = Header[i]
        BY <1>1, <1>2, <1>3, <3>2, TookStep
      <4>2. tgt \in Targets /\ tgt.ph = "hdr" /\ Len(Append(tgt.took, v)) < 8
        BY <1>2, <1>6, <3>2, <4>1
      <4>3. Target(v) = Tgt("hdr", tgt.n, tgt.drv, tgt.out, Append(tgt.took, v))
        BY <4>2, TargetMoves
      <4>4. tgt' = Tgt("hdr", tgt.n, tgt.drv, tgt.out, Append(tgt.took, v))
        BY <1>1, <4>3
      <4> QED
        BY <1>2, <4>1, <4>4 DEF Tgt
    <3> QED
      BY <1>2, <3>1, <3>2
  <2>3. HeaderInv' /\ LineInv'
    BY <1>2, <1>4, <1>6, <2>1, <2>2 DEF HeaderInv, LineInv, PROT_HEAD_END, Took
  <2>4. IdleInv' /\ TurnInv' /\ AckInv' /\ WriteTurnInv' /\ DataInv' /\ CoolingInv'
    BY <2>1 DEF IdleInv, TurnInv, AckInv, WriteTurnInv, DataInv, CoolingInv
  <2> QED
    BY <2>3, <2>4, EdgeType DEF SwdInv
<1>7. CASE bitcount = 7
  <2>1. swd_state' = "TRN1" /\ bitcount' = 8 /\ spincount' = req.turnaround
    BY <1>1, <1>7 DEF Step, PROT_HEAD_END
  <2> DEFINE taken == Append(tgt.took, v)
  <2>2. /\ taken \in Seq(Bit) /\ Len(taken) = 8
        /\ \A i \in 1 .. 8 : taken[i] = Header[i]
    BY <1>1, <1>2, <1>3, <1>7, TookStep
  <2>3. taken = Header
    BY <1>5, <2>2, SeqEqual
  <2>4. tgt \in Targets /\ tgt.ph = "hdr" /\ ~(Len(taken) < 8)
    BY <1>2, <1>7, <2>2
  <2>5. Target(v) = Tgt("trn", req.turnaround, FALSE, tgt.out, << >>)
    BY <2>3, <2>4, TargetMoves
  <2>6. TurnInv' /\ LineInv'
    BY <1>1, <1>2, <1>4, <2>1, <2>5 DEF TurnInv, LineInv, PROT_TRN1, Tgt
  <2>7. IdleInv' /\ HeaderInv' /\ AckInv' /\ WriteTurnInv' /\ DataInv' /\ CoolingInv'
    BY <2>1 DEF IdleInv, HeaderInv, AckInv, WriteTurnInv, DataInv, CoolingInv
  <2> QED
    BY <2>6, <2>7, EdgeType DEF SwdInv
<1> QED
  BY <1>2, <1>6, <1>7

\* The turnaround before the answer: both sides count it out together.
LEMMA TurnEdge ==
  ASSUME SwdConstants, SwdInv, RisingEdge, swd_state = "TRN1"
  PROVE  SwdInv'
<1>1. PICK v \in Line :
        /\ swd_state' = Step(v).st /\ bitcount' = Step(v).bit /\ spincount' = Step(v).spin
        /\ par' = ParNext(v) /\ tgt' = Target(v)
  BY EdgeFacts
<1>2. /\ Answered' = Answered /\ ~rising' /\ swwr' = Driving
      /\ bitcount = 8 /\ par = 0
  BY EdgeFacts DEF SwdInv, TurnInv, PROT_TRN1
<1>3. /\ tgt \in Targets /\ tgt.ph = "trn" /\ tgt.n = spincount /\ tgt.took = << >>
      /\ spincount \in Nat
  BY DEF SwdInv, SwdType, TurnInv, Targets
<1>4. par' = 0
  BY <1>1, <1>2 DEF ParNext
<1>5. CASE spincount > 0
  <2>1. swd_state' = "TRN1" /\ bitcount' = 8 /\ spincount' = spincount - 1
    BY <1>1, <1>3, <1>5 DEF Step, PROT_TRN1
  <2>2. Target(v) = Tgt("trn", tgt.n - 1, FALSE, tgt.out, tgt.took)
    BY <1>3, <1>5, TargetMoves
  <2>3. TurnInv' /\ LineInv'
    BY <1>1, <1>2, <1>3, <1>4, <2>1, <2>2 DEF TurnInv, LineInv, PROT_TRN1, Tgt
  <2>4. IdleInv' /\ HeaderInv' /\ AckInv' /\ WriteTurnInv' /\ DataInv' /\ CoolingInv'
    BY <2>1 DEF IdleInv, HeaderInv, AckInv, WriteTurnInv, DataInv, CoolingInv
  <2> QED
    BY <2>3, <2>4, EdgeType DEF SwdInv
<1>6. CASE spincount = 0
  <2>1. swd_state' = "ACK" /\ bitcount' = 9
    BY <1>1, <1>6 DEF Step, PROT_ACK
  <2>2. Target(v) = Tgt("ack", 1, TRUE, Answered[1], tgt.took)
    <3>1. tgt \in Targets /\ tgt.ph = "trn" /\ ~(tgt.n > 0)
      BY <1>3, <1>6
    <3> QED
      BY <3>1, TargetMoves
  <2>3. /\ tgt'.ph = "ack" /\ tgt'.n = 1 /\ tgt'.drv
        /\ tgt'.out = Answered'[1] /\ tgt'.took = << >>
    BY <1>1, <1>2, <1>3, <2>2 DEF Tgt
  <2>4. ~swwr'
    BY <1>2 DEF Driving, PROT_TRN1, PROT_TRN2, PROT_PAR, PROT_DATA, SwdConstants
  <2>5. AckInv'
    BY <1>4, <2>1, <2>3, <2>4
       DEF AckInv, PROT_ACK, PROT_ACK_END, PROT_TRN1, Heard
  <2>6. LineInv' /\ IdleInv' /\ HeaderInv' /\ TurnInv' /\ WriteTurnInv' /\ DataInv' /\ CoolingInv'
    BY <1>2, <2>1 DEF LineInv, IdleInv, HeaderInv, TurnInv, WriteTurnInv, DataInv, CoolingInv
  <2> QED
    BY <2>5, <2>6, EdgeType DEF SwdInv
<1> QED
  BY <1>3, <1>5, <1>6

\* The answer is the target's, bit by bit, and decides what comes next on both sides.
LEMMA AckEdge ==
  ASSUME SwdConstants, CoolingCovers, SwdInv, RisingEdge, swd_state = "ACK"
  PROVE  SwdInv'
<1>1. PICK v \in Line :
        /\ v \in Bit
        /\ swd_state' = Step(v).st /\ bitcount' = Step(v).bit /\ spincount' = Step(v).spin
        /\ rd' = Slide(v) /\ par' = ParNext(v) /\ tgt' = Target(v)
        /\ ack' = IF bitcount = PROT_ACK_END THEN AckOf(v) ELSE ack
  BY EdgeFacts
<1>2. /\ req \in Requests /\ req' = req /\ rd \in Word
      /\ Answered' = Answered /\ ~rising' /\ swwr' = Driving
      /\ bitcount \in 9 .. 11 /\ par = 0
      /\ tgt \in Targets /\ tgt.ph = "ack" /\ tgt.n = bitcount - 8
      /\ tgt.out = Answered[bitcount - 8] /\ tgt.took = << >>
      /\ Heard(Answered, bitcount - 9)
  BY EdgeFacts DEF SwdInv, AckInv, PROT_TRN1, PROT_ACK, PROT_ACK_END
<1>3. v = Answered[bitcount - 8]
  BY <1>1, <1>2 DEF Line, SwdInv, AckInv
<1>4. par' = 0
  BY <1>1, <1>2 DEF ParNext
<1>5. ~swwr'
  BY <1>2 DEF Driving, PROT_TRN1, PROT_TRN2, PROT_PAR, PROT_DATA, SwdConstants
<1>6. /\ req.turnaround \in Turnarounds /\ req.turnaround \in Nat /\ req.answer \in Answers
      /\ Answered \in Bit \X Bit \X Bit /\ req.rnw \in Bit
      /\ DataBits \in Nat /\ DataBits >= 2
  BY <1>2, RequestFacts DEF SwdConstants
<1>7. CASE bitcount < 11
  <2>1. swd_state' = "ACK" /\ bitcount' = bitcount + 1
    BY <1>1, <1>2, <1>7 DEF Step, PROT_ACK_END
  <2>2. tgt \in Targets /\ tgt.ph = "ack" /\ tgt.n < 3
    BY <1>2, <1>7
  <2>3. Target(v) = Tgt("ack", tgt.n + 1, TRUE, Answered[tgt.n + 1], tgt.took)
    BY <2>2, TargetMoves
  <2>4. /\ tgt'.ph = "ack" /\ tgt'.n = bitcount' - 8 /\ tgt'.drv
        /\ tgt'.out = Answered'[tgt'.n] /\ tgt'.took = << >>
    BY <1>1, <1>2, <2>1, <2>3 DEF Tgt
  <2>5. \A i \in 1 .. bitcount - 9 + 1 : rd'[DataBits - (bitcount - 9 + 1) + i] = Answered[i]
    <3>1. bitcount - 9 \in Nat /\ bitcount - 9 < DataBits /\ v = Answered[bitcount - 9 + 1]
      BY <1>2, <1>3, <1>6, <1>7
    <3> DEFINE k == bitcount - 9
    <3>2. k \in Nat /\ k < DataBits /\ v = Answered[k + 1] /\ Heard(Answered, k)
      BY <1>2, <3>1
    <3> HIDE DEF k
    <3>3. \A i \in 1 .. k + 1 : rd'[DataBits - (k + 1) + i] = Answered[i]
      BY <1>1, <1>2, <3>2, HeardStep
    <3> QED
      BY <3>3 DEF k
  <2>6. Heard(Answered, bitcount - PROT_ACK)'
    <3>1. bitcount' - PROT_ACK = bitcount - 9 + 1
      BY <1>2, <2>1 DEF PROT_ACK
    <3> QED
      BY <1>2, <2>5, <3>1 DEF Heard, PROT_ACK
  <2>7. AckInv'
    BY <1>2, <1>4, <1>5, <1>7, <2>1, <2>4, <2>6
       DEF AckInv, PROT_ACK, PROT_ACK_END, PROT_TRN1
  <2>8. LineInv' /\ IdleInv' /\ HeaderInv' /\ TurnInv' /\ WriteTurnInv' /\ DataInv' /\ CoolingInv'
    BY <1>2, <2>1 DEF LineInv, IdleInv, HeaderInv, TurnInv, WriteTurnInv, DataInv, CoolingInv
  <2> QED
    BY <2>7, <2>8, EdgeType DEF SwdInv
<1>8. CASE bitcount = 11
  <2>1. AckOf(v) = Answered
    <3>1. rd[DataBits - 1] = Answered[1] /\ rd[DataBits] = Answered[2]
      <4>1. \A i \in 1 .. 2 : rd[DataBits - 2 + i] = Answered[i]
        BY <1>2, <1>8 DEF Heard
      <4>2. DataBits - 2 + 1 = DataBits - 1 /\ DataBits - 2 + 2 = DataBits
        BY <1>6
      <4> QED
        BY <4>1, <4>2
    <3>2. Answered = <<Answered[1], Answered[2], Answered[3]>>
      BY <1>6
    <3> QED
      BY <1>3, <1>8, <3>1, <3>2 DEF AckOf
  <2>2. ack' = Answered
    BY <1>1, <1>8, <2>1 DEF PROT_ACK_END
  <2>3. /\ swd_state' = AfterAck(Answered).st /\ bitcount' = AfterAck(Answered).bit
        /\ spincount' = AfterAck(Answered).spin
    BY <1>1, <1>8, <2>1 DEF Step, PROT_ACK_END
  <2>4. tgt \in Targets /\ tgt.ph = "ack" /\ ~(tgt.n < 3)
    BY <1>2, <1>8
  <2>5. OK # WAIT
    BY DEF OK, WAIT
  <2>6. CASE Answered = WAIT
    <3> DEFINE skipped == req.turnaround + (IF dataphase THEN DataBits + 1 ELSE 0)
    <3>1. /\ swd_state' = "COOLING" /\ bitcount' = PROT_EOF
          /\ spincount' = IF dataphase THEN DataBits + 2 ELSE 2
      BY <2>3, <2>6 DEF AfterAck
    <3>2. Target(v) = Tgt("skip", skipped, FALSE, tgt.out, tgt.took)
      BY <2>4, <2>5, <2>6, TargetMoves
    <3>3. req.turnaround <= IF dataphase THEN 1 ELSE 2
      BY <1>6, <2>6 DEF CoolingCovers, Answered, dataphase
    <3>4. skipped <= spincount' /\ spincount' \in Nat
      BY <1>6, <3>1, <3>3
    <3> HIDE DEF skipped
    <3>5. ~tgt'.drv /\ tgt'.ph = "skip" /\ tgt'.n <= spincount'
      BY <1>1, <3>2, <3>4 DEF Tgt
    <3>6. SwdRight'
      BY <1>2, <2>2, <2>5, <2>6 DEF SwdRight, Answered
    <3>7. CoolingInv'
      BY <3>1, <3>4, <3>5, <3>6 DEF CoolingInv, PROT_EOF, PROT_PAR, PROT_DATA
    <3>8. LineInv' /\ IdleInv' /\ HeaderInv' /\ TurnInv' /\ AckInv' /\ WriteTurnInv' /\ DataInv'
      BY <1>2, <3>1 DEF LineInv, IdleInv, HeaderInv, TurnInv, AckInv, WriteTurnInv, DataInv
    <3> QED
      BY <3>7, <3>8, EdgeType DEF SwdInv
  <2>7. CASE Writes
    <3>1. swd_state' = "TRN2" /\ bitcount' = 12 /\ spincount' = req.turnaround
      BY <1>8, <2>3, <2>5, <2>7 DEF AfterAck, Writes
    <3>2. Target(v) = Tgt("wtrn", req.turnaround, FALSE, tgt.out, tgt.took)
      BY <2>4, <2>7, TargetMoves DEF Writes
    <3>3. ~tgt'.drv /\ tgt'.ph = "wtrn" /\ tgt'.n = spincount' /\ tgt'.took = << >>
      BY <1>1, <1>2, <3>1, <3>2 DEF Tgt
    <3>4. Writes'
      BY <1>2, <2>7 DEF Writes
    <3>5. WriteTurnInv'
      BY <1>2, <1>4, <2>2, <3>1, <3>3, <3>4 DEF WriteTurnInv, PROT_TRN2
    <3>6. LineInv' /\ IdleInv' /\ HeaderInv' /\ TurnInv' /\ AckInv' /\ DataInv' /\ CoolingInv'
      BY <1>2, <3>1 DEF LineInv, IdleInv, HeaderInv, TurnInv, AckInv, DataInv, CoolingInv
    <3> QED
      BY <3>5, <3>6, EdgeType DEF SwdInv
  <2>8. CASE Reads
    <3>1. swd_state' = "DATA" /\ bitcount' = 13
      BY <2>3, <2>5, <2>8 DEF AfterAck, Reads, PROT_DATA
    <3>2. Target(v) = Tgt("data", 1, TRUE, req.sent[1], tgt.took)
      <4>1. Answered = OK /\ ~(req.rnw = 0)
        BY <2>8 DEF Reads
      <4> QED
        BY <2>4, <4>1, TargetMoves
    <3>3. tgt'.drv /\ tgt'.ph = "data" /\ tgt'.n = 1 /\ tgt'.out = req'.sent[1]
      BY <1>1, <1>2, <3>2 DEF Tgt
    <3>4. par' = OnesUpTo(req'.sent, 0) % 2
      BY <1>4, OnesFacts
    <3>5. bitcount' - PROT_DATA = 0
      BY <3>1 DEF PROT_DATA
    <3>6. ReadInv(0)'
      BY <1>5, <1>6, <3>3, <3>4 DEF ReadInv, Heard
    <3>7. Reads' /\ ~Writes' /\ ~Refused'
      BY <1>2, <2>8 DEF Reads, Writes, Refused
    <3>8. DataInv'
      BY <1>2, <1>6, <2>2, <2>5, <2>8, <3>1, <3>5, <3>6, <3>7
         DEF DataInv, Reads, PROT_DATA, PROT_PAR
    <3>9. LineInv' /\ IdleInv' /\ HeaderInv' /\ TurnInv' /\ AckInv' /\ WriteTurnInv' /\ CoolingInv'
      BY <1>2, <3>1 DEF LineInv, IdleInv, HeaderInv, TurnInv, AckInv, WriteTurnInv, CoolingInv
    <3> QED
      BY <3>8, <3>9, EdgeType DEF SwdInv
  <2>9. CASE Refused
    <3>1. swd_state' = "DATA" /\ bitcount' = 13
      BY <2>3, <2>9 DEF AfterAck, Refused, PROT_DATA
    <3>2. dataphase
      BY <1>6, <2>9 DEF CoolingCovers, Refused, Answered, dataphase
    <3>3. Target(v) = Tgt("skip", req.turnaround + (DataBits + 1), FALSE, tgt.out, tgt.took)
      BY <2>4, <2>9, <3>2, TargetMoves DEF Refused
    <3>4. ~tgt'.drv /\ tgt'.ph = "skip" /\ tgt'.n = req.turnaround + (DataBits + 1)
      BY <1>1, <3>3 DEF Tgt
    <3>5. /\ bitcount' - PROT_DATA = 0
          /\ req.turnaround + (DataBits + 1) = req.turnaround + DataBits + 1 - 0
      BY <1>6, <3>1 DEF PROT_DATA
    <3>6. RefusedInv(0)'
      BY <1>2, <3>4, <3>5 DEF RefusedInv
    <3>7. ~Reads' /\ ~Writes' /\ Refused'
      BY <1>2, <2>9 DEF Reads, Writes, Refused
    <3>8. DataInv'
      BY <1>2, <1>6, <2>2, <2>9, <3>1, <3>5, <3>6, <3>7 DEF DataInv, Refused, PROT_DATA, PROT_PAR
    <3>9. LineInv' /\ IdleInv' /\ HeaderInv' /\ TurnInv' /\ AckInv' /\ WriteTurnInv' /\ CoolingInv'
      BY <1>2, <3>1 DEF LineInv, IdleInv, HeaderInv, TurnInv, AckInv, WriteTurnInv, CoolingInv
    <3> QED
      BY <3>8, <3>9, EdgeType DEF SwdInv
  <2> QED
    BY <1>6, <2>6, <2>7, <2>8, <2>9 DEF Reads, Writes, Refused, Bit
<1> QED
  BY <1>2, <1>7, <1>8

\* The turnaround of a write: counted out together too.
LEMMA WriteTurnEdge ==
  ASSUME SwdConstants, SwdInv, RisingEdge, swd_state = "TRN2"
  PROVE  SwdInv'
<1>1. PICK v \in Line :
        /\ swd_state' = Step(v).st /\ bitcount' = Step(v).bit /\ spincount' = Step(v).spin
        /\ par' = ParNext(v) /\ tgt' = Target(v)
        /\ ack' = IF swd_state = "ACK" /\ bitcount = PROT_ACK_END THEN AckOf(v) ELSE ack
  BY EdgeFacts
<1>2. /\ Answered' = Answered /\ ~rising' /\ req' = req
      /\ par = 0 /\ Writes /\ ack = Answered
  BY EdgeFacts DEF SwdInv, WriteTurnInv
<1>3. /\ tgt \in Targets /\ tgt.ph = "wtrn" /\ tgt.n = spincount /\ tgt.took = << >>
      /\ spincount \in Nat
  BY DEF SwdInv, SwdType, WriteTurnInv, Targets
<1>4. par' = 0 /\ ack' = Answered' /\ Writes'
  BY <1>1, <1>2 DEF ParNext, Writes
<1>5. CASE spincount > 0
  <2>1. swd_state' = "TRN2" /\ bitcount' = 13 /\ spincount' = spincount - 1
    BY <1>1, <1>3, <1>5 DEF Step, PROT_DATA
  <2>2. Target(v) = Tgt("wtrn", tgt.n - 1, FALSE, tgt.out, tgt.took)
    BY <1>3, <1>5, TargetMoves
  <2>3. WriteTurnInv'
    BY <1>1, <1>3, <1>4, <2>1, <2>2 DEF WriteTurnInv, PROT_DATA, Tgt
  <2>4. LineInv' /\ IdleInv' /\ HeaderInv' /\ TurnInv' /\ AckInv' /\ DataInv' /\ CoolingInv'
    BY <1>2, <2>1 DEF LineInv, IdleInv, HeaderInv, TurnInv, AckInv, DataInv, CoolingInv
  <2> QED
    BY <2>3, <2>4, EdgeType DEF SwdInv
<1>6. CASE spincount = 0
  <2>1. swd_state' = "DATA" /\ bitcount' = 13
    BY <1>1, <1>6 DEF Step, PROT_DATA
  <2>2. Target(v) = Tgt("rx", 0, FALSE, tgt.out, tgt.took)
    <3>1. tgt \in Targets /\ tgt.ph = "wtrn" /\ ~(tgt.n > 0)
      BY <1>3, <1>6
    <3> QED
      BY <3>1, TargetMoves
  <2>3. tgt'.ph = "rx" /\ tgt'.n = 0 /\ ~tgt'.drv /\ tgt'.took = << >>
    BY <1>1, <1>3, <2>2 DEF Tgt
  <2>4. par' = OnesUpTo(req'.dwrite, 0) % 2
    BY <1>4, OnesFacts
  <2>5. WriteInv(0)'
    BY <2>3, <2>4 DEF WriteInv, Took, SwdConstants
  <2>6. bitcount' - PROT_DATA = 0 /\ bitcount' \in PROT_DATA .. PROT_PAR
    BY <2>1 DEF PROT_DATA, PROT_PAR, SwdConstants
  <2>7. ~Reads' /\ ~Refused' /\ Answered' # WAIT
    BY <1>4 DEF Reads, Writes, Refused, OK, WAIT
  <2>8. DataInv'
    BY <1>4, <2>1, <2>5, <2>6, <2>7 DEF DataInv, PROT_DATA, PROT_PAR
  <2>9. LineInv' /\ IdleInv' /\ HeaderInv' /\ TurnInv' /\ AckInv' /\ WriteTurnInv' /\ CoolingInv'
    BY <1>2, <2>1 DEF LineInv, IdleInv, HeaderInv, TurnInv, AckInv, WriteTurnInv, CoolingInv
  <2> QED
    BY <2>8, <2>9, EdgeType DEF SwdInv
<1> QED
  BY <1>3, <1>5, <1>6

\* The data phase of a read: the word and its parity go into the shift register and the
\* parity bit as the target sends them.
LEMMA ReadEdge ==
  ASSUME SwdConstants, SwdInv, RisingEdge, swd_state = "DATA", Reads
  PROVE  SwdInv'
<1> DEFINE k == bitcount - PROT_DATA
<1>1. PICK v \in Line :
        /\ v \in Bit
        /\ swd_state' = Step(v).st /\ bitcount' = Step(v).bit /\ spincount' = Step(v).spin
        /\ rd' = Slide(v) /\ par' = ParNext(v) /\ tgt' = Target(v)
        /\ perr' = IF swd_state = "DATA" /\ bitcount = PROT_PAR /\ req.rnw = 1
                   THEN par ELSE perr
        /\ ack' = IF swd_state = "ACK" /\ bitcount = PROT_ACK_END THEN AckOf(v) ELSE ack
        /\ dread' = IF swd_state = "DATA" /\ bitcount = PROT_PAR - 1 /\ req.rnw = 1
                    THEN rd ELSE dread
  BY EdgeFacts
<1>2. /\ req \in Requests /\ req' = req /\ tgt \in Targets /\ rd \in Word
      /\ Answered' = Answered /\ ~rising' /\ swwr' = Driving
  BY EdgeFacts
<1>3. /\ bitcount \in PROT_DATA .. PROT_PAR /\ bitcount \in Nat
      /\ ack = Answered /\ ReadInv(k)
      /\ ack' = Answered'
  BY <1>1, <1>2 DEF SwdInv, SwdType, DataInv
<1>4. /\ DataBits \in Nat /\ DataBits >= 2 /\ k \in 0 .. DataBits + 1 /\ bitcount = k + 13
      /\ PROT_PAR = DataBits + 14
  BY <1>3 DEF PROT_PAR, PROT_DATA, SwdConstants
<1>5. /\ Reads' /\ ~Writes' /\ ~Refused' /\ Answered' # WAIT
      /\ Answered = OK /\ req.rnw = 1
  BY <1>2 DEF Reads, Writes, Refused, OK, WAIT
<1>6. /\ req.turnaround \in Nat /\ req.sent \in Word /\ req.noise \in Bit
      /\ Parity(req.sent) = OnesUpTo(req.sent, DataBits) % 2
      /\ \A i \in 1 .. DataBits : req.sent[i] \in Bit
  BY <1>2, RequestFacts, BitFacts
<1>7. par' = (par + v) % 2
  BY <1>1 DEF ParNext
<1> HIDE DEF k
<1>8. CASE k <= DataBits
  <2>1. /\ swd_state' = "DATA" /\ bitcount' = bitcount + 1
        /\ bitcount' - PROT_DATA = k + 1 /\ bitcount' \in PROT_DATA .. PROT_PAR
    BY <1>1, <1>4, <1>8 DEF Step, PROT_DATA
  <2>2. ~swwr'
    BY <1>2, <1>4, <1>5, <1>8 DEF Driving, PROT_TRN1, PROT_TRN2
  <2>3. /\ tgt.ph = "data" /\ tgt.n = k + 1
        /\ k < DataBits => tgt.out = req.sent[k + 1]
        /\ k = DataBits => tgt.out = (Parity(req.sent) + req.noise) % 2
        /\ Heard(req.sent, k) /\ par = OnesUpTo(req.sent, k) % 2
    BY <1>3, <1>8 DEF ReadInv
  <2>4. v = tgt.out
    BY <1>1, <1>3, <1>8 DEF ReadInv, Line
  <2>5. CASE k < DataBits
    <3>1. v = req.sent[k + 1] /\ k \in Nat /\ k + 1 <= DataBits /\ req.sent[k + 1] \in Bit
      BY <1>4, <1>6, <2>3, <2>4, <2>5
    <3>2. par' = OnesUpTo(req.sent, k + 1) % 2
      BY <1>7, <2>3, <3>1, ParityStep
    <3>3. \A i \in 1 .. k + 1 : rd'[DataBits - (k + 1) + i] = req.sent[i]
      BY <1>1, <1>2, <2>3, <2>5, <3>1, HeardStep
    <3>4. /\ tgt'.ph = "data" /\ tgt'.n = k + 1 + 1 /\ tgt'.drv
          /\ k + 1 < DataBits => tgt'.out = req.sent[k + 1 + 1]
          /\ k + 1 = DataBits => tgt'.out = (Parity(req.sent) + req.noise) % 2
      <4>1. CASE k + 1 < DataBits
        <5>1. tgt \in Targets /\ tgt.ph = "data" /\ tgt.n < DataBits
          BY <1>2, <2>3, <4>1
        <5>2. Target(v) = Tgt("data", tgt.n + 1, TRUE, req.sent[tgt.n + 1], tgt.took)
          BY <5>1, TargetMoves
        <5> QED
          BY <1>1, <1>4, <2>3, <4>1, <5>2 DEF Tgt
      <4>2. CASE k + 1 = DataBits
        <5>1. tgt \in Targets /\ tgt.ph = "data" /\ ~(tgt.n < DataBits) /\ tgt.n = DataBits
          BY <1>2, <1>4, <2>3, <4>2
        <5>2. Target(v) = Tgt("data", tgt.n + 1, TRUE, (Parity(req.sent) + req.noise) % 2, tgt.took)
          BY <5>1, TargetMoves
        <5> QED
          BY <1>1, <1>4, <2>3, <4>2, <5>2 DEF Tgt
      <4> QED
        BY <1>4, <3>1, <4>1, <4>2
    <3>5. /\ Parity(req.sent)' = Parity(req.sent)
          /\ OnesUpTo(req.sent, k + 1)' = OnesUpTo(req'.sent, k' + 1)
      BY <1>2 DEF Parity, OnesUpTo
    <3>6. ReadInv(bitcount - PROT_DATA)'
      <4>1. ReadInv(bitcount - PROT_DATA)' <=>
              /\ ~swwr'
              /\ k + 1 <= DataBits =>
                   /\ tgt'.ph = "data" /\ tgt'.n = k + 1 + 1 /\ tgt'.drv
                   /\ k + 1 < DataBits => tgt'.out = req'.sent[k + 1 + 1]
                   /\ k + 1 = DataBits => tgt'.out = (Parity(req'.sent) + req'.noise) % 2
                   /\ \A i \in 1 .. k + 1 : rd'[DataBits - (k + 1) + i] = req'.sent[i]
                   /\ par' = OnesUpTo(req'.sent, k + 1) % 2
              /\ k + 1 > DataBits =>
                   /\ tgt'.ph = "skip" /\ tgt'.n = req'.turnaround /\ ~tgt'.drv
                   /\ dread' = req'.sent /\ par' = req'.noise
        BY <2>1 DEF ReadInv, Heard, PROT_DATA
      <4> QED
        BY <1>2, <1>4, <2>2, <3>1, <3>2, <3>3, <3>4, <4>1
    <3>7. DataInv'
      BY <1>3, <1>5, <2>1, <3>6 DEF DataInv, PROT_DATA, PROT_PAR
    <3>8. LineInv' /\ IdleInv' /\ HeaderInv' /\ TurnInv' /\ AckInv' /\ WriteTurnInv' /\ CoolingInv'
      BY <1>2, <2>1 DEF LineInv, IdleInv, HeaderInv, TurnInv, AckInv, WriteTurnInv, CoolingInv
    <3> QED
      BY <3>7, <3>8, EdgeType DEF SwdInv
  <2>6. CASE k = DataBits
    <3>1. tgt \in Targets /\ tgt.ph = "data" /\ ~(tgt.n < DataBits) /\ ~(tgt.n = DataBits)
      BY <1>2, <1>4, <2>3, <2>6
    <3>2. Target(v) = Tgt("skip", req.turnaround, FALSE, tgt.out, tgt.took)
      BY <3>1, TargetMoves
    <3>3. tgt'.ph = "skip" /\ tgt'.n = req'.turnaround /\ ~tgt'.drv
      BY <1>1, <1>2, <3>2 DEF Tgt
    <3>4. dread' = req'.sent
      <4>1. rd = req.sent
        BY <1>2, <1>6, <2>3, <2>6, HeardAll
      <4> QED
        BY <1>1, <1>2, <1>4, <1>5, <2>6, <4>1
    <3>5. par' = req'.noise
      <4>1. Parity(req.sent) \in Bit /\ par = Parity(req.sent)
        <5>1. OnesUpTo(req.sent, DataBits) \in Nat
          BY <1>4, OnesFacts
        <5> QED
          BY <1>6, <2>3, <2>6, <5>1 DEF Bit
      <4>2. v = (Parity(req.sent) + req.noise) % 2
        BY <2>3, <2>4, <2>6
      <4>3. req.noise \in Bit
        BY <1>2 DEF Requests
      <4>4. \A p, n \in Bit : (p + ((p + n) % 2)) % 2 = n
        <5>1. /\ (0 + ((0 + 0) % 2)) % 2 = 0 /\ (0 + ((0 + 1) % 2)) % 2 = 1
              /\ (1 + ((1 + 0) % 2)) % 2 = 0 /\ (1 + ((1 + 1) % 2)) % 2 = 1
          OBVIOUS
        <5> QED
          BY <5>1 DEF Bit
      <4>5. par' = (Parity(req.sent) + ((Parity(req.sent) + req.noise) % 2)) % 2
        BY <1>7, <4>1, <4>2
      <4>6. par' = req.noise
        BY <4>1, <4>3, <4>4, <4>5
      <4> QED
        BY <1>2, <4>6
    <3>6. ReadInv(bitcount - PROT_DATA)'
      BY <1>4, <2>1, <2>2, <2>6, <3>3, <3>4, <3>5 DEF ReadInv, PROT_DATA
    <3>7. DataInv'
      BY <1>3, <1>5, <2>1, <3>6 DEF DataInv, PROT_DATA, PROT_PAR
    <3>8. LineInv' /\ IdleInv' /\ HeaderInv' /\ TurnInv' /\ AckInv' /\ WriteTurnInv' /\ CoolingInv'
      BY <1>2, <2>1 DEF LineInv, IdleInv, HeaderInv, TurnInv, AckInv, WriteTurnInv, CoolingInv
    <3> QED
      BY <3>7, <3>8, EdgeType DEF SwdInv
  <2> QED
    BY <1>4, <1>8, <2>5, <2>6
<1>9. CASE k = DataBits + 1
  <2>1. /\ swd_state' = "COOLING" /\ bitcount' = PROT_EOF /\ spincount' = req.turnaround
    BY <1>1, <1>4, <1>5, <1>9 DEF Step, PROT_EOF
  <2>2. /\ tgt.ph = "skip" /\ tgt.n = req.turnaround /\ tgt.drv = FALSE
        /\ dread = req.sent /\ par = req.noise
    BY <1>3, <1>4, <1>9 DEF ReadInv, SwdInv, SwdType, Targets
  <2>3. /\ ~tgt'.drv
        /\ tgt'.ph = "idle" \/ (tgt'.ph = "skip" /\ tgt'.n <= spincount')
    <3>1. CASE tgt.n > 0
      <4>1. Target(v) = Tgt("skip", tgt.n - 1, FALSE, tgt.out, tgt.took)
        BY <1>2, <2>2, <3>1, TargetMoves
      <4> QED
        BY <1>1, <1>6, <2>1, <2>2, <4>1 DEF Tgt
    <3>2. CASE ~(tgt.n > 0)
      <4>1. Target(v) = Tgt("idle", 0, FALSE, tgt.out, tgt.took)
        BY <1>2, <2>2, <3>2, TargetMoves
      <4> QED
        BY <1>1, <4>1 DEF Tgt
    <3> QED
      BY <3>1, <3>2
  <2>4. dread' = req'.sent /\ perr' = req'.noise
    BY <1>1, <1>2, <1>4, <1>5, <1>9, <2>2
  <2>5. SwdRight'
    BY <1>2, <1>3, <1>5, <2>4 DEF SwdRight, Answered
  <2>6. CoolingInv'
    BY <1>6, <2>1, <2>3, <2>5 DEF CoolingInv, PROT_EOF, PROT_PAR, PROT_DATA
  <2>7. LineInv' /\ IdleInv' /\ HeaderInv' /\ TurnInv' /\ AckInv' /\ WriteTurnInv' /\ DataInv'
    BY <1>2, <2>1 DEF LineInv, IdleInv, HeaderInv, TurnInv, AckInv, WriteTurnInv, DataInv
  <2> QED
    BY <2>6, <2>7, EdgeType DEF SwdInv
<1> QED
  BY <1>4, <1>8, <1>9

\* The data phase of a write: the target takes the word and the parity the interface has
\* formed from the line.
LEMMA WriteEdge ==
  ASSUME SwdConstants, SwdInv, RisingEdge, swd_state = "DATA", Writes
  PROVE  SwdInv'
<1> DEFINE k == bitcount - PROT_DATA
<1>1. PICK v \in Line :
        /\ v \in Bit
        /\ swd_state' = Step(v).st /\ bitcount' = Step(v).bit /\ spincount' = Step(v).spin
        /\ par' = ParNext(v) /\ tgt' = Target(v)
        /\ ack' = IF swd_state = "ACK" /\ bitcount = PROT_ACK_END THEN AckOf(v) ELSE ack
  BY EdgeFacts
<1>2. /\ req \in Requests /\ req' = req /\ tgt \in Targets /\ tgt.took \in Seq(Bit)
      /\ Answered' = Answered /\ ~rising'
  BY EdgeFacts DEF Targets
<1>3. /\ bitcount \in PROT_DATA .. PROT_PAR /\ bitcount \in Nat
      /\ ack = Answered /\ WriteInv(k)
      /\ ack' = Answered'
  BY <1>1, <1>2 DEF SwdInv, SwdType, DataInv
<1>4. /\ DataBits \in Nat /\ DataBits >= 2 /\ k \in 0 .. DataBits + 1 /\ bitcount = k + 13
      /\ PROT_PAR = DataBits + 14 /\ IdleCycles \in Nat
  BY <1>3 DEF PROT_PAR, PROT_DATA, SwdConstants
<1>5. /\ Writes' /\ ~Reads' /\ ~Refused' /\ Answered' # WAIT
      /\ Answered = OK /\ req.rnw = 0
  BY <1>2 DEF Reads, Writes, Refused, OK, WAIT
<1>6. /\ req.dwrite \in Word /\ req.dwrite \in Seq(Bit) /\ Len(req.dwrite) = DataBits
      /\ Parity(req.dwrite) = OnesUpTo(req.dwrite, DataBits) % 2
      /\ \A i \in 1 .. DataBits : req.dwrite[i] \in Bit
  BY <1>2, RequestFacts, BitFacts
<1>7. par' = (par + v) % 2
  BY <1>1 DEF ParNext
<1>8. v = FrameBit
  BY <1>1, <1>4, <1>5 DEF SwdInv, LineInv, RisingEdge, Line, PROT_TRN2
<1>9. Parity(req.dwrite)' = Parity(req.dwrite)
  BY <1>2 DEF Parity
<1> HIDE DEF k
<1>10. CASE k <= DataBits
  <2>1. /\ swd_state' = "DATA" /\ bitcount' = bitcount + 1
        /\ bitcount' - PROT_DATA = k + 1 /\ bitcount' \in PROT_DATA .. PROT_PAR
    BY <1>1, <1>4, <1>10 DEF Step, PROT_DATA
  <2>2. /\ tgt.ph = "rx" /\ tgt.n = k
        /\ Took(req.dwrite, k) /\ par = OnesUpTo(req.dwrite, k) % 2
    BY <1>3, <1>10 DEF WriteInv
  <2>3. tgt.drv = FALSE
    BY <1>3 DEF WriteInv, SwdInv, SwdType, Targets
  <2>4. LineInv' /\ IdleInv' /\ HeaderInv' /\ TurnInv' /\ AckInv' /\ WriteTurnInv' /\ CoolingInv'
    BY <1>2, <2>1 DEF LineInv, IdleInv, HeaderInv, TurnInv, AckInv, WriteTurnInv, CoolingInv
  <2>5. CASE k < DataBits
    <3>1. v = req.dwrite[k + 1] /\ k \in Nat /\ req.dwrite[k + 1] \in Bit
      <4>1. bitcount \in PROT_DATA .. PROT_DATA + DataBits - 1 /\ bitcount - PROT_DATA + 1 = k + 1
        BY <1>4, <2>5 DEF PROT_DATA
      <4>2. ~(bitcount < PROT_TRN1) /\ bitcount # PROT_PAR - 1
        BY <1>4, <2>5 DEF PROT_TRN1
      <4>3. FrameBit = req.dwrite[bitcount - PROT_DATA + 1]
        BY <4>1, <4>2 DEF FrameBit
      <4> QED
        BY <1>4, <1>6, <1>8, <2>5, <4>1, <4>3
    <3>2. par' = OnesUpTo(req.dwrite, k + 1) % 2
      BY <1>7, <2>2, <3>1, ParityStep
    <3>3. Target(v) = Tgt("rx", tgt.n + 1, tgt.drv, tgt.out, Append(tgt.took, v))
      <4>1. tgt \in Targets /\ tgt.ph = "rx" /\ tgt.n < DataBits
        BY <1>2, <2>2, <2>5
      <4> QED
        BY <4>1, TargetMoves
    <3>4. /\ Len(Append(tgt.took, v)) = k + 1
          /\ \A i \in 1 .. k + 1 : Append(tgt.took, v)[i] = req.dwrite[i]
      BY <1>1, <1>2, <2>2, <3>1, TookStep
    <3>5. /\ tgt'.ph = "rx" /\ tgt'.n = k + 1 /\ ~tgt'.drv
          /\ Len(tgt'.took) = k + 1 /\ \A i \in 1 .. k + 1 : tgt'.took[i] = req.dwrite[i]
      BY <1>1, <2>2, <2>3, <3>3, <3>4 DEF Tgt
    <3>6. WriteInv(bitcount - PROT_DATA)'
      <4>1. WriteInv(bitcount - PROT_DATA)' <=>
              /\ ~tgt'.drv
              /\ k + 1 <= DataBits =>
                   /\ tgt'.ph = "rx" /\ tgt'.n = k + 1
                   /\ Len(tgt'.took) = k + 1
                   /\ \A i \in 1 .. k + 1 : tgt'.took[i] = req'.dwrite[i]
                   /\ par' = OnesUpTo(req'.dwrite, k + 1) % 2
              /\ k + 1 > DataBits =>
                   tgt'.ph = "idle" /\ tgt'.took = Append(req'.dwrite, Parity(req'.dwrite))
        BY <2>1 DEF WriteInv, Took, PROT_DATA
      <4> QED
        BY <1>2, <1>4, <2>5, <3>2, <3>5, <4>1
    <3>7. DataInv'
      BY <1>3, <1>5, <2>1, <3>6 DEF DataInv, PROT_DATA, PROT_PAR
    <3> QED
      BY <2>4, <3>7, EdgeType DEF SwdInv
  <2>6. CASE k = DataBits
    <3>1. v = Parity(req.dwrite)
      <4>1. bitcount \notin PROT_DATA .. PROT_DATA + DataBits - 1
        BY <1>4, <2>6 DEF PROT_DATA
      <4>2. ~(bitcount < PROT_TRN1) /\ bitcount = PROT_PAR - 1
        BY <1>4, <2>6 DEF PROT_TRN1
      <4>3. FrameBit = par
        BY <4>1, <4>2 DEF FrameBit
      <4> QED
        BY <1>6, <1>8, <2>2, <2>6, <4>3
    <3>2. tgt.took = req.dwrite
      BY <1>2, <1>6, <2>2, <2>6, SeqEqual DEF Took
    <3>3. Target(v) = Tgt("idle", 0, FALSE, tgt.out, Append(tgt.took, v))
      <4>1. tgt \in Targets /\ tgt.ph = "rx" /\ ~(tgt.n < DataBits)
        BY <1>2, <1>4, <2>2, <2>6
      <4> QED
        BY <4>1, TargetMoves
    <3>4. /\ tgt'.ph = "idle" /\ ~tgt'.drv
          /\ tgt'.took = Append(req.dwrite, Parity(req.dwrite))
      BY <1>1, <3>1, <3>2, <3>3 DEF Tgt
    <3>5. WriteInv(bitcount - PROT_DATA)'
      BY <1>2, <1>4, <1>9, <2>1, <2>6, <3>4 DEF WriteInv, PROT_DATA
    <3>6. DataInv'
      BY <1>3, <1>5, <2>1, <3>5 DEF DataInv, PROT_DATA, PROT_PAR
    <3> QED
      BY <2>4, <3>6, EdgeType DEF SwdInv
  <2> QED
    BY <1>4, <1>10, <2>5, <2>6
<1>11. CASE k = DataBits + 1
  <2>1. /\ swd_state' = "COOLING" /\ bitcount' = PROT_EOF /\ spincount' = IdleCycles
    BY <1>1, <1>4, <1>5, <1>11 DEF Step, PROT_EOF
  <2>2. tgt.ph = "idle" /\ tgt.took = Append(req.dwrite, Parity(req.dwrite)) /\ ~tgt.drv
    BY <1>3, <1>4, <1>11 DEF WriteInv
  <2>3. v = 0
    <3>1. bitcount \notin PROT_DATA .. PROT_DATA + DataBits - 1
      BY <1>4, <1>11 DEF PROT_DATA
    <3>2. ~(bitcount < PROT_TRN1) /\ bitcount # PROT_PAR - 1
      BY <1>4, <1>11 DEF PROT_TRN1
    <3>3. FrameBit = 0
      BY <3>1, <3>2 DEF FrameBit
    <3> QED
      BY <1>8, <3>3
  <2>4. tgt' = tgt
    <3>1. tgt \in Targets /\ tgt.ph = "idle" /\ v # 1
      BY <1>2, <2>2, <2>3
    <3>2. Target(v) = tgt
      BY <3>1, TargetMoves
    <3> QED
      BY <1>1, <3>2
  <2>5. SwdRight'
    <3>1. ack' = req'.answer[1] /\ req'.rnw = 0
      BY <1>2, <1>3, <1>5 DEF Answered
    <3>2. tgt'.took = Append(req'.dwrite, Parity(req.dwrite)')
      BY <1>2, <1>9, <2>2, <2>4
    <3> QED
      BY <3>1, <3>2 DEF SwdRight
  <2>6. CoolingInv'
    BY <1>4, <2>1, <2>2, <2>4, <2>5 DEF CoolingInv, PROT_EOF, PROT_PAR, PROT_DATA
  <2>7. LineInv' /\ IdleInv' /\ HeaderInv' /\ TurnInv' /\ AckInv' /\ WriteTurnInv' /\ DataInv'
    BY <1>2, <2>1 DEF LineInv, IdleInv, HeaderInv, TurnInv, AckInv, WriteTurnInv, DataInv
  <2> QED
    BY <2>6, <2>7, EdgeType DEF SwdInv
<1> QED
  BY <1>4, <1>10, <1>11

\* The data phase after a refusal: the target waits it out.
LEMMA RefusedEdge ==
  ASSUME SwdConstants, CoolingCovers, SwdInv, RisingEdge, swd_state = "DATA", Refused
  PROVE  SwdInv'
<1> DEFINE k == bitcount - PROT_DATA
<1>1. PICK v \in Line :
        /\ swd_state' = Step(v).st /\ bitcount' = Step(v).bit /\ spincount' = Step(v).spin
        /\ tgt' = Target(v)
        /\ ack' = IF swd_state = "ACK" /\ bitcount = PROT_ACK_END THEN AckOf(v) ELSE ack
  BY EdgeFacts
<1>2. /\ req \in Requests /\ req' = req /\ tgt \in Targets
      /\ Answered' = Answered /\ ~rising'
  BY EdgeFacts
<1>3. /\ bitcount \in PROT_DATA .. PROT_PAR /\ bitcount \in Nat
      /\ ack = Answered /\ RefusedInv(k)
      /\ ack' = Answered'
  BY <1>1, <1>2 DEF SwdInv, SwdType, DataInv
<1>4. /\ DataBits \in Nat /\ DataBits >= 2 /\ k \in 0 .. DataBits + 1 /\ bitcount = k + 13
      /\ PROT_PAR = DataBits + 14 /\ IdleCycles \in Nat
  BY <1>3 DEF PROT_PAR, PROT_DATA, SwdConstants
<1>5. /\ Refused' /\ ~Reads' /\ ~Writes' /\ Answered' # WAIT /\ Answered # OK
  BY <1>2 DEF Reads, Writes, Refused
<1>6. /\ req.turnaround \in Nat /\ req.turnaround <= IdleCycles + 1
  BY <1>2, RequestFacts DEF CoolingCovers, Refused, Answered
<1>7. tgt.ph = "skip" /\ tgt.n = req.turnaround + DataBits + 1 - k
  BY <1>3 DEF RefusedInv
<1> HIDE DEF k
<1>8. CASE k <= DataBits
  <2>1. /\ swd_state' = "DATA" /\ bitcount' = bitcount + 1
        /\ bitcount' - PROT_DATA = k + 1 /\ bitcount' \in PROT_DATA .. PROT_PAR
    BY <1>1, <1>4, <1>8 DEF Step, PROT_DATA
  <2>2. tgt.n > 0 /\ tgt.n - 1 = req.turnaround + DataBits + 1 - (k + 1)
    BY <1>4, <1>6, <1>7, <1>8
  <2>3. Target(v) = Tgt("skip", tgt.n - 1, FALSE, tgt.out, tgt.took)
    BY <1>2, <1>7, <2>2, TargetMoves
  <2>4. /\ tgt'.ph = "skip" /\ tgt'.n = req'.turnaround + DataBits + 1 - (k + 1)
        /\ ~tgt'.drv
    BY <1>1, <1>2, <2>2, <2>3 DEF Tgt
  <2>5. RefusedInv(bitcount - PROT_DATA)'
    BY <2>1, <2>4 DEF RefusedInv, PROT_DATA
  <2>6. DataInv'
    BY <1>3, <1>5, <2>1, <2>5 DEF DataInv, PROT_DATA, PROT_PAR
  <2>7. LineInv' /\ IdleInv' /\ HeaderInv' /\ TurnInv' /\ AckInv' /\ WriteTurnInv' /\ CoolingInv'
    BY <1>2, <2>1 DEF LineInv, IdleInv, HeaderInv, TurnInv, AckInv, WriteTurnInv, CoolingInv
  <2> QED
    BY <2>6, <2>7, EdgeType DEF SwdInv
<1>9. CASE k = DataBits + 1
  <2>1. /\ swd_state' = "COOLING" /\ bitcount' = PROT_EOF
        /\ spincount' = IF req.rnw = 1 THEN req.turnaround ELSE IdleCycles
    BY <1>1, <1>4, <1>9 DEF Step, PROT_EOF
  <2>2. tgt.n = req.turnaround
    BY <1>4, <1>6, <1>7, <1>9
  <2>3. /\ ~tgt'.drv
        /\ tgt'.ph = "idle" \/ (tgt'.ph = "skip" /\ tgt'.n <= spincount')
    <3>1. CASE tgt.n > 0
      <4>1. Target(v) = Tgt("skip", tgt.n - 1, FALSE, tgt.out, tgt.took)
        BY <1>2, <1>7, <3>1, TargetMoves
      <4>2. req.turnaround - 1 <= spincount'
        BY <1>4, <1>6, <2>1
      <4> QED
        BY <1>1, <2>2, <4>1, <4>2 DEF Tgt
    <3>2. CASE ~(tgt.n > 0)
      <4>1. Target(v) = Tgt("idle", 0, FALSE, tgt.out, tgt.took)
        BY <1>2, <1>7, <3>2, TargetMoves
      <4> QED
        BY <1>1, <4>1 DEF Tgt
    <3> QED
      BY <3>1, <3>2
  <2>4. SwdRight'
    BY <1>2, <1>3, <1>5 DEF SwdRight, Answered
  <2>5. CoolingInv'
    BY <1>4, <1>6, <2>1, <2>3, <2>4 DEF CoolingInv, PROT_EOF, PROT_PAR, PROT_DATA
  <2>6. LineInv' /\ IdleInv' /\ HeaderInv' /\ TurnInv' /\ AckInv' /\ WriteTurnInv' /\ DataInv'
    BY <1>2, <2>1 DEF LineInv, IdleInv, HeaderInv, TurnInv, AckInv, WriteTurnInv, DataInv
  <2> QED
    BY <2>5, <2>6, EdgeType DEF SwdInv
<1> QED
  BY <1>4, <1>8, <1>9

\* The cooling: the line is low, and the target has no more clocks left than the host.
LEMMA CoolingEdge ==
  ASSUME SwdConstants, SwdInv, RisingEdge, swd_state = "COOLING"
  PROVE  SwdInv'
<1>1. PICK v \in Line :
        /\ swd_state' = Step(v).st /\ bitcount' = Step(v).bit /\ spincount' = Step(v).spin
        /\ perr' = IF swd_state = "DATA" /\ bitcount = PROT_PAR /\ req.rnw = 1
                   THEN par ELSE perr
        /\ ack' = IF swd_state = "ACK" /\ bitcount = PROT_ACK_END THEN AckOf(v) ELSE ack
        /\ dread' = IF swd_state = "DATA" /\ bitcount = PROT_PAR - 1 /\ req.rnw = 1
                    THEN rd ELSE dread
        /\ tgt' = Target(v)
  BY EdgeFacts
<1>2. /\ req' = req /\ tgt \in Targets /\ ~rising'
      /\ bitcount = PROT_EOF /\ PROT_EOF = DataBits + 15 /\ DataBits \in Nat
      /\ spincount \in Nat /\ tgt.n \in Nat
      /\ tgt.ph = "idle" \/ (tgt.ph = "skip" /\ tgt.n <= spincount)
  BY EdgeFacts
     DEF SwdInv, SwdType, CoolingInv, Targets, PROT_EOF, PROT_PAR, PROT_DATA, SwdConstants
<1>3. tgt.drv = FALSE
  BY DEF SwdInv, SwdType, CoolingInv, Targets
<1>4. v = 0
  <2>1. swwr /\ swdo = FrameBit
    BY <1>2 DEF SwdInv, LineInv, RisingEdge, PROT_PAR, PROT_DATA
  <2>2. FrameBit = 0
    BY <1>2 DEF FrameBit, PROT_TRN1, PROT_PAR, PROT_DATA
  <2> QED
    BY <2>1, <2>2 DEF Line
<1>5. /\ ~tgt'.drv
      /\ tgt'.took = tgt.took
      /\ \/ tgt'.ph = "idle"
         \/ tgt'.ph = "skip" /\ tgt'.n = tgt.n - 1 /\ tgt.n > 0 /\ tgt.n <= spincount
  <2>1. CASE tgt.ph = "idle"
    <3>1. Target(v) = tgt
      <4>1. tgt \in Targets /\ v # 1
        BY <1>2, <1>4
      <4> QED
        BY <2>1, <4>1, TargetMoves
    <3> QED
      BY <1>1, <1>3, <2>1, <3>1
  <2>2. CASE tgt.ph = "skip" /\ tgt.n > 0
    <3>1. Target(v) = Tgt("skip", tgt.n - 1, FALSE, tgt.out, tgt.took)
      BY <1>2, <2>2, TargetMoves
    <3> QED
      BY <1>1, <1>2, <2>2, <3>1 DEF Tgt
  <2>3. CASE tgt.ph = "skip" /\ ~(tgt.n > 0)
    <3>1. Target(v) = Tgt("idle", 0, FALSE, tgt.out, tgt.took)
      BY <1>2, <2>3, TargetMoves
    <3> QED
      BY <1>1, <3>1 DEF Tgt
  <2> QED
    BY <1>2, <2>1, <2>2, <2>3
<1>6. CASE spincount > 0
  <2>1. swd_state' = "COOLING" /\ bitcount' = PROT_EOF /\ spincount' = spincount - 1
    BY <1>1, <1>2, <1>6 DEF Step
  <2>2. SwdRight'
    <3>1. SwdRight
      BY DEF SwdInv, CoolingInv
    <3>2. ack' = ack /\ dread' = dread /\ perr' = perr
      BY <1>1
    <3>3. Parity(req.dwrite)' = Parity(req.dwrite)
      BY <1>2 DEF Parity
    <3> QED
      BY <1>2, <1>5, <3>1, <3>2, <3>3 DEF SwdRight
  <2>3. CoolingInv'
    <3>1. spincount' \in Nat /\ (tgt'.ph = "idle" \/ (tgt'.ph = "skip" /\ tgt'.n <= spincount'))
      BY <1>2, <1>5, <1>6, <2>1
    <3> QED
      BY <1>5, <2>1, <2>2, <3>1 DEF CoolingInv, PROT_EOF, PROT_PAR, PROT_DATA
  <2>4. LineInv' /\ IdleInv' /\ HeaderInv' /\ TurnInv' /\ AckInv' /\ WriteTurnInv' /\ DataInv'
    BY <1>2, <2>1 DEF LineInv, IdleInv, HeaderInv, TurnInv, AckInv, WriteTurnInv, DataInv
  <2> QED
    BY <2>3, <2>4, EdgeType DEF SwdInv
<1>7. CASE spincount = 0
  <2>1. swd_state' = "IDLE" /\ bitcount' = 0
    BY <1>1, <1>7 DEF Step
  <2>2. tgt'.ph = "idle"
    BY <1>2, <1>5, <1>7
  <2>3. IdleInv'
    BY <1>5, <2>1, <2>2 DEF IdleInv
  <2>4. LineInv' /\ HeaderInv' /\ TurnInv' /\ AckInv' /\ WriteTurnInv' /\ DataInv' /\ CoolingInv'
    BY <2>1 DEF LineInv, HeaderInv, TurnInv, AckInv, WriteTurnInv, DataInv, CoolingInv
  <2> QED
    BY <2>3, <2>4, EdgeType DEF SwdInv
<1> QED
  BY <1>2, <1>6, <1>7

-----------------------------------------------------------------------------
\* A falling edge brings the next bit of the frame out and lets the line go where the
\* other side is to drive it.
LEMMA FallingKeeps ==
  ASSUME SwdConstants, SwdInv, FallingEdge
  PROVE  SwdInv'
<1>1. /\ swd_state' = swd_state /\ spincount' = spincount /\ bitcount' = bitcount
      /\ par' = par /\ rd' = rd /\ ack' = ack /\ dread' = dread /\ perr' = perr
      /\ swdGo' = swdGo /\ req' = req /\ tgt' = tgt
  BY DEF FallingEdge
<1>2. rising' = TRUE /\ swdo' = FrameBit /\ swwr' = Driving /\ ~rising
  BY DEF FallingEdge
<1>3. /\ Header' = Header /\ Answered' = Answered /\ FrameBit' = FrameBit
      /\ Parity(req.sent)' = Parity(req.sent) /\ Parity(req.dwrite)' = Parity(req.dwrite)
      /\ Reads' = Reads /\ Writes' = Writes /\ Refused' = Refused
  BY <1>1 DEF Header, Answered, FrameBit, Parity, Reads, Writes, Refused
<1>4. bitcount \in Nat /\ DataBits \in Nat
  BY DEF SwdInv, SwdType, SwdConstants
<1>5. SwdType'
  <2>1. FrameBit \in Bit
    BY FrameBits DEF SwdInv, SwdType
  <2>2. Driving \in BOOLEAN
    BY DEF Driving
  <2>3. SwdType
    BY DEF SwdInv
  <2> QED
    BY <1>1, <1>2, <2>1, <2>2, <2>3 DEF SwdType
<1>6. LineInv'
  BY <1>1, <1>2, <1>3 DEF LineInv, Driving
<1>7. IdleInv' /\ HeaderInv' /\ TurnInv' /\ WriteTurnInv'
  <2>1. IdleInv' /\ TurnInv'
    BY <1>1 DEF SwdInv, IdleInv, TurnInv
  <2>2. WriteTurnInv'
    BY <1>1, <1>3 DEF SwdInv, WriteTurnInv
  <2>3. HeaderInv'
    BY <1>1, <1>3 DEF SwdInv, HeaderInv, Took
  <2> QED
    BY <2>1, <2>2, <2>3
<1>8. AckInv'
  <2>1. SUFFICES ASSUME swd_state = "ACK" PROVE AckInv'
    BY <1>1 DEF AckInv
  <2>2. bitcount \in PROT_ACK .. PROT_ACK_END
    BY <2>1 DEF SwdInv, AckInv
  <2>3. ~swwr'
    BY <1>2, <1>4, <2>2
       DEF Driving, PROT_ACK, PROT_ACK_END, PROT_TRN1, PROT_TRN2, PROT_PAR, PROT_DATA
  <2> QED
    BY <1>1, <1>3, <2>3 DEF SwdInv, AckInv, Heard
<1>9. DataInv'
  <2>1. SUFFICES ASSUME swd_state = "DATA" PROVE DataInv'
    BY <1>1 DEF DataInv
  <2> DEFINE k == bitcount - PROT_DATA
  <2>2. /\ bitcount \in PROT_DATA .. PROT_PAR
        /\ ack = Answered /\ Answered # WAIT
        /\ Reads => ReadInv(k)
        /\ Writes => WriteInv(k)
        /\ Refused => RefusedInv(k)
    BY <2>1 DEF SwdInv, DataInv
  <2>3. Reads => ReadInv(k)'
    <3>1. Reads => ~swwr'
      BY <1>2, <1>4, <2>2 DEF Driving, Reads, PROT_TRN1, PROT_TRN2, PROT_PAR, PROT_DATA
    <3> QED
      BY <1>1, <1>3, <2>2, <3>1 DEF ReadInv, Heard, OnesUpTo
  <2>4. Writes => WriteInv(k)'
    BY <1>1, <1>3, <2>2 DEF WriteInv, Took, OnesUpTo
  <2>5. Refused => RefusedInv(k)'
    BY <1>1, <2>2 DEF RefusedInv
  <2>6. k' = k
    BY <1>1
  <2> QED
    BY <1>1, <1>3, <2>2, <2>3, <2>4, <2>5 DEF DataInv
<1>10. CoolingInv'
  BY <1>1, <1>3 DEF SwdInv, CoolingInv, SwdRight, Answered
<1> QED
  BY <1>5, <1>6, <1>7, <1>8, <1>9, <1>10 DEF SwdInv

\* A request finds the interface idle, and the idle interface holds nothing of it.
LEMMA RequestKeeps ==
  ASSUME SwdConstants, SwdInv, Request
  PROVE  SwdInv'
<1>1. /\ swd_state = "IDLE" /\ swd_state' = swd_state /\ spincount' = spincount
      /\ bitcount' = bitcount /\ par' = par /\ rd' = rd /\ ack' = ack /\ dread' = dread
      /\ perr' = perr /\ swdo' = swdo /\ swwr' = swwr /\ rising' = rising /\ tgt' = tgt
      /\ swdGo' = TRUE /\ req' \in Requests
  BY DEF Request, engineVars
<1>2. SwdType'
  <2>1. SwdType /\ Requests' = Requests /\ Targets' = Targets
    BY DEF SwdInv, Requests, Targets
  <2> QED
    BY <1>1, <2>1 DEF SwdType
<1>3. IdleInv'
  BY <1>1 DEF SwdInv, IdleInv
<1>4. LineInv' /\ HeaderInv' /\ TurnInv' /\ AckInv' /\ WriteTurnInv' /\ DataInv' /\ CoolingInv'
  BY <1>1 DEF LineInv, HeaderInv, TurnInv, AckInv, WriteTurnInv, DataInv, CoolingInv
<1> QED
  BY <1>2, <1>3, <1>4 DEF SwdInv

\* Nothing changes while another part moves.
LEMMA StutterKeeps ==
  ASSUME SwdInv, UNCHANGED swdVars
  PROVE  SwdInv'
<1>1. /\ swd_state' = swd_state /\ spincount' = spincount /\ bitcount' = bitcount
      /\ par' = par /\ rd' = rd /\ ack' = ack /\ dread' = dread /\ perr' = perr
      /\ swdo' = swdo /\ swwr' = swwr /\ rising' = rising
      /\ swdGo' = swdGo /\ req' = req /\ tgt' = tgt
  BY DEF swdVars, engineVars
<1>2. /\ Header' = Header /\ Answered' = Answered /\ FrameBit' = FrameBit
      /\ Reads' = Reads /\ Writes' = Writes /\ Refused' = Refused
  BY <1>1 DEF Header, Answered, FrameBit, Reads, Writes, Refused
<1>3. SwdType' /\ LineInv' /\ IdleInv' /\ TurnInv' /\ WriteTurnInv'
  BY <1>1, <1>2 DEF SwdInv, SwdType, LineInv, IdleInv, TurnInv, WriteTurnInv
<1>4. HeaderInv' /\ AckInv'
  BY <1>1, <1>2 DEF SwdInv, HeaderInv, AckInv, Took, Heard
<1>5. DataInv'
  BY <1>1, <1>2 DEF SwdInv, DataInv, ReadInv, WriteInv, RefusedInv, Took, Heard, OnesUpTo, Parity
<1>6. CoolingInv'
  BY <1>1, <1>2 DEF SwdInv, CoolingInv, SwdRight, Answered, Parity
<1> QED
  BY <1>3, <1>4, <1>5, <1>6 DEF SwdInv

\* The invariant holds at first.
LEMMA InitInv ==
  ASSUME SwdConstants, SwdInit
  PROVE  SwdInv
<1>1. Zeros \in Word
  BY DEF Zeros, Word, Bit
<1>2. tgt \in Targets
  <2>1. tgt = Tgt("idle", 0, FALSE, 0, << >>) /\ << >> \in Seq(Bit)
    BY DEF SwdInit, Tgt
  <2> QED
    BY <2>1 DEF Tgt, Targets, Bit
<1>3. SwdType
  <2>1. /\ swd_state = "IDLE" /\ spincount = 0 /\ bitcount = 0 /\ par = 0 /\ perr = 0
        /\ rd = Zeros /\ dread = Zeros /\ ack = OK /\ swdo = 0 /\ swwr = FALSE
        /\ rising = TRUE /\ swdGo = FALSE
    BY DEF SwdInit
  <2>2. OK \in Bit \X Bit \X Bit
    BY DEF OK, Bit
  <2>3. swd_state \in {"IDLE", "HDR_TX", "TRN1", "ACK", "TRN2", "DATA", "COOLING"}
    BY <2>1
  <2>4. spincount \in Int /\ bitcount \in Nat /\ par \in Bit /\ perr \in Bit /\ swdo \in Bit
    BY <2>1 DEF Bit
  <2>5. swwr \in BOOLEAN /\ rising \in BOOLEAN /\ swdGo \in BOOLEAN
    BY <2>1
  <2>6. (swdGo \/ swd_state # "IDLE") = FALSE
    BY <2>1
  <2>7. rd \in Word /\ dread \in Word /\ ack \in Bit \X Bit \X Bit
    BY <1>1, <2>1, <2>2
  <2> QED
    BY <1>2, <2>3, <2>4, <2>5, <2>6, <2>7 DEF SwdType
<1>4. IdleInv
  BY DEF SwdInit, IdleInv
<1>5. LineInv /\ HeaderInv /\ TurnInv /\ AckInv /\ WriteTurnInv /\ DataInv /\ CoolingInv
  BY DEF SwdInit, LineInv, HeaderInv, TurnInv, AckInv, WriteTurnInv, DataInv, CoolingInv
<1> QED
  BY <1>3, <1>4, <1>5 DEF SwdInv

\* The rising edges of the data phase: a read, a write and an answer without data.
LEMMA DataEdge ==
  ASSUME SwdConstants, CoolingCovers, SwdInv, RisingEdge, swd_state = "DATA"
  PROVE  SwdInv'
<1>1. req \in Requests /\ Answered # WAIT
  BY DEF SwdInv, SwdType, DataInv
<1>2. req.rnw = 0 \/ req.rnw = 1
  BY <1>1, RequestFacts DEF Bit
<1>3. Reads \/ Writes \/ Refused
  BY <1>1, <1>2 DEF Reads, Writes, Refused
<1> QED
  BY <1>3, ReadEdge, WriteEdge, RefusedEdge

\* Every step keeps the invariant.
LEMMA NextKeeps ==
  ASSUME SwdConstants, CoolingCovers, SwdInv, [SwdNext]_swdVars
  PROVE  SwdInv'
<1>1. CASE Request
  BY <1>1, RequestKeeps
<1>2. CASE RisingEdge
  <2>1. swd_state \in {"IDLE", "HDR_TX", "TRN1", "ACK", "TRN2", "DATA", "COOLING"}
    BY DEF SwdInv, SwdType
  <2> QED
    BY <1>2, <2>1, IdleEdge, HeaderEdge, TurnEdge, AckEdge, WriteTurnEdge, DataEdge, CoolingEdge
<1>3. CASE FallingEdge
  BY <1>3, FallingKeeps
<1>4. CASE UNCHANGED swdVars
  BY <1>4, StutterKeeps
<1> QED
  BY <1>1, <1>2, <1>3, <1>4 DEF SwdNext

-----------------------------------------------------------------------------
\* The host and the target go through a transfer together: in every state of swdIF.v the
\* target is in the phase that state expects, with as many clocks left in it, and the bits
\* so far are where both need them.
THEOREM SwdInvHolds ==
  ASSUME SwdConstants, CoolingCovers
  PROVE  SwdSpec => []SwdInv
<1>1. SwdInit => SwdInv
  BY InitInv
<1>2. SwdInv /\ [SwdNext]_swdVars => SwdInv'
  BY NextKeeps
<1> QED
  BY <1>1, <1>2, PTL DEF SwdSpec

\* When the link cools down, the answer, the word read with its parity error, and the word
\* written are those of the target (swdIF.v:144-230).
THEOREM TransferToldRight ==
  ASSUME SwdConstants, CoolingCovers
  PROVE  SwdSpec => []SwdRight
<1>1. SwdInv => SwdRight
  BY DEF SwdInv, CoolingInv, SwdRight
<1> QED
  BY <1>1, SwdInvHolds, PTL

\* Host and target never drive the one line against each other, and when the interface is
\* idle the target waits for a header (swwr, swdIF.v:98-106, and the cooling, :222-230).
THEOREM OneDrivesTheWire ==
  ASSUME SwdConstants, CoolingCovers
  PROVE  SwdSpec => []WireKept
<1>1. SwdInv => WireKept
  <2>1. SUFFICES ASSUME SwdInv PROVE WireKept
    OBVIOUS
  <2>2. InStep
    BY <2>1 DEF SwdInv, IdleInv, InStep
  <2>3. CASE swd_state = "ACK"
    BY <2>1, <2>2, <2>3 DEF SwdInv, AckInv, WireKept, NoContention
  <2>4. CASE swd_state = "DATA"
    <3>1. req \in Requests /\ Answered # WAIT
      BY <2>1, <2>4 DEF SwdInv, SwdType, DataInv
    <3>2. req.rnw = 0 \/ req.rnw = 1
      BY <3>1, RequestFacts DEF Bit
    <3>3. CASE Reads
      BY <2>1, <2>2, <2>4, <3>3 DEF SwdInv, DataInv, ReadInv, WireKept, NoContention
    <3>4. CASE Writes
      BY <2>1, <2>2, <2>4, <3>4 DEF SwdInv, DataInv, WriteInv, WireKept, NoContention
    <3>5. CASE Refused
      BY <2>1, <2>2, <2>4, <3>5 DEF SwdInv, DataInv, RefusedInv, WireKept, NoContention
    <3> QED
      BY <3>1, <3>2, <3>3, <3>4, <3>5 DEF Reads, Writes, Refused
  <2>5. CASE swd_state \in {"IDLE", "HDR_TX", "TRN1", "TRN2", "COOLING"}
    <3>1. ~tgt.drv
      BY <2>1, <2>5 DEF SwdInv, IdleInv, HeaderInv, TurnInv, WriteTurnInv, CoolingInv
    <3> QED
      BY <2>2, <3>1 DEF WireKept, NoContention
  <2> QED
    BY <2>1, <2>3, <2>4, <2>5 DEF SwdInv, SwdType
<1> QED
  BY <1>1, SwdInvHolds, PTL

-----------------------------------------------------------------------------
\* Bits of the registers before a device, and behind the last one.
Offsets(L, N) == Recursion(N, Nat, 0, [n \in 1 .. N |-> [t \in Nat |-> t + L[n - 1]]])

\* The registers after n bits: shown is what they held, sent what came after it.
After(bits, L, N, n, shown, sent) ==
  \A d \in 0 .. N, e \in 0 .. N : \A i \in 1 .. L[d], j \in 1 .. L[e] :
    LET off == Offsets(L, N + 1)
    IN  /\ off[e] + j = off[d] + i + n => bits[d][i] = shown[e][j]
        /\ off[N + 1] + off[e] + j = off[d] + i + n => bits[d][i] = sent[e][j]

\* Every register has a bit at least.
Lengths(L, N) == \A n \in 0 .. N : L[n] \in Nat /\ L[n] >= 1

\* Every bit has gone one place on.
Passed(bits, new, L, N, bit) ==
  \A d \in 0 .. N : \A i \in 1 .. L[d] :
    new[d][i] = IF i < L[d] THEN bits[d][i + 1] ELSE IF d = N THEN bit ELSE bits[d + 1][1]

\* Every register of the chain holds this.
Holding(bits, L, N, what) == \A d \in 0 .. N : \A i \in 1 .. L[d] : bits[d][i] = what[d][i]

\* A register begins where the one before it ends.
LEMMA OffsetsAre ==
  ASSUME NEW N \in Nat, NEW L, Lengths(L, N)
  PROVE  /\ \A n \in 0 .. N + 1 : Offsets(L, N + 1)[n] \in Nat
         /\ Offsets(L, N + 1)[0] = 0
         /\ \A n \in 0 .. N : Offsets(L, N + 1)[n + 1] = Offsets(L, N + 1)[n] + L[n]
<1> DEFINE M == N + 1
           T == Nat
           zero == 0
           next == [n \in 1 .. M |-> [t \in T |-> t + L[n - 1]]]
           off == Recursion(M, T, zero, next)
<1>1. M \in Nat /\ zero \in T /\ next \in [1 .. M -> [T -> T]]
  <2>1. ASSUME NEW n \in 1 .. M, NEW t \in Nat PROVE t + L[n - 1] \in Nat
    <3>1. L[n - 1] \in Nat
      BY DEF Lengths
    <3> QED
      BY <3>1
  <2> QED
    BY <2>1
<1>2. \A n \in 1 .. M, t \in Nat : next[n][t] = t + L[n - 1]
  OBVIOUS
<1>3. off = Offsets(L, M)
  BY DEF Offsets
<1>4. off \in [0 .. M -> T] /\ off[0] = zero /\ \A n \in 1 .. M : off[n] = next[n][off[n - 1]]
  <2> HIDE DEF M, T, zero, next
  <2> QED
    BY <1>1, RecursionIs
<1> HIDE DEF off, next
<1>5. ASSUME NEW n \in 0 .. N PROVE off[n + 1] = off[n] + L[n]
  <2>1. n + 1 \in 1 .. M /\ (n + 1) - 1 = n /\ off[n] \in Nat
    BY <1>4
  <2> QED
    BY <1>2, <1>4, <2>1
<1> QED
  BY <1>3, <1>4, <1>5

\* A register lies before the next one.
LEMMA OffsetsGrow ==
  ASSUME NEW N \in Nat, NEW L, Lengths(L, N), NEW e \in 0 .. N, NEW c \in 0 .. N + 1, e < c
  PROVE  Offsets(L, N + 1)[e] + L[e] <= Offsets(L, N + 1)[c]
<1> DEFINE off == Offsets(L, N + 1)
           S == {k \in Nat : e < k /\ k <= N + 1 => off[e] + L[e] <= off[k]}
<1>1. /\ \A n \in 0 .. N + 1 : off[n] \in Nat
      /\ \A n \in 0 .. N : L[n] \in Nat /\ off[n + 1] = off[n] + L[n]
  BY OffsetsAre DEF Lengths
<1> HIDE DEF off
<1>2. 0 \in S
  BY <1>1
<1>3. ASSUME NEW k \in Nat, k \in S PROVE k + 1 \in S
  <2> SUFFICES ASSUME e < k + 1, k + 1 <= N + 1 PROVE off[e] + L[e] <= off[k + 1]
    OBVIOUS
  <2>1. off[k + 1] = off[k] + L[k] /\ off[k] \in Nat /\ L[k] \in Nat /\ off[e] \in Nat /\ L[e] \in Nat
    BY <1>1
  <2>2. CASE e < k
    <3>1. off[e] + L[e] <= off[k]
      BY <1>3, <2>2
    <3> QED
      BY <2>1, <3>1
  <2>3. CASE e = k
    BY <2>1, <2>3
  <2> QED
    BY <2>2, <2>3
<1>4. Nat \subseteq S
  <2> HIDE DEF S
  <2> QED
    BY <1>2, <1>3, SetInduction
<1> QED
  BY <1>4 DEF off

\* No two bits have the same place.
LEMMA PlaceIsOne ==
  ASSUME NEW N \in Nat, NEW L, Lengths(L, N), NEW c \in 0 .. N, NEW e \in 0 .. N,
         NEW i \in 1 .. L[c], NEW j \in 1 .. L[e]
  PROVE  Offsets(L, N + 1)[c] + i = Offsets(L, N + 1)[e] + j => c = e /\ i = j
<1> DEFINE off == Offsets(L, N + 1)
<1>1. off[c] \in Nat /\ off[e] \in Nat
  BY OffsetsAre
<1>2. c < e => off[c] + L[c] <= off[e]
  BY OffsetsGrow
<1>3. e < c => off[e] + L[e] <= off[c]
  BY OffsetsGrow
<1>4. L[c] \in Nat /\ L[e] \in Nat
  BY DEF Lengths
<1> HIDE DEF off
<1>5. off[c] + i = off[e] + j => c = e /\ i = j
  BY <1>1, <1>2, <1>3, <1>4
<1> QED
  BY <1>5 DEF off

\* The registers end where the last one does.
LEMMA PlaceInside ==
  ASSUME NEW N \in Nat, NEW L, Lengths(L, N), NEW d \in 0 .. N, NEW i \in 1 .. L[d]
  PROVE  Offsets(L, N + 1)[d] + i <= Offsets(L, N + 1)[N + 1]
<1> DEFINE off == Offsets(L, N + 1)
           M == N + 1
<1>1. off[d] \in Nat /\ off[M] \in Nat
  BY OffsetsAre
<1>2. off[d] + L[d] <= off[M]
  BY OffsetsGrow
<1>3. L[d] \in Nat
  BY DEF Lengths
<1> HIDE DEF off, M
<1>4. off[d] + i <= off[M]
  BY <1>1, <1>2, <1>3
<1> QED
  BY <1>4 DEF off, M

\* Before the first bit the registers hold what they show.
LEMMA AfterCapture ==
  ASSUME NEW N \in Nat, NEW L, Lengths(L, N), NEW bits, NEW shown, NEW sent, Holding(bits, L, N, shown)
  PROVE  After(bits, L, N, 0, shown, sent)
<1> DEFINE off == Offsets(L, N + 1)
           M == N + 1
<1>1. ASSUME NEW d \in 0 .. N, NEW e \in 0 .. N, NEW i \in 1 .. L[d], NEW j \in 1 .. L[e]
      PROVE  /\ off[e] + j = off[d] + i + 0 => bits[d][i] = shown[e][j]
             /\ off[M] + off[e] + j = off[d] + i + 0 => bits[d][i] = sent[e][j]
  <2>1. off[d] \in Nat /\ off[e] \in Nat /\ off[M] \in Nat
    BY OffsetsAre
  <2>2. off[d] + i <= off[M]
    BY PlaceInside
  <2>3. off[e] + j = off[d] + i => e = d /\ j = i
    BY PlaceIsOne
  <2>4. bits[d][i] = shown[d][i]
    BY DEF Holding
  <2>5. i \in Int /\ j \in Int /\ j >= 1
    BY DEF Lengths
  <2> HIDE DEF off, M
  <2> QED
    BY <2>1, <2>2, <2>3, <2>4, <2>5
<1> QED
  BY <1>1 DEF After

\* One clock while bit t of register c goes by, n bits after the capture.
\* What is known when a bit goes by: register c, its bit t, the n-th of all.
ShiftFacts(N, L, bits, shown, sent, new, c, t, n, bit) ==
  /\ N \in Nat /\ Lengths(L, N) /\ c \in 0 .. N /\ t \in Nat /\ t < L[c]
  /\ n = Offsets(L, N + 1)[c] + t /\ bit = sent[c][t + 1]
  /\ After(bits, L, N, n, shown, sent) /\ Passed(bits, new, L, N, bit)

\* One bit more.
LEMMA AfterShift ==
  ASSUME NEW N, NEW L, NEW bits, NEW shown, NEW sent, NEW new, NEW c, NEW t, NEW n, NEW bit,
         ShiftFacts(N, L, bits, shown, sent, new, c, t, n, bit)
  PROVE  After(new, L, N, n + 1, shown, sent) /\ bits[0][1] = shown[c][t + 1]
<1> DEFINE off == Offsets(L, N + 1)
           M == N + 1
<1>0. /\ N \in Nat /\ Lengths(L, N) /\ c \in 0 .. N /\ t \in Nat /\ t < L[c] /\ n = off[c] + t
      /\ After(bits, L, N, n, shown, sent) /\ Passed(bits, new, L, N, sent[c][t + 1])
  BY DEF ShiftFacts
<1> USE <1>0
<1>1. /\ \A m \in 0 .. M : off[m] \in Nat
      /\ off[0] = 0 /\ \A m \in 0 .. N : L[m] \in Nat /\ L[m] >= 1 /\ off[m + 1] = off[m] + L[m]
  BY OffsetsAre DEF Lengths
<1>2. n \in Nat /\ t + 1 \in 1 .. L[c] /\ n + 1 = off[c] + (t + 1)
  <2>1. off[c] \in Nat /\ L[c] \in Nat
    BY <1>1
  <2> HIDE DEF off
  <2> QED
    BY <2>1
<1>3. \A d \in 0 .. N, e \in 0 .. N : \A i \in 1 .. L[d], j \in 1 .. L[e] :
        /\ off[e] + j = off[d] + i + n => bits[d][i] = shown[e][j]
        /\ off[M] + off[e] + j = off[d] + i + n => bits[d][i] = sent[e][j]
  BY DEF After
<1>4. \A d \in 0 .. N : \A i \in 1 .. L[d] :
        new[d][i] = IF i < L[d] THEN bits[d][i + 1] ELSE IF d = N THEN sent[c][t + 1] ELSE bits[d + 1][1]
  BY DEF Passed
<1>5. \A e \in 0 .. N : \A j \in 1 .. L[e] : off[c] + (t + 1) = off[e] + j => e = c /\ j = t + 1
  BY <1>2, PlaceIsOne
<1>6. \A e \in 0 .. N : \A j \in 1 .. L[e] : off[e] + j <= off[M]
  BY PlaceInside
<1>7. M = N + 1
  OBVIOUS
<1> HIDE DEF off, M
<1>8. bits[0][1] = shown[c][t + 1]
  <2>1. off[c] + (t + 1) = off[0] + 1 + n /\ 1 \in 1 .. L[0] /\ 0 \in 0 .. N
    BY <1>1, <1>2
  <2> QED
    BY <1>2, <1>3, <2>1
<1>9. ASSUME NEW d \in 0 .. N, NEW e \in 0 .. N, NEW i \in 1 .. L[d], NEW j \in 1 .. L[e]
      PROVE  /\ off[e] + j = off[d] + i + (n + 1) => new[d][i] = shown[e][j]
             /\ off[M] + off[e] + j = off[d] + i + (n + 1) => new[d][i] = sent[e][j]
  <2>1. off[d] \in Nat /\ off[e] \in Nat /\ off[M] \in Nat /\ L[d] \in Nat /\ L[e] \in Nat
    BY <1>1, <1>7
  <2>2. CASE i < L[d]
    <3>1. i + 1 \in 1 .. L[d] /\ off[d] + i + (n + 1) = off[d] + (i + 1) + n
      BY <1>2, <2>1, <2>2
    <3>2. new[d][i] = bits[d][i + 1]
      BY <1>4, <2>2
    <3> QED
      BY <1>3, <3>1, <3>2
  <2>3. CASE i = L[d] /\ d # N
    <3>1. d + 1 \in 0 .. N /\ off[d + 1] = off[d] + i /\ L[d + 1] \in Nat /\ L[d + 1] >= 1
      BY <1>1, <2>3
    <3>2. 1 \in 1 .. L[d + 1] /\ off[d] + i + (n + 1) = off[d + 1] + 1 + n
      BY <1>2, <2>1, <3>1
    <3>3. new[d][i] = bits[d + 1][1]
      BY <1>4, <2>1, <2>3
    <3> QED
      BY <1>3, <3>1, <3>2, <3>3
  <2>4. CASE i = L[d] /\ d = N
    <3>1. off[M] = off[d] + i
      BY <1>1, <1>7, <2>4
    <3>2. off[e] + j <= off[M]
      BY <1>6
    <3>3. off[e] + j # off[d] + i + (n + 1)
      BY <1>2, <2>1, <3>1, <3>2
    <3>4. new[d][i] = sent[c][t + 1]
      BY <1>4, <2>1, <2>4
    <3>5. ASSUME off[M] + off[e] + j = off[d] + i + (n + 1) PROVE new[d][i] = sent[e][j]
      <4>1. off[c] + (t + 1) = off[e] + j
        BY <1>2, <2>1, <3>1, <3>5
      <4>2. e = c /\ j = t + 1
        BY <1>5, <4>1
      <4> QED
        BY <3>4, <4>2
    <3> QED
      BY <3>3, <3>5
  <2> QED
    BY <2>1, <2>2, <2>3, <2>4
<1>10. After(new, L, N, n + 1, shown, sent)
  BY <1>9 DEF After, off, M
<1> QED
  BY <1>8, <1>10

\* The bits of one device go by, and then those of the next; after the last one's every
\* register holds what was sent to it.
LEMMA AfterDevice ==
  ASSUME NEW N \in Nat, NEW L, Lengths(L, N), NEW bits, NEW shown, NEW sent, NEW c \in 0 .. N,
         NEW t \in Nat, t + 1 = L[c], After(bits, L, N, Offsets(L, N + 1)[c] + t + 1, shown, sent)
  PROVE  /\ c # N => After(bits, L, N, Offsets(L, N + 1)[c + 1] + 0, shown, sent)
         /\ c = N => Holding(bits, L, N, sent)
<1> DEFINE off == Offsets(L, N + 1)
           M == N + 1
<1>1. /\ \A m \in 0 .. M : off[m] \in Nat
      /\ \A m \in 0 .. N : L[m] \in Nat /\ off[m + 1] = off[m] + L[m]
  BY OffsetsAre DEF Lengths
<1>2. off[c] + t + 1 = off[c + 1] + 0
  <2>1. off[c] \in Nat /\ L[c] \in Nat /\ off[c + 1] = off[c] + L[c]
    BY <1>1
  <2> HIDE DEF off
  <2> QED
    BY <2>1
<1>3. ASSUME c = N, NEW d \in 0 .. N, NEW i \in 1 .. L[d] PROVE bits[d][i] = sent[d][i]
  <2>1. off[M] + off[d] + i = off[d] + i + (off[c + 1] + 0)
    <3>1. off[M] \in Nat /\ off[d] \in Nat /\ L[d] \in Nat /\ M = c + 1
      BY <1>1, <1>3
    <3> HIDE DEF off
    <3> QED
      BY <3>1
  <2>2. After(bits, L, N, off[c + 1] + 0, shown, sent)
    BY <1>2
  <2> QED
    BY <2>1, <2>2 DEF After
<1> QED
  BY <1>2, <1>3 DEF Holding

-----------------------------------------------------------------------------
\* A command of the layer above.
ReqOK(r) ==
  /\ r.cmd \in {"RESET", "IR", "READID", "TFR"} /\ r.dev \in Chained
  /\ r.cmd = "IR" => r.ir \in {APACC, DPACC}
  /\ r.rnw \in JtagBit /\ r.addr \in JtagBit \X JtagBit
  /\ r.answer \in {ACK_OK, ACK_WAIT} /\ r.dwrite \in JtagWord /\ r.sent \in JtagWord

\* Bits of the register that a command has between TDI and TDO of a device.
RegLen(r, d) ==
  CASE r.cmd = "IR" -> IrLen(d)
    [] r.cmd = "READID" -> JtagBits
    [] OTHER -> IF d = r.dev THEN JtagBits + 3 ELSE 1

Lens(r) == [d \in Chained |-> RegLen(r, d)]

\* What the registers of a command hold, bit by bit, and what TDI brings.
Shown(r) ==
  [d \in Chained |-> [j \in 1 .. RegLen(r, d) |->
    CASE r.cmd = "READID" -> IdOf(d)[j]
      [] r.cmd = "TFR" /\ d = r.dev -> IF j <= 3 THEN r.answer[j] ELSE r.sent[j - 3]
      [] OTHER -> 0]]

SentBits(r) ==
  [d \in Chained |-> [j \in 1 .. RegLen(r, d) |->
    CASE r.cmd = "IR" -> IF d = r.dev THEN r.ir[j] ELSE 1
      [] r.cmd = "READID" -> IF d = r.dev /\ r.rnw = 0 THEN r.dwrite[j] ELSE 0
      [] OTHER -> IF d # r.dev THEN 1
                  ELSE IF j = 1 THEN r.rnw
                  ELSE IF j <= 3 THEN r.addr[j - 1]
                  ELSE IF r.rnw = 1 THEN 1 ELSE r.dwrite[j - 3]]]

\* The states of the interface and of the TAP in which a command shifts.
ShiftState(r) == CASE r.cmd = "TFR" -> "TRANSFER" [] r.cmd = "READID" -> "IDDATA" [] OTHER -> "WRITEIR"
ShiftTap(r) == IF r.cmd = "IR" THEN "SHIFT_IR" ELSE "SHIFT_DR"

\* Where the TAP stands with which TMS bits still to take, the next one apart.
Opens(cmd) ==
  CASE cmd = "TFR" -> {<<"IDLE", 1, <<0, 0>>>>, <<"SEL_DR", 0, <<0>>>>, <<"CAP_DR", 0, << >>>>}
    [] cmd = "READID" -> {<<"IDLE", 0, <<1, 0, 0>>>>, <<"IDLE", 1, <<0, 0>>>>, <<"SEL_DR", 0, <<0>>>>,
                          <<"CAP_DR", 0, << >>>>}
    [] cmd = "IR" -> {<<"IDLE", 1, <<1, 0, 0>>>>, <<"SEL_DR", 1, <<0, 0>>>>, <<"SEL_IR", 0, <<0>>>>,
                      <<"CAP_IR", 0, << >>>>}
    [] OTHER -> {<<"IDLE", 1, <<1, 1, 1, 1, 0>>>>, <<"SEL_DR", 1, <<1, 1, 1, 0>>>>, <<"SEL_IR", 1, <<1, 1, 0>>>>,
                 <<"RESET", 1, <<1, 0>>>>, <<"RESET", 1, <<0>>>>, <<"RESET", 0, << >>>>}

\* The way back when a transfer was not taken, and the others.
Breaks == {<<"SHIFT_DR", 1, <<1, 0>>>>, <<"EXIT_DR", 1, <<0>>>>, <<"UPD_DR", 0, << >>>>}
Closes(cmd) ==
  CASE cmd = "TFR" -> {<<"EXIT_DR", 1, <<0, 0>>>>, <<"UPD_DR", 0, <<0>>>>, <<"IDLE", 0, << >>>>}
    [] cmd = "READID" -> Breaks \cup {<<"SHIFT_DR", 0, <<1, 1, 0>>>>}
    [] cmd = "IR" -> {<<"EXIT_IR", 1, <<0>>>>, <<"UPD_IR", 0, << >>>>}
    [] OTHER -> {}

\* Where the TAP stands: its state, the TMS bit it will take next, and those after it.
Where == <<tap, IF jtagRising THEN tms ELSE Head(tmsbits), IF jtagRising THEN tmsbits ELSE Tail(tmsbits)>>
On(path) == (jtagRising \/ tmsbits # << >>) /\ Where \in path

\* What a transfer reports, and what it gives the device.
TransferTold == jtagAck = jtagReq.answer /\ jtagRead = jtagReq.sent
Taken == [j \in 1 .. JtagBits + 3 |-> SentBits(jtagReq)[jtagReq.dev][j]]

\* The ranges of the registers.
JtagTypes ==
  /\ jtag_state \in {"IDLE", "TMSOUT", "TRANSFER", "IDDATA", "WRITEIR", "READID_DONE"}
  /\ jtagRising \in BOOLEAN /\ jtagGo \in BOOLEAN /\ ReqOK(jtagReq)
  /\ jtagAck = [i \in 1 .. 3 |-> jtagAck[i]] /\ jtagRead = [i \in 1 .. JtagBits |-> jtagRead[i]]
  /\ dap = [instr |-> dap.instr, took |-> dap.took] /\ dap.instr = [d \in Chained |-> dap.instr[d]]

\* What a command needs of the chain is still so.
Prepared ==
  jtagGo \/ ~idle =>
    /\ jtagReq.cmd = "TFR" => Listening(jtagReq.dev)
    /\ jtagReq.cmd = "READID" => Showing

\* Between commands.
AtRest == /\ jtagGo => idle
          /\ idle => tap = "IDLE"
          /\ idle /\ ~jtagGo => CommandRight

\* On the way to the registers.
OpeningRight ==
  jtag_state = "TMSOUT" /\ next_state # "IDLE" =>
    /\ jtagReq.cmd # "RESET" /\ next_state = ShiftState(jtagReq)
    /\ On(Opens(jtagReq.cmd)) /\ tdxcount = 0 /\ devcount = 0
    /\ tap = "CAP_DR" => dap.took = << >>
\* A reset has no registers to go to.
ResettingRight ==
  jtag_state = "TMSOUT" /\ jtagReq.cmd = "RESET" =>
    On(Opens("RESET")) /\ next_state = "IDLE" /\ (tap = "RESET" => Showing)

\* A device's bits have gone by so far, and what was told of them.
ShiftingRight ==
  jtag_state \in {"TRANSFER", "IDDATA", "WRITEIR"} =>
    /\ jtagReq.cmd # "RESET" /\ jtag_state = ShiftState(jtagReq) /\ tap = ShiftTap(jtagReq)
    /\ devcount \in Chained /\ tdxcount \in 0 .. RegLen(jtagReq, devcount) - 1
    /\ chain = [d \in Chained |-> [i \in 1 .. RegLen(jtagReq, d) |-> chain[d][i]]]
    /\ After(chain, Lens(jtagReq), ndevs, Offsets(Lens(jtagReq), ndevs + 1)[devcount] + tdxcount,
             Shown(jtagReq), SentBits(jtagReq))
    /\ jtagRising => tdi = SentBits(jtagReq)[devcount][tdxcount + 1]
    /\ IF jtagRising /\ jtagReq.cmd # "READID" /\ devcount = ndevs /\ tdxcount + 1 = RegLen(jtagReq, devcount)
       THEN tms = 1 ELSE tms = 0

\* What the interface has read so far.
Told ==
  /\ jtag_state = "TRANSFER" =>
       /\ dap.took = << >>
       /\ devcount = jtagReq.dev =>
            /\ \A i \in 1 .. 3 : i <= tdxcount => jtagAck[i] = jtagReq.answer[i]
            /\ \A i \in 1 .. JtagBits : i + 3 <= tdxcount => jtagRead[i] = jtagReq.sent[i]
            /\ tdxcount >= 3 => jtagReq.answer = ACK_OK
       /\ devcount > jtagReq.dev => TransferTold /\ jtagReq.answer = ACK_OK
  /\ jtag_state = "IDDATA" => \A i \in 1 .. JtagBits : i <= tdxcount => jtagRead[i] = IdOf(devcount)[i]
  /\ jtag_state = "READID_DONE" =>
       jtagReq.cmd = "READID" /\ ~jtagRising /\ tap = "SHIFT_DR" /\ tms = 0 /\ jtagRead = IdOf(ndevs)

\* On the way back.
ClosingRight ==
  jtag_state = "TMSOUT" /\ next_state = "IDLE" /\ jtagReq.cmd # "RESET" =>
    CASE jtagReq.cmd = "TFR" /\ jtagReq.answer = ACK_OK ->
           /\ On(Closes("TFR")) /\ TransferTold
           /\ IF tap = "EXIT_DR" THEN chain[jtagReq.dev] = Taken ELSE dap.took = Taken
      [] jtagReq.cmd = "TFR" /\ jtagReq.answer # ACK_OK ->
           On(Breaks) /\ jtagAck = jtagReq.answer /\ dap.took = << >>
      [] jtagReq.cmd = "READID" -> On(Closes("READID")) /\ jtagRead = IdOf(ndevs)
      [] OTHER ->
           /\ On(Closes("IR"))
           /\ LET instr == [d \in Chained |-> IrOf(d, IF d = jtagReq.dev THEN jtagReq.ir ELSE BYPASS)]
              IN  IF tap = "EXIT_IR" THEN chain = instr ELSE dap.instr = instr

JtagInv == JtagTypes /\ Prepared /\ AtRest /\ OpeningRight /\ ResettingRight /\ ShiftingRight /\ Told /\ ClosingRight

-----------------------------------------------------------------------------
\* The chain has a device, and its registers have lengths.
LEMMA JtagConstants ==
  /\ JtagBits \in Nat /\ JtagBits >= 1 /\ ndevs \in Nat /\ ndevs + 1 = Len(IrLens)
  /\ \A d \in Chained : IrLen(d) \in Nat /\ IrLen(d) >= 1
  /\ Sents \subseteq JtagWord
<1>1. JtagBits \in Nat /\ JtagBits >= 1 /\ Sents \subseteq JtagWord
  BY JtagAssumption
<1>2. Len(IrLens) \in Nat /\ Len(IrLens) >= 1 /\ \A i \in 1 .. Len(IrLens) : IrLens[i] \in Nat /\ IrLens[i] >= 1
  BY JtagAssumption
<1>3. ndevs \in Nat /\ ndevs + 1 = Len(IrLens)
  BY <1>2 DEF ndevs
<1>4. ASSUME NEW d \in Chained PROVE IrLen(d) \in Nat /\ IrLen(d) >= 1
  <2>1. d + 1 \in 1 .. Len(IrLens)
    BY <1>2, <1>3 DEF Chained
  <2> QED
    BY <1>2, <2>1 DEF IrLen
<1> QED
  BY <1>1, <1>3, <1>4

\* Instructions fit the registers and differ.
LEMMA InstructionsAre ==
  ASSUME NEW d \in Chained
  PROVE  /\ \A i \in {APACC, DPACC, IDCODE, BYPASS} :
              /\ IrOf(d, i) = [j \in 1 .. IrLen(d) |-> i[j]]
              /\ \A j \in 1 .. IrLen(d) : i[j] \in JtagBit
         /\ \A j \in 1 .. IrLen(d) : BYPASS[j] = 1
         /\ IrOf(d, IDCODE) \notin {IrOf(d, APACC), IrOf(d, DPACC)}
         /\ IrOf(d, BYPASS) \notin {IrOf(d, APACC), IrOf(d, DPACC), IrOf(d, IDCODE)}
<1> DEFINE Names == {"APACC", "DPACC", "IDCODE", "BYPASS"}
<1>1. /\ DOMAIN Instructions = Names /\ \A a \in Names : Instructions[a] \in Seq(JtagBit)
      /\ \A a \in Names : IrLen(d) <= Len(Instructions[a])
      /\ \A a \in Names : \A b \in Names \ {a} : IrOf(d, Instructions[a]) # IrOf(d, Instructions[b])
  BY JtagAssumption
<1>2. /\ IrOf(d, IDCODE) \notin {IrOf(d, APACC), IrOf(d, DPACC)}
      /\ IrOf(d, BYPASS) \notin {IrOf(d, APACC), IrOf(d, DPACC), IrOf(d, IDCODE)}
  BY <1>1 DEF APACC, DPACC, IDCODE, BYPASS
<1>3. IrLen(d) \in Nat
  BY JtagConstants
<1>4. ASSUME NEW a \in Names
      PROVE  /\ IrOf(d, Instructions[a]) = [j \in 1 .. IrLen(d) |-> Instructions[a][j]]
             /\ \A j \in 1 .. IrLen(d) : j \in DOMAIN Instructions[a] /\ Instructions[a][j] \in JtagBit
  <2> DEFINE i == Instructions[a]
             n == IrLen(d)
  <2>1. i \in Seq(JtagBit) /\ n \in Nat /\ n <= Len(i)
    BY <1>1, <1>3
  <2> HIDE DEF i, n
  <2>2. SubSeq(i, 1, n) = [j \in 1 .. n |-> i[j]]
    BY <2>1
  <2>3. \A j \in 1 .. n : j \in DOMAIN i /\ i[j] \in JtagBit
    BY <2>1
  <2> QED
    BY <2>2, <2>3 DEF i, n, IrOf
<1>5. \A j \in 1 .. IrLen(d) : BYPASS[j] = 1
  BY <1>4, JtagAssumption DEF BYPASS
<1> QED
  BY <1>2, <1>4, <1>5 DEF APACC, DPACC, IDCODE, BYPASS

\* The registers of a command have lengths.
LEMMA LensAre ==
  ASSUME NEW r, ReqOK(r)
  PROVE  /\ Lengths(Lens(r), ndevs) /\ ndevs \in Nat /\ Chained = 0 .. ndevs
         /\ \A d \in Chained : Lens(r)[d] = RegLen(r, d) /\ RegLen(r, d) \in Nat /\ RegLen(r, d) >= 1
<1>1. \A d \in Chained : RegLen(r, d) \in Nat /\ RegLen(r, d) >= 1
  BY JtagConstants DEF RegLen, ReqOK
<1> QED
  BY <1>1, JtagConstants DEF Lengths, Lens, Chained

\* The TMS bits as they come.
LEMMA TmsBits ==
  /\ \A a : <<a>> # << >> /\ Head(<<a>>) = a /\ Tail(<<a>>) = << >>
  /\ \A a, b : <<a, b>> # << >> /\ Head(<<a, b>>) = a /\ Tail(<<a, b>>) = <<b>>
  /\ \A a, b, c : <<a, b, c>> # << >> /\ Head(<<a, b, c>>) = a /\ Tail(<<a, b, c>>) = <<b, c>>
  /\ \A a, b, c, d : <<a, b, c, d>> # << >> /\ Head(<<a, b, c, d>>) = a /\ Tail(<<a, b, c, d>>) = <<b, c, d>>
  /\ \A a, b, c, d, e : /\ <<a, b, c, d, e>> # << >> /\ Head(<<a, b, c, d, e>>) = a
                        /\ Tail(<<a, b, c, d, e>>) = <<b, c, d, e>>
  /\ \A a, b, c, d, e, f : /\ <<a, b, c, d, e, f>> # << >> /\ Head(<<a, b, c, d, e, f>>) = a
                           /\ Tail(<<a, b, c, d, e, f>>) = <<b, c, d, e, f>>
  OBVIOUS

\* The commands the layer above asks for.
LEMMA RequestsAreOK ==
  ASSUME NEW r \in JtagRequests
  PROVE  /\ ReqOK(r)
         /\ r.cmd = "TFR" => Listening(r.dev)
         /\ r.cmd = "READID" => Showing
<1>1. 0 \in Chained
  BY JtagConstants DEF Chained
<1>2. JtagZeros \in JtagWord /\ Sents \subseteq JtagWord
  BY JtagConstants DEF JtagZeros, JtagWord, JtagBit
<1>3. ReqOK(NoReq)
  BY <1>1, <1>2 DEF NoReq, ReqOK, JtagBit
<1>4. ASSUME NEW d \in Chained, NEW i \in {APACC, DPACC}
      PROVE  ReqOK(IrRequest(d, i)) /\ IrRequest(d, i).cmd = "IR"
  <2> DEFINE q == IrRequest(d, i)
  <2>1. /\ q.cmd = "IR" /\ q.dev = d /\ q.ir = i /\ q.rnw = 0 /\ q.addr = <<0, 0>> /\ q.answer = ACK_OK
        /\ q.dwrite = JtagZeros /\ q.sent = JtagZeros
    BY DEF NoReq, IrRequest
  <2> QED
    BY <1>2, <2>1 DEF ReqOK, JtagBit
<1>5. ASSUME NEW d \in Chained
      PROVE  ReqOK(IdRequest(d)) /\ IdRequest(d).cmd = "READID"
  <2> DEFINE q == IdRequest(d)
  <2>1. /\ q.cmd = "READID" /\ q.dev = d /\ q.rnw = 0 /\ q.addr = <<0, 0>> /\ q.answer = ACK_OK
        /\ q.dwrite = JtagZeros /\ q.sent = JtagZeros
    BY DEF NoReq, IdRequest
  <2> QED
    BY <1>2, <2>1 DEF ReqOK, JtagBit
<1>6. ASSUME NEW d \in Chained, NEW n \in JtagBit, NEW a \in {<<1, 0>>, <<0, 1>>}, NEW w \in Sents,
             NEW k \in {ACK_OK, ACK_WAIT}, NEW s \in Sents
      PROVE  LET q == TransferRequest(d, n, a, w, k, s) IN ReqOK(q) /\ q.cmd = "TFR" /\ q.dev = d
  <2> DEFINE q == TransferRequest(d, n, a, w, k, s)
  <2>1. q.cmd = "TFR" /\ q.dev = d /\ q.rnw = n /\ q.addr = a /\ q.answer = k /\ q.dwrite = w /\ q.sent = s
    BY DEF NoReq, TransferRequest
  <2>2. a \in JtagBit \X JtagBit /\ w \in JtagWord /\ s \in JtagWord
    BY <1>2 DEF JtagBit
  <2> QED
    BY <2>1, <2>2 DEF ReqOK
<1>7. CASE r \in {IrRequest(d, i) : d \in Chained, i \in {APACC, DPACC}}
  BY <1>4, <1>7
<1>8. CASE r = NoReq
  BY <1>3, <1>8 DEF NoReq
<1>9. CASE r \in {IdRequest(d) : d \in {e \in Chained : Showing}}
  BY <1>5, <1>9
<1>10. CASE r \in {TransferRequest(d, n, a, w, k, s) :
            d \in {e \in Chained : Listening(e)}, n \in JtagBit, a \in {<<1, 0>>, <<0, 1>>},
            w \in Sents, k \in {ACK_OK, ACK_WAIT}, s \in Sents}
  <2>1. PICK d \in {e \in Chained : Listening(e)}, n \in JtagBit, a \in {<<1, 0>>, <<0, 1>>},
             w \in Sents, k \in {ACK_OK, ACK_WAIT}, s \in Sents : r = TransferRequest(d, n, a, w, k, s)
    BY <1>10
  <2>2. ReqOK(r) /\ r.cmd = "TFR" /\ r.dev = d
    BY <1>6, <2>1
  <2> QED
    BY <2>1, <2>2
<1> QED
  BY <1>7, <1>8, <1>9, <1>10 DEF JtagRequests

\* Where the TAP stands one clock later.
Then(p) == <<TapNext(p[1], p[2]), Head(p[3]), Tail(p[3])>>
\* Every place of a path leads to another of it.
Onward(path) == \A p \in path : p[3] # << >> => Then(p) \in path

\* The clocks of all paths.
LEMMA ThenIs ==
  /\ Then(<<"IDLE", 1, <<0, 0>>>>) = <<"SEL_DR", 0, <<0>>>>
  /\ Then(<<"SEL_DR", 0, <<0>>>>) = <<"CAP_DR", 0, << >>>>
  /\ Then(<<"IDLE", 0, <<1, 0, 0>>>>) = <<"IDLE", 1, <<0, 0>>>>
  /\ Then(<<"IDLE", 1, <<1, 0, 0>>>>) = <<"SEL_DR", 1, <<0, 0>>>>
  /\ Then(<<"SEL_DR", 1, <<0, 0>>>>) = <<"SEL_IR", 0, <<0>>>>
  /\ Then(<<"SEL_IR", 0, <<0>>>>) = <<"CAP_IR", 0, << >>>>
  /\ Then(<<"IDLE", 1, <<1, 1, 1, 1, 0>>>>) = <<"SEL_DR", 1, <<1, 1, 1, 0>>>>
  /\ Then(<<"SEL_DR", 1, <<1, 1, 1, 0>>>>) = <<"SEL_IR", 1, <<1, 1, 0>>>>
  /\ Then(<<"SEL_IR", 1, <<1, 1, 0>>>>) = <<"RESET", 1, <<1, 0>>>>
  /\ Then(<<"RESET", 1, <<1, 0>>>>) = <<"RESET", 1, <<0>>>>
  /\ Then(<<"RESET", 1, <<0>>>>) = <<"RESET", 0, << >>>>
  /\ Then(<<"SHIFT_DR", 1, <<1, 0>>>>) = <<"EXIT_DR", 1, <<0>>>>
  /\ Then(<<"EXIT_DR", 1, <<0>>>>) = <<"UPD_DR", 0, << >>>>
  /\ Then(<<"EXIT_DR", 1, <<0, 0>>>>) = <<"UPD_DR", 0, <<0>>>>
  /\ Then(<<"UPD_DR", 0, <<0>>>>) = <<"IDLE", 0, << >>>>
  /\ Then(<<"SHIFT_DR", 0, <<1, 1, 0>>>>) = <<"SHIFT_DR", 1, <<1, 0>>>>
  /\ Then(<<"EXIT_IR", 1, <<0>>>>) = <<"UPD_IR", 0, << >>>>
<1>1. Then(<<"IDLE", 1, <<0, 0>>>>) = <<"SEL_DR", 0, <<0>>>>
  BY TmsBits DEF Then, TapNext
<1>2. Then(<<"SEL_DR", 0, <<0>>>>) = <<"CAP_DR", 0, << >>>>
  BY TmsBits DEF Then, TapNext
<1>3. Then(<<"IDLE", 0, <<1, 0, 0>>>>) = <<"IDLE", 1, <<0, 0>>>>
  BY TmsBits DEF Then, TapNext
<1>4. Then(<<"IDLE", 1, <<1, 0, 0>>>>) = <<"SEL_DR", 1, <<0, 0>>>>
  BY TmsBits DEF Then, TapNext
<1>5. Then(<<"SEL_DR", 1, <<0, 0>>>>) = <<"SEL_IR", 0, <<0>>>>
  BY TmsBits DEF Then, TapNext
<1>6. Then(<<"SEL_IR", 0, <<0>>>>) = <<"CAP_IR", 0, << >>>>
  BY TmsBits DEF Then, TapNext
<1>7. Then(<<"IDLE", 1, <<1, 1, 1, 1, 0>>>>) = <<"SEL_DR", 1, <<1, 1, 1, 0>>>>
  BY TmsBits DEF Then, TapNext
<1>8. Then(<<"SEL_DR", 1, <<1, 1, 1, 0>>>>) = <<"SEL_IR", 1, <<1, 1, 0>>>>
  BY TmsBits DEF Then, TapNext
<1>9. Then(<<"SEL_IR", 1, <<1, 1, 0>>>>) = <<"RESET", 1, <<1, 0>>>>
  BY TmsBits DEF Then, TapNext
<1>10. Then(<<"RESET", 1, <<1, 0>>>>) = <<"RESET", 1, <<0>>>>
  BY TmsBits DEF Then, TapNext
<1>11. Then(<<"RESET", 1, <<0>>>>) = <<"RESET", 0, << >>>>
  BY TmsBits DEF Then, TapNext
<1>12. Then(<<"SHIFT_DR", 1, <<1, 0>>>>) = <<"EXIT_DR", 1, <<0>>>>
  BY TmsBits DEF Then, TapNext
<1>13. Then(<<"EXIT_DR", 1, <<0>>>>) = <<"UPD_DR", 0, << >>>>
  BY TmsBits DEF Then, TapNext
<1>14. Then(<<"EXIT_DR", 1, <<0, 0>>>>) = <<"UPD_DR", 0, <<0>>>>
  BY TmsBits DEF Then, TapNext
<1>15. Then(<<"UPD_DR", 0, <<0>>>>) = <<"IDLE", 0, << >>>>
  BY TmsBits DEF Then, TapNext
<1>16. Then(<<"SHIFT_DR", 0, <<1, 1, 0>>>>) = <<"SHIFT_DR", 1, <<1, 0>>>>
  BY TmsBits DEF Then, TapNext
<1>17. Then(<<"EXIT_IR", 1, <<0>>>>) = <<"UPD_IR", 0, << >>>>
  BY TmsBits DEF Then, TapNext
<1> QED
  BY <1>1, <1>2, <1>3, <1>4, <1>5, <1>6, <1>7, <1>8, <1>9, <1>10, <1>11, <1>12, <1>13, <1>14, <1>15, <1>16, <1>17

\* The paths, place by place.
LEMMA PathsList ==
  /\ Opens("TFR") = {<<"IDLE", 1, <<0, 0>>>>, <<"SEL_DR", 0, <<0>>>>, <<"CAP_DR", 0, << >>>>}
  /\ Opens("READID") = {<<"IDLE", 0, <<1, 0, 0>>>>, <<"IDLE", 1, <<0, 0>>>>, <<"SEL_DR", 0, <<0>>>>,
           <<"CAP_DR", 0, << >>>>}
  /\ Opens("IR") = {<<"IDLE", 1, <<1, 0, 0>>>>, <<"SEL_DR", 1, <<0, 0>>>>, <<"SEL_IR", 0, <<0>>>>,
           <<"CAP_IR", 0, << >>>>}
  /\ Opens("RESET") = {<<"IDLE", 1, <<1, 1, 1, 1, 0>>>>, <<"SEL_DR", 1, <<1, 1, 1, 0>>>>,
           <<"SEL_IR", 1, <<1, 1, 0>>>>, <<"RESET", 1, <<1, 0>>>>,
           <<"RESET", 1, <<0>>>>, <<"RESET", 0, << >>>>}
  /\ Breaks = {<<"SHIFT_DR", 1, <<1, 0>>>>, <<"EXIT_DR", 1, <<0>>>>, <<"UPD_DR", 0, << >>>>}
  /\ Closes("TFR") = {<<"EXIT_DR", 1, <<0, 0>>>>, <<"UPD_DR", 0, <<0>>>>, <<"IDLE", 0, << >>>>}
  /\ Closes("READID") = {<<"SHIFT_DR", 0, <<1, 1, 0>>>>, <<"SHIFT_DR", 1, <<1, 0>>>>,
           <<"EXIT_DR", 1, <<0>>>>, <<"UPD_DR", 0, << >>>>}
  /\ Closes("IR") = {<<"EXIT_IR", 1, <<0>>>>, <<"UPD_IR", 0, << >>>>}
  BY DEF Opens, Closes, Breaks

\* Along the TMS bits of a command the TAP stays on its path.
LEMMA PathsAre ==
  /\ \A cmd \in {"TFR", "READID", "IR", "RESET"} : Onward(Opens(cmd))
  /\ Onward(Breaks)
  /\ \A cmd \in {"TFR", "READID", "IR"} : Onward(Closes(cmd))
<1>1. Onward(Opens("TFR"))
  <2>1. <<"CAP_DR", 0, << >>>>[3] = << >>
    OBVIOUS
  <2>2. Opens("TFR") = {<<"IDLE", 1, <<0, 0>>>>, <<"SEL_DR", 0, <<0>>>>, <<"CAP_DR", 0, << >>>>}
    BY PathsList
  <2> QED
    BY ThenIs, <2>1, <2>2, Zenon DEF Onward
<1>2. Onward(Opens("READID"))
  <2>1. <<"CAP_DR", 0, << >>>>[3] = << >>
    OBVIOUS
  <2>2. Opens("READID") = {<<"IDLE", 0, <<1, 0, 0>>>>, <<"IDLE", 1, <<0, 0>>>>, <<"SEL_DR", 0, <<0>>>>,
           <<"CAP_DR", 0, << >>>>}
    BY PathsList
  <2> QED
    BY ThenIs, <2>1, <2>2, Zenon DEF Onward
<1>3. Onward(Opens("IR"))
  <2>1. <<"CAP_IR", 0, << >>>>[3] = << >>
    OBVIOUS
  <2>2. Opens("IR") = {<<"IDLE", 1, <<1, 0, 0>>>>, <<"SEL_DR", 1, <<0, 0>>>>, <<"SEL_IR", 0, <<0>>>>,
           <<"CAP_IR", 0, << >>>>}
    BY PathsList
  <2> QED
    BY ThenIs, <2>1, <2>2, Zenon DEF Onward
<1>4. Onward(Opens("RESET"))
  <2>1. <<"RESET", 0, << >>>>[3] = << >>
    OBVIOUS
  <2>2. Opens("RESET") = {<<"IDLE", 1, <<1, 1, 1, 1, 0>>>>, <<"SEL_DR", 1, <<1, 1, 1, 0>>>>,
           <<"SEL_IR", 1, <<1, 1, 0>>>>, <<"RESET", 1, <<1, 0>>>>,
           <<"RESET", 1, <<0>>>>, <<"RESET", 0, << >>>>}
    BY PathsList
  <2> QED
    BY ThenIs, <2>1, <2>2, Zenon DEF Onward
<1>5. Onward(Breaks)
  <2>1. <<"UPD_DR", 0, << >>>>[3] = << >>
    OBVIOUS
  <2>2. Breaks = {<<"SHIFT_DR", 1, <<1, 0>>>>, <<"EXIT_DR", 1, <<0>>>>, <<"UPD_DR", 0, << >>>>}
    BY PathsList
  <2> QED
    BY ThenIs, <2>1, <2>2, Zenon DEF Onward
<1>6. Onward(Closes("TFR"))
  <2>1. <<"IDLE", 0, << >>>>[3] = << >>
    OBVIOUS
  <2>2. Closes("TFR") = {<<"EXIT_DR", 1, <<0, 0>>>>, <<"UPD_DR", 0, <<0>>>>, <<"IDLE", 0, << >>>>}
    BY PathsList
  <2> QED
    BY ThenIs, <2>1, <2>2, Zenon DEF Onward
<1>7. Onward(Closes("READID"))
  <2>1. <<"UPD_DR", 0, << >>>>[3] = << >>
    OBVIOUS
  <2>2. Closes("READID") = {<<"SHIFT_DR", 0, <<1, 1, 0>>>>, <<"SHIFT_DR", 1, <<1, 0>>>>,
           <<"EXIT_DR", 1, <<0>>>>, <<"UPD_DR", 0, << >>>>}
    BY PathsList
  <2> QED
    BY ThenIs, <2>1, <2>2, Zenon DEF Onward
<1>8. Onward(Closes("IR"))
  <2>1. <<"UPD_IR", 0, << >>>>[3] = << >>
    OBVIOUS
  <2>2. Closes("IR") = {<<"EXIT_IR", 1, <<0>>>>, <<"UPD_IR", 0, << >>>>}
    BY PathsList
  <2> QED
    BY ThenIs, <2>1, <2>2, Zenon DEF Onward
<1> QED
  BY <1>1, <1>2, <1>3, <1>4, <1>5, <1>6, <1>7, <1>8

\* The last TMS bit of a path.
\* The last bit of a path leads here.
Ends(path, t) == \A p \in path : p[3] = << >> => p[1] = t /\ p[2] = 0

\* Where the paths lead.
LEMMA PathsEnd ==
  /\ \A cmd \in {"TFR", "READID"} : Ends(Opens(cmd), "CAP_DR")
  /\ Ends(Opens("IR"), "CAP_IR") /\ Ends(Opens("RESET"), "RESET") /\ Ends(Breaks, "UPD_DR")
  /\ Ends(Closes("TFR"), "IDLE") /\ Ends(Closes("READID"), "UPD_DR") /\ Ends(Closes("IR"), "UPD_IR")
<1>1. Ends(Opens("TFR"), "CAP_DR")
  <2>1. /\ <<"IDLE", 1, <<0, 0>>>>[3] # << >>
        /\ <<"SEL_DR", 0, <<0>>>>[3] # << >>
        /\ <<"CAP_DR", 0, << >>>>[1] = "CAP_DR" /\ <<"CAP_DR", 0, << >>>>[2] = 0
    BY TmsBits
  <2>2. Opens("TFR") = {<<"IDLE", 1, <<0, 0>>>>, <<"SEL_DR", 0, <<0>>>>, <<"CAP_DR", 0, << >>>>}
    BY PathsList
  <2> QED
    BY <2>1, <2>2, Zenon DEF Ends
<1>2. Ends(Opens("READID"), "CAP_DR")
  <2>1. /\ <<"IDLE", 0, <<1, 0, 0>>>>[3] # << >>
        /\ <<"IDLE", 1, <<0, 0>>>>[3] # << >>
        /\ <<"SEL_DR", 0, <<0>>>>[3] # << >>
        /\ <<"CAP_DR", 0, << >>>>[1] = "CAP_DR" /\ <<"CAP_DR", 0, << >>>>[2] = 0
    BY TmsBits
  <2>2. Opens("READID") = {<<"IDLE", 0, <<1, 0, 0>>>>, <<"IDLE", 1, <<0, 0>>>>, <<"SEL_DR", 0, <<0>>>>,
           <<"CAP_DR", 0, << >>>>}
    BY PathsList
  <2> QED
    BY <2>1, <2>2, Zenon DEF Ends
<1>3. Ends(Opens("IR"), "CAP_IR")
  <2>1. /\ <<"IDLE", 1, <<1, 0, 0>>>>[3] # << >>
        /\ <<"SEL_DR", 1, <<0, 0>>>>[3] # << >>
        /\ <<"SEL_IR", 0, <<0>>>>[3] # << >>
        /\ <<"CAP_IR", 0, << >>>>[1] = "CAP_IR" /\ <<"CAP_IR", 0, << >>>>[2] = 0
    BY TmsBits
  <2>2. Opens("IR") = {<<"IDLE", 1, <<1, 0, 0>>>>, <<"SEL_DR", 1, <<0, 0>>>>, <<"SEL_IR", 0, <<0>>>>,
           <<"CAP_IR", 0, << >>>>}
    BY PathsList
  <2> QED
    BY <2>1, <2>2, Zenon DEF Ends
<1>4. Ends(Opens("RESET"), "RESET")
  <2>1. /\ <<"IDLE", 1, <<1, 1, 1, 1, 0>>>>[3] # << >>
        /\ <<"SEL_DR", 1, <<1, 1, 1, 0>>>>[3] # << >>
        /\ <<"SEL_IR", 1, <<1, 1, 0>>>>[3] # << >>
        /\ <<"RESET", 1, <<1, 0>>>>[3] # << >>
        /\ <<"RESET", 1, <<0>>>>[3] # << >>
        /\ <<"RESET", 0, << >>>>[1] = "RESET" /\ <<"RESET", 0, << >>>>[2] = 0
    BY TmsBits
  <2>2. Opens("RESET") = {<<"IDLE", 1, <<1, 1, 1, 1, 0>>>>, <<"SEL_DR", 1, <<1, 1, 1, 0>>>>,
           <<"SEL_IR", 1, <<1, 1, 0>>>>, <<"RESET", 1, <<1, 0>>>>,
           <<"RESET", 1, <<0>>>>, <<"RESET", 0, << >>>>}
    BY PathsList
  <2> QED
    BY <2>1, <2>2, Zenon DEF Ends
<1>5. Ends(Breaks, "UPD_DR")
  <2>1. /\ <<"SHIFT_DR", 1, <<1, 0>>>>[3] # << >>
        /\ <<"EXIT_DR", 1, <<0>>>>[3] # << >>
        /\ <<"UPD_DR", 0, << >>>>[1] = "UPD_DR" /\ <<"UPD_DR", 0, << >>>>[2] = 0
    BY TmsBits
  <2>2. Breaks = {<<"SHIFT_DR", 1, <<1, 0>>>>, <<"EXIT_DR", 1, <<0>>>>, <<"UPD_DR", 0, << >>>>}
    BY PathsList
  <2> QED
    BY <2>1, <2>2, Zenon DEF Ends
<1>6. Ends(Closes("TFR"), "IDLE")
  <2>1. /\ <<"EXIT_DR", 1, <<0, 0>>>>[3] # << >>
        /\ <<"UPD_DR", 0, <<0>>>>[3] # << >>
        /\ <<"IDLE", 0, << >>>>[1] = "IDLE" /\ <<"IDLE", 0, << >>>>[2] = 0
    BY TmsBits
  <2>2. Closes("TFR") = {<<"EXIT_DR", 1, <<0, 0>>>>, <<"UPD_DR", 0, <<0>>>>, <<"IDLE", 0, << >>>>}
    BY PathsList
  <2> QED
    BY <2>1, <2>2, Zenon DEF Ends
<1>7. Ends(Closes("READID"), "UPD_DR")
  <2>1. /\ <<"SHIFT_DR", 0, <<1, 1, 0>>>>[3] # << >>
        /\ <<"SHIFT_DR", 1, <<1, 0>>>>[3] # << >>
        /\ <<"EXIT_DR", 1, <<0>>>>[3] # << >>
        /\ <<"UPD_DR", 0, << >>>>[1] = "UPD_DR" /\ <<"UPD_DR", 0, << >>>>[2] = 0
    BY TmsBits
  <2>2. Closes("READID") = {<<"SHIFT_DR", 0, <<1, 1, 0>>>>, <<"SHIFT_DR", 1, <<1, 0>>>>,
           <<"EXIT_DR", 1, <<0>>>>, <<"UPD_DR", 0, << >>>>}
    BY PathsList
  <2> QED
    BY <2>1, <2>2, Zenon DEF Ends
<1>8. Ends(Closes("IR"), "UPD_IR")
  <2>1. /\ <<"EXIT_IR", 1, <<0>>>>[3] # << >>
        /\ <<"UPD_IR", 0, << >>>>[1] = "UPD_IR" /\ <<"UPD_IR", 0, << >>>>[2] = 0
    BY TmsBits
  <2>2. Closes("IR") = {<<"EXIT_IR", 1, <<0>>>>, <<"UPD_IR", 0, << >>>>}
    BY PathsList
  <2> QED
    BY <2>1, <2>2, Zenon DEF Ends
<1> QED
  BY <1>1, <1>2, <1>3, <1>4, <1>5, <1>6, <1>7, <1>8

\* The layer above asks while the interface rests.
LEMMA JtagRequestKeeps ==
  ASSUME JtagInv, JtagRequest
  PROVE  JtagInv'
<1>1. /\ jtag_state = "IDLE" /\ jtag_state' = "IDLE" /\ jtagGo' = TRUE /\ jtagReq' \in JtagRequests
      /\ UNCHANGED <<jtagRising, jtagAck, jtagRead, dap, tap>>
  BY DEF JtagRequest, idle, jtagEngine
<1>2. /\ ReqOK(jtagReq') /\ (jtagReq'.cmd = "TFR" => Listening(jtagReq'.dev)) /\ (jtagReq'.cmd = "READID" => Showing)
  BY <1>1, RequestsAreOK
<1>3. JtagTypes'
  BY <1>1, <1>2 DEF JtagInv, JtagTypes
<1>4. Prepared'
  BY <1>1, <1>2 DEF Prepared, Listening, Showing
<1>5. AtRest'
  BY <1>1 DEF JtagInv, AtRest, idle
<1>6. (OpeningRight /\ ResettingRight /\ ShiftingRight /\ Told /\ ClosingRight)'
  BY <1>1 DEF OpeningRight, ResettingRight, ShiftingRight, Told, ClosingRight
<1> QED
  BY <1>3, <1>4, <1>5, <1>6 DEF JtagInv

\* At rest, or after the last ID, a rising edge changes nothing.
LEMMA JtagWaitingKeeps ==
  ASSUME JtagInv, JtagRisingEdge, Waiting
  PROVE  JtagInv'
<1>1. /\ jtag_state = "IDLE" /\ jtag_state' = "IDLE" /\ jtagGo' = jtagGo /\ jtagReq' = jtagReq
      /\ UNCHANGED <<jtagAck, jtagRead, dap, tap>> /\ jtagRising' = FALSE
  BY DEF JtagRisingEdge, Waiting, idle, JtagInv, Told
<1>2. JtagTypes'
  BY <1>1 DEF JtagInv, JtagTypes
<1>3. Prepared'
  BY <1>1 DEF JtagInv, Prepared, Listening, Showing, idle
<1>4. AtRest'
  BY <1>1 DEF JtagInv, AtRest, idle, CommandRight, Showing
<1>5. (OpeningRight /\ ResettingRight /\ ShiftingRight /\ Told /\ ClosingRight)'
  BY <1>1 DEF OpeningRight, ResettingRight, ShiftingRight, Told, ClosingRight
<1> QED
  BY <1>2, <1>3, <1>4, <1>5 DEF JtagInv

\* The command starts with its first TMS bit to come.
LEMMA JtagStartKeeps ==
  ASSUME JtagInv, JtagRisingEdge, JtagStart
  PROVE  JtagInv'
<1>1. /\ jtag_state = "IDLE" /\ jtagGo /\ jtag_state' = "TMSOUT" /\ jtagGo' = FALSE /\ jtagRising' = FALSE
      /\ UNCHANGED <<jtagReq, jtagAck, jtagRead, dap, tap, tms>> /\ tdxcount' = 0 /\ devcount' = 0
      /\ tmsbits' = Opening[1] /\ next_state' = Opening[2]
  BY DEF JtagRisingEdge, JtagStart, idle
<1>2. tap = "IDLE" /\ ReqOK(jtagReq)
  BY <1>1 DEF JtagInv, AtRest, idle, JtagTypes
<1>3. JtagTypes'
  BY <1>1 DEF JtagInv, JtagTypes
<1>4. Prepared'
  BY <1>1 DEF JtagInv, Prepared, Listening, Showing, idle
<1>5. AtRest'
  BY <1>1 DEF JtagInv, AtRest, idle
<1>10. ASSUME jtagReq.cmd = "TFR" PROVE Where' = <<"IDLE", 1, <<0, 0>>>> /\ tmsbits' # << >> /\ next_state' = "TRANSFER"
  <2>1. tmsbits' = <<1, 0, 0>> /\ next_state' = "TRANSFER"
    BY <1>1, <1>10 DEF Opening
  <2> QED
    BY <1>1, <1>2, <2>1, TmsBits DEF Where
<1>11. ASSUME jtagReq.cmd = "READID"
       PROVE Where' = <<"IDLE", 0, <<1, 0, 0>>>> /\ tmsbits' # << >> /\ next_state' = "IDDATA"
  <2>1. tmsbits' = <<0, 1, 0, 0>> /\ next_state' = "IDDATA"
    BY <1>1, <1>11 DEF Opening
  <2> QED
    BY <1>1, <1>2, <2>1, TmsBits DEF Where
<1>12. ASSUME jtagReq.cmd = "IR"
       PROVE Where' = <<"IDLE", 1, <<1, 0, 0>>>> /\ tmsbits' # << >> /\ next_state' = "WRITEIR"
  <2>1. tmsbits' = <<1, 1, 0, 0>> /\ next_state' = "WRITEIR"
    BY <1>1, <1>12 DEF Opening
  <2> QED
    BY <1>1, <1>2, <2>1, TmsBits DEF Where
<1>13. ASSUME jtagReq.cmd = "RESET"
       PROVE Where' = <<"IDLE", 1, <<1, 1, 1, 1, 0>>>> /\ tmsbits' # << >> /\ next_state' = "IDLE"
  <2>1. tmsbits' = <<1, 1, 1, 1, 1, 0>> /\ next_state' = "IDLE"
    BY <1>1, <1>13 DEF Opening
  <2> QED
    BY <1>1, <1>2, <2>1, TmsBits DEF Where
<1>14. jtagReq.cmd \in {"RESET", "IR", "READID", "TFR"}
  BY <1>2 DEF ReqOK
<1>15. On(Opens(jtagReq.cmd))'
  BY <1>1, <1>10, <1>11, <1>12, <1>13, <1>14 DEF On, Opens
<1>16. next_state' # "IDLE" => jtagReq.cmd # "RESET" /\ next_state' = ShiftState(jtagReq)
  BY <1>10, <1>11, <1>12, <1>13, <1>14 DEF ShiftState
<1>6. OpeningRight'
  BY <1>1, <1>2, <1>15, <1>16 DEF OpeningRight
<1>7. ResettingRight'
  BY <1>1, <1>2, <1>13, <1>15 DEF ResettingRight
<1>8. (ShiftingRight /\ Told)'
  BY <1>1 DEF ShiftingRight, Told
<1>9. ClosingRight'
  BY <1>1, <1>10, <1>11, <1>12, <1>14 DEF ClosingRight
<1> QED
  BY <1>3, <1>4, <1>5, <1>6, <1>7, <1>8, <1>9 DEF JtagInv

-----------------------------------------------------------------------------
\* A rising edge while a command runs: what the TAP makes of it.
LEMMA TapMoves ==
  ASSUME JtagRisingEdge, jtag_state # "IDLE"
  PROVE  /\ jtagRising /\ jtagRising' = FALSE /\ UNCHANGED <<tdi, tms, jtagReq>>
         /\ tap' = TapNext(tap, tms)
         /\ dap' = [instr |-> dap'.instr, took |-> dap'.took]
         /\ tap' \notin {"UPD_IR", "RESET"} => dap'.instr = dap.instr
         /\ tap' \notin {"UPD_DR", "CAP_DR"} => dap'.took = dap.took
         /\ tap' = "CAP_DR" => dap'.took = << >>
         /\ tap' = "RESET" => dap'.instr = [d \in Chained |-> IrOf(d, IDCODE)]
         /\ tap = "EXIT_IR" /\ tap' = "UPD_IR" => dap'.instr = chain
         /\ tap = "EXIT_DR" /\ tap' = "UPD_DR" =>
              dap'.took = IF /\ jtagReq.answer = ACK_OK
                             /\ dap.instr[jtagReq.dev] \in {IrOf(jtagReq.dev, APACC), IrOf(jtagReq.dev, DPACC)}
                          THEN chain[jtagReq.dev] ELSE dap.took
         /\ tap = "CAP_DR" /\ tap' # "IDLE" => chain' = [d \in Chained |-> Dr(d)]
         /\ tap = "CAP_IR" /\ tap' # "IDLE" => chain' = [d \in Chained |-> [i \in 1 .. IrLen(d) |-> 0]]
         /\ tap \in {"SHIFT_DR", "SHIFT_IR"} /\ tap' # "IDLE" => chain' = Shifted
<1>1. Tap /\ jtagRising /\ jtagRising' = FALSE /\ UNCHANGED <<tdi, tms, jtagReq>>
  BY DEF JtagRisingEdge, idle
<1> DEFINE bits == CASE tap = "CAP_DR" -> [d \in Chained |-> Dr(d)]
                     [] tap = "CAP_IR" -> [d \in Chained |-> [i \in 1 .. IrLen(d) |-> 0]]
                     [] tap \in {"SHIFT_DR", "SHIFT_IR"} -> Shifted
                     [] OTHER -> chain
           listens(d) == dap.instr[d] \in {IrOf(d, APACC), IrOf(d, DPACC)}
<1>2. /\ tap' = TapNext(tap, tms)
      /\ chain' = IF tap' = "IDLE" THEN << >> ELSE bits
      /\ dap' = [instr |-> CASE tap' = "UPD_IR" -> bits
                            [] tap' = "RESET" -> [d \in Chained |-> IrOf(d, IDCODE)]
                            [] OTHER -> dap.instr,
                 took |-> IF tap' = "UPD_DR" /\ jtagReq.answer = ACK_OK /\ listens(jtagReq.dev)
                          THEN bits[jtagReq.dev]
                          ELSE IF tap' = "CAP_DR" THEN << >> ELSE dap.took]
  BY <1>1 DEF Tap
<1>3. /\ tap = "CAP_DR" => bits = [d \in Chained |-> Dr(d)]
      /\ tap = "CAP_IR" => bits = [d \in Chained |-> [i \in 1 .. IrLen(d) |-> 0]]
      /\ tap \in {"SHIFT_DR", "SHIFT_IR"} => bits = Shifted
      /\ tap \in {"EXIT_DR", "EXIT_IR"} => bits = chain
  OBVIOUS
<1> HIDE DEF bits
<1> QED
  BY <1>1, <1>2, <1>3

\* The TAP goes on along a path.
LEMMA OnLater ==
  ASSUME NEW path, jtagRising, jtagRising' = FALSE, tap' = TapNext(tap, tms), tmsbits' = tmsbits,
         Where \in path, Onward(path), tmsbits # << >>
  PROVE  Where' \in path /\ Where' = Then(Where)
<1>1. Where = <<tap, tms, tmsbits>>
  BY DEF Where
<1>2. Where' = <<TapNext(tap, tms), Head(tmsbits), Tail(tmsbits)>>
  BY DEF Where
<1>3. Where' = Then(Where)
  BY <1>1, <1>2 DEF Then
<1>4. Where[3] # << >>
  BY <1>1
<1> QED
  BY <1>3, <1>4 DEF Onward

\* Another TMS bit, or the last: then the TAP is where the path ends.
LEMMA TmsOutIs ==
  ASSUME JtagInv, JtagRisingEdge, TmsOut
  PROVE  /\ jtag_state = "TMSOUT" /\ ReqOK(jtagReq) /\ ReqOK(jtagReq') /\ jtagGo = FALSE /\ jtagGo' = FALSE
         /\ UNCHANGED <<tmsbits, next_state, tdxcount, devcount, jtagAck, jtagRead>>
         /\ jtag_state' = IF tmsbits = << >> THEN next_state ELSE "TMSOUT"
         /\ Where = <<tap, tms, tmsbits>>
         /\ next_state \in {"IDLE", "TRANSFER", "IDDATA", "WRITEIR"}
         /\ dap.instr = [d \in Chained |-> dap.instr[d]]
<1>1. /\ jtag_state = "TMSOUT" /\ UNCHANGED <<tmsbits, next_state, tdxcount, devcount, jtagAck, jtagRead, jtagGo>>
      /\ jtag_state' = IF tmsbits = << >> THEN next_state ELSE "TMSOUT"
  BY DEF TmsOut
<1>2. jtagRising /\ jtagReq' = jtagReq
  BY <1>1, TapMoves
<1>3. ReqOK(jtagReq) /\ jtagGo = FALSE
  BY <1>1 DEF JtagInv, JtagTypes, AtRest, idle
<1>4. next_state \in {"IDLE", "TRANSFER", "IDDATA", "WRITEIR"}
  BY <1>1 DEF JtagInv, OpeningRight, ShiftState
<1>5. dap.instr = [d \in Chained |-> dap.instr[d]]
  BY DEF JtagInv, JtagTypes
<1> QED
  BY <1>1, <1>2, <1>3, <1>4, <1>5 DEF Where

\* A TMS bit keeps the ranges.
LEMMA TmsOutTypes ==
  ASSUME JtagInv, JtagRisingEdge, TmsOut, dap'.instr = [d \in Chained |-> dap'.instr[d]]
  PROVE  JtagTypes'
<1>1. jtag_state' \in {"IDLE", "TMSOUT", "TRANSFER", "IDDATA", "WRITEIR", "READID_DONE"}
  BY TmsOutIs
<1>2. jtagRising' = FALSE /\ dap' = [instr |-> dap'.instr, took |-> dap'.took]
  BY TapMoves, TmsOutIs
<1>3. jtagAck' = [i \in 1 .. 3 |-> jtagAck'[i]] /\ jtagRead' = [i \in 1 .. JtagBits |-> jtagRead'[i]]
  BY TmsOutIs DEF JtagInv, JtagTypes
<1> QED
  BY <1>1, <1>2, <1>3, TmsOutIs DEF JtagTypes

\* On the way to the reset state and back.
LEMMA TmsResets ==
  ASSUME JtagInv, JtagRisingEdge, TmsOut, jtagReq.cmd = "RESET"
  PROVE  JtagInv'
<1>1. Where \in Opens("RESET") /\ next_state = "IDLE" /\ (tap = "RESET" => Showing)
  BY TmsOutIs DEF JtagInv, ResettingRight, On
<1>2. jtagReq' = jtagReq /\ tap' = TapNext(tap, tms) /\ jtagRising /\ jtagRising' = FALSE
  BY TapMoves, TmsOutIs
<1>3. CASE tmsbits # << >>
  <2>1. Where' \in Opens("RESET")
    BY <1>1, <1>2, <1>3, OnLater, PathsAre, TmsOutIs
  <2>2. tap' = Where'[1]
    BY DEF Where
  <2>3. tap' \in {"IDLE", "SEL_DR", "SEL_IR", "RESET"}
    BY <2>1, <2>2 DEF Opens
  <2>4. dap'.instr = IF tap' = "RESET" THEN [d \in Chained |-> IrOf(d, IDCODE)] ELSE dap.instr
    BY <2>3, TapMoves, TmsOutIs
  <2>5. tap' = "RESET" => Showing'
    BY <2>4 DEF Showing
  <2>6. JtagTypes'
    BY <2>4, TmsOutTypes, TmsOutIs
  <2>7. jtag_state' = "TMSOUT" /\ next_state' = "IDLE" /\ ~jtagGo' /\ tmsbits' # << >>
    BY <1>1, <1>3, TmsOutIs
  <2> QED
    BY <1>2, <2>1, <2>5, <2>6, <2>7 DEF JtagInv, Prepared, AtRest, OpeningRight, ResettingRight, ShiftingRight,
       Told, ClosingRight, On, idle
<1>4. CASE tmsbits = << >>
  <2>1. tap = "RESET" /\ tms = 0
    BY <1>1, <1>4, TmsOutIs, PathsEnd DEF Ends
  <2>2. tap' = "IDLE"
    BY <1>2, <2>1 DEF TapNext
  <2>3. dap'.instr = dap.instr
    BY <2>2, TapMoves, TmsOutIs
  <2>4. Showing'
    BY <1>1, <2>1, <2>3 DEF Showing
  <2>5. JtagTypes'
    BY <2>3, TmsOutTypes, TmsOutIs
  <2>6. jtag_state' = "IDLE" /\ ~jtagGo'
    BY <1>1, <1>4, TmsOutIs
  <2>7. AtRest'
    BY <1>2, <2>2, <2>4, <2>6 DEF AtRest, idle, CommandRight
  <2> QED
    BY <1>2, <2>5, <2>6, <2>7 DEF JtagInv, Prepared, OpeningRight, ResettingRight, ShiftingRight,
       Told, ClosingRight, idle
<1> QED
  BY <1>3, <1>4

\* An answer and a word after it.
LEMMA AnswerIs ==
  ASSUME NEW a \in {ACK_OK, ACK_WAIT}, NEW w \in JtagWord
  PROVE  a \o w = [i \in 1 .. JtagBits + 3 |-> IF i <= 3 THEN a[i] ELSE w[i - 3]]
<1>1. JtagBits \in Nat
  BY JtagConstants
<1>2. a \in Seq(JtagBit) /\ Len(a) = 3
  <2>1. CASE a = <<0, 1, 0>>
    <3>1. <<0, 1, 0>> \in Seq(JtagBit) /\ Len(<<0, 1, 0>>) = 3
      BY DEF JtagBit
    <3> QED
      BY <2>1, <3>1
  <2>2. CASE a = <<1, 0, 0>>
    <3>1. <<1, 0, 0>> \in Seq(JtagBit) /\ Len(<<1, 0, 0>>) = 3
      BY DEF JtagBit
    <3> QED
      BY <2>2, <3>1
  <2> QED
    BY <2>1, <2>2 DEF ACK_OK, ACK_WAIT
<1>3. w \in Seq(JtagBit) /\ Len(w) = JtagBits
  <2>1. w \in [1 .. JtagBits -> JtagBit]
    BY DEF JtagWord
  <2> QED
    BY <1>1, <2>1
<1>4. /\ a \o w \in Seq(JtagBit) /\ Len(a \o w) = Len(a) + Len(w)
      /\ \A i \in 1 .. Len(a) + Len(w) : (a \o w)[i] = IF i <= Len(a) THEN a[i] ELSE w[i - Len(a)]
  BY <1>2, <1>3, ConcatProperties
<1>5. a \o w = [i \in 1 .. Len(a \o w) |-> (a \o w)[i]]
  BY <1>4, LenProperties
<1>6. Len(a) + Len(w) = JtagBits + 3
  BY <1>1, <1>2, <1>3
<1> QED
  BY <1>2, <1>4, <1>5, <1>6

\* The registers show what the command expects of them.
LEMMA DrIs ==
  ASSUME ReqOK(jtagReq), jtagReq.cmd \in {"TFR", "READID"}, NEW d \in Chained,
         jtagReq.cmd = "TFR" => Listening(jtagReq.dev), jtagReq.cmd = "READID" => Showing
  PROVE  Dr(d) = [i \in 1 .. RegLen(jtagReq, d) |-> Shown(jtagReq)[d][i]]
<1>1. JtagBits \in Nat
  BY JtagConstants
<1>2. /\ IrOf(d, IDCODE) \notin {IrOf(d, APACC), IrOf(d, DPACC)}
      /\ IrOf(d, BYPASS) \notin {IrOf(d, APACC), IrOf(d, DPACC), IrOf(d, IDCODE)}
  BY InstructionsAre
<1>3. CASE jtagReq.cmd = "READID"
  <2>1. dap.instr[d] = IrOf(d, IDCODE)
    BY <1>3 DEF Showing
  <2>2. Dr(d) = IdOf(d)
    BY <1>2, <2>1 DEF Dr
  <2>3. RegLen(jtagReq, d) = JtagBits /\ IdOf(d) = [i \in 1 .. JtagBits |-> IdOf(d)[i]]
    BY <1>3 DEF RegLen, IdOf
  <2>4. \A i \in 1 .. JtagBits : Shown(jtagReq)[d][i] = IdOf(d)[i]
    BY <1>3, <2>3 DEF Shown
  <2> QED
    BY <2>2, <2>3, <2>4
<1>4. CASE jtagReq.cmd = "TFR" /\ d = jtagReq.dev
  <2>1. dap.instr[d] \in {IrOf(d, APACC), IrOf(d, DPACC)}
    BY <1>4 DEF Listening
  <2>2. Dr(d) = jtagReq.answer \o jtagReq.sent
    BY <1>2, <2>1 DEF Dr
  <2>3. Dr(d) = [i \in 1 .. JtagBits + 3 |-> IF i <= 3 THEN jtagReq.answer[i] ELSE jtagReq.sent[i - 3]]
    BY <2>2, AnswerIs DEF ReqOK
  <2>4. RegLen(jtagReq, d) = JtagBits + 3
    BY <1>4 DEF RegLen
  <2>5. \A i \in 1 .. JtagBits + 3 :
          Shown(jtagReq)[d][i] = IF i <= 3 THEN jtagReq.answer[i] ELSE jtagReq.sent[i - 3]
    BY <1>4, <2>4 DEF Shown
  <2> QED
    BY <2>3, <2>4, <2>5
<1>5. CASE jtagReq.cmd = "TFR" /\ d # jtagReq.dev
  <2>1. dap.instr[d] = IrOf(d, BYPASS)
    BY <1>5 DEF Listening
  <2>2. Dr(d) = <<0>>
    BY <1>2, <2>1 DEF Dr
  <2>3. RegLen(jtagReq, d) = 1 /\ <<0>> = [i \in 1 .. 1 |-> 0]
    BY <1>5 DEF RegLen
  <2>4. \A i \in 1 .. 1 : Shown(jtagReq)[d][i] = 0
    BY <1>5, <2>3 DEF Shown
  <2> QED
    BY <2>2, <2>3, <2>4
<1> QED
  BY <1>3, <1>4, <1>5

\* On the way to the registers, and into them.
LEMMA TmsOpens ==
  ASSUME JtagInv, JtagRisingEdge, TmsOut, next_state # "IDLE"
  PROVE  JtagInv'
<1>1. /\ jtagReq.cmd # "RESET" /\ next_state = ShiftState(jtagReq) /\ Where \in Opens(jtagReq.cmd)
      /\ tdxcount = 0 /\ devcount = 0 /\ (tap = "CAP_DR" => dap.took = << >>)
  BY TmsOutIs DEF JtagInv, OpeningRight, On
<1>2. jtagReq' = jtagReq /\ tap' = TapNext(tap, tms) /\ jtagRising /\ jtagRising' = FALSE /\ tms' = tms
  BY TapMoves, TmsOutIs
<1>3. jtagReq.cmd \in {"IR", "READID", "TFR"} /\ ReqOK(jtagReq)
  BY <1>1, TmsOutIs DEF ReqOK
<1>4. /\ jtagReq.cmd = "TFR" => Listening(jtagReq.dev)
      /\ jtagReq.cmd = "READID" => Showing
  BY TmsOutIs DEF JtagInv, Prepared, idle
<1>5. ASSUME tap' \notin {"UPD_IR", "RESET"} PROVE JtagTypes' /\ Prepared'
  <2>1. dap'.instr = dap.instr
    BY <1>5, TapMoves, TmsOutIs
  <2>2. JtagTypes'
    BY <2>1, TmsOutTypes, TmsOutIs
  <2>3. Prepared'
    BY <1>2, <1>4, <2>1 DEF Prepared, Listening, Showing
  <2> QED
    BY <2>2, <2>3
<1>6. CASE tmsbits # << >>
  <2>1. Where' \in Opens(jtagReq.cmd)
    BY <1>1, <1>2, <1>3, <1>6, OnLater, PathsAre, TmsOutIs
  <2>2. tap' = Where'[1]
    BY DEF Where
  <2>3. tap' \in {"IDLE", "SEL_DR", "CAP_DR", "SEL_IR", "CAP_IR"}
    BY <1>3, <2>1, <2>2 DEF Opens
  <2>4. tap' = "CAP_DR" => dap'.took = << >>
    BY TapMoves, TmsOutIs
  <2>5. jtag_state' = "TMSOUT" /\ next_state' = next_state /\ ~jtagGo' /\ tmsbits' # << >> /\ tdxcount' = 0 /\ devcount' = 0
    BY <1>1, <1>6, TmsOutIs
  <2>6. OpeningRight'
    BY <1>1, <1>2, <2>1, <2>4, <2>5 DEF OpeningRight, On
  <2> QED
    BY <1>1, <1>2, <1>5, <2>3, <2>5, <2>6 DEF JtagInv, AtRest, ResettingRight, ShiftingRight, Told, ClosingRight, idle
<1>7. CASE tmsbits = << >>
  <2>1. tms = 0 /\ tap = (IF jtagReq.cmd = "IR" THEN "CAP_IR" ELSE "CAP_DR")
    BY <1>1, <1>3, <1>7, TmsOutIs, PathsEnd DEF Ends
  <2>2. tap' = ShiftTap(jtagReq)
    BY <1>2, <1>3, <2>1 DEF TapNext, ShiftTap
  <2>3. JtagTypes' /\ Prepared'
    BY <1>5, <2>2 DEF ShiftTap
  <2>4. \A d \in Chained : Lens(jtagReq)[d] = RegLen(jtagReq, d)
    BY LensAre, TmsOutIs
  <2>5. ASSUME NEW d \in Chained
        PROVE  chain'[d] = [i \in 1 .. RegLen(jtagReq, d) |-> Shown(jtagReq)[d][i]]
    <3>1. CASE jtagReq.cmd = "IR"
      <4>1. chain' = [e \in Chained |-> [i \in 1 .. IrLen(e) |-> 0]]
        BY <2>1, <2>2, <3>1, TapMoves, TmsOutIs DEF ShiftTap
      <4>2. RegLen(jtagReq, d) = IrLen(d)
        BY <3>1 DEF RegLen
      <4>3. \A i \in 1 .. IrLen(d) : Shown(jtagReq)[d][i] = 0
        BY <3>1, <4>2 DEF Shown
      <4> QED
        BY <4>1, <4>2, <4>3
    <3>2. CASE jtagReq.cmd # "IR"
      <4>1. chain' = [e \in Chained |-> Dr(e)]
        BY <2>1, <2>2, <3>2, TapMoves, TmsOutIs DEF ShiftTap
      <4>2. Dr(d) = [i \in 1 .. RegLen(jtagReq, d) |-> Shown(jtagReq)[d][i]]
        BY <1>3, <1>4, <3>2, DrIs
      <4> QED
        BY <4>1, <4>2
    <3> QED
      BY <3>1, <3>2
  <2>6. chain' = [d \in Chained |-> chain'[d]]
    BY <1>3, <2>1, <2>2, TapMoves, TmsOutIs DEF ShiftTap
  <2>7. chain' = [d \in Chained |-> [i \in 1 .. RegLen(jtagReq, d) |-> chain'[d][i]]]
    BY <2>5, <2>6
  <2>8. Holding(chain', Lens(jtagReq), ndevs, Shown(jtagReq))
    BY <2>4, <2>5, LensAre, TmsOutIs DEF Holding
  <2>9. After(chain', Lens(jtagReq), ndevs, 0, Shown(jtagReq), SentBits(jtagReq))
    BY <2>8, AfterCapture, LensAre, TmsOutIs
  <2>10. Offsets(Lens(jtagReq), ndevs + 1)[0] = 0
    BY OffsetsAre, LensAre, TmsOutIs
  <2>11. jtag_state' = ShiftState(jtagReq) /\ tdxcount' = 0 /\ devcount' = 0 /\ ~jtagGo'
    BY <1>1, <1>7, TmsOutIs
  <2>12. 0 \in Chained /\ 0 \in 0 .. RegLen(jtagReq, 0) - 1
    BY LensAre, TmsOutIs
  <2>13. ShiftingRight'
    BY <1>1, <1>2, <2>1, <2>2, <2>7, <2>9, <2>10, <2>11, <2>12 DEF ShiftingRight
  <2>14. jtag_state' = "TRANSFER" => dap'.took = << >>
    BY <1>1, <1>3, <2>1, <2>2, <2>11, TapMoves, TmsOutIs DEF ShiftState, ShiftTap
  <2>15. jtagReq.dev \in Nat
    BY TmsOutIs, LensAre DEF ReqOK
  <2>16. Told'
    BY <1>2, <2>11, <2>14, <2>15, JtagConstants DEF Told, ShiftState
  <2>17. AtRest' /\ OpeningRight' /\ ResettingRight' /\ ClosingRight'
    BY <1>3, <2>11 DEF AtRest, OpeningRight, ResettingRight, ClosingRight, ShiftState, idle
  <2> QED
    BY <2>3, <2>13, <2>16, <2>17 DEF JtagInv
<1> QED
  BY <1>6, <1>7

\* What a device takes: the direction, the address, the word.
LEMMA TakenIs ==
  ASSUME ReqOK(jtagReq), jtagReq.cmd = "TFR"
  PROVE  Taken = <<jtagReq.rnw>> \o jtagReq.addr \o
                   IF jtagReq.rnw = 1 THEN [i \in 1 .. JtagBits |-> 1] ELSE jtagReq.dwrite
<1> DEFINE n == jtagReq.rnw
           a == jtagReq.addr
           w == IF n = 1 THEN [i \in 1 .. JtagBits |-> 1] ELSE jtagReq.dwrite
           head == <<n>> \o a
<1>1. JtagBits \in Nat
  BY JtagConstants
<1>2. <<n>> \in Seq(JtagBit) /\ Len(<<n>>) = 1 /\ <<n>>[1] = n
  BY DEF ReqOK
<1>3. a \in Seq(JtagBit) /\ Len(a) = 2
  <2>1. PICK x \in JtagBit, y \in JtagBit : a = <<x, y>>
    BY DEF ReqOK
  <2>2. <<x, y>> \in Seq(JtagBit) /\ Len(<<x, y>>) = 2
    OBVIOUS
  <2> QED
    BY <2>1, <2>2
<1>4. w \in [1 .. JtagBits -> JtagBit]
  BY DEF ReqOK, JtagWord, JtagBit
<1> HIDE DEF n, a, w
<1>5. w \in Seq(JtagBit) /\ Len(w) = JtagBits
  BY <1>1, <1>4
<1>6. /\ head \in Seq(JtagBit) /\ Len(head) = Len(<<n>>) + Len(a)
      /\ \A i \in 1 .. Len(<<n>>) + Len(a) : head[i] = IF i <= Len(<<n>>) THEN <<n>>[i] ELSE a[i - Len(<<n>>)]
  BY <1>2, <1>3, ConcatProperties
<1>7. Len(head) = 3 /\ head[1] = n /\ head[2] = a[1] /\ head[3] = a[2]
  BY <1>2, <1>3, <1>6
<1> HIDE DEF head
<1>8. /\ head \o w \in Seq(JtagBit) /\ Len(head \o w) = Len(head) + Len(w)
      /\ \A i \in 1 .. Len(head) + Len(w) : (head \o w)[i] = IF i <= Len(head) THEN head[i] ELSE w[i - Len(head)]
  <2>1. head \in Seq(JtagBit)
    BY <1>6
  <2> QED
    BY <1>5, <2>1, ConcatProperties
<1>9. head \o w = [i \in 1 .. Len(head \o w) |-> (head \o w)[i]]
  BY <1>8, LenProperties
<1>10. Len(head \o w) = JtagBits + 3
  BY <1>1, <1>5, <1>7, <1>8
<1>11. RegLen(jtagReq, jtagReq.dev) = JtagBits + 3 /\ jtagReq.dev \in Chained
  BY DEF RegLen, ReqOK
<1>12. ASSUME NEW j \in 1 .. JtagBits + 3
       PROVE  SentBits(jtagReq)[jtagReq.dev][j] = (head \o w)[j]
  <2>1. SentBits(jtagReq)[jtagReq.dev][j] =
          IF j = 1 THEN n ELSE IF j <= 3 THEN a[j - 1] ELSE IF n = 1 THEN 1 ELSE jtagReq.dwrite[j - 3]
    BY <1>11 DEF SentBits, n, a
  <2>2. (head \o w)[j] = IF j <= 3 THEN head[j] ELSE w[j - 3]
    BY <1>1, <1>5, <1>7, <1>8
  <2>3. j > 3 => w[j - 3] = IF n = 1 THEN 1 ELSE jtagReq.dwrite[j - 3]
    BY <1>1 DEF w
  <2> QED
    BY <1>1, <1>7, <2>1, <2>2, <2>3
<1>13. Taken = head \o w
  BY <1>9, <1>10, <1>12 DEF Taken
<1> QED
  BY <1>13 DEF head, n, a, w

\* On the way back from a transfer that was taken.
LEMMA TmsTaken ==
  ASSUME JtagInv, JtagRisingEdge, TmsOut, next_state = "IDLE", jtagReq.cmd = "TFR", jtagReq.answer = ACK_OK
  PROVE  JtagInv'
<1>1. /\ Where \in Closes("TFR") /\ TransferTold
      /\ IF tap = "EXIT_DR" THEN chain[jtagReq.dev] = Taken ELSE dap.took = Taken
  BY TmsOutIs DEF JtagInv, ClosingRight, On
<1>2. jtagReq' = jtagReq /\ tap' = TapNext(tap, tms) /\ jtagRising /\ jtagRising' = FALSE
  BY TapMoves, TmsOutIs
<1>3. Listening(jtagReq.dev)
  BY TmsOutIs DEF JtagInv, Prepared, idle
<1>4. tap \in {"EXIT_DR", "UPD_DR", "IDLE"} /\ tms = IF tap = "EXIT_DR" THEN 1 ELSE 0
  BY <1>1, TmsOutIs DEF Closes
<1>5. tap' = IF tap = "EXIT_DR" THEN "UPD_DR" ELSE "IDLE"
  BY <1>2, <1>4 DEF TapNext
<1>6. dap'.instr = dap.instr
  BY <1>5, TapMoves, TmsOutIs
<1>7. dap'.took = Taken
  BY <1>1, <1>3, <1>5, TapMoves, TmsOutIs DEF Listening
<1>8. TransferTold'
  BY <1>1, <1>2, TmsOutIs DEF TransferTold
<1>9. JtagTypes'
  BY <1>6, TmsOutTypes, TmsOutIs
<1>10. Taken' = Taken
  BY <1>2 DEF Taken
<1>11. Prepared'
  BY <1>2, <1>3, <1>6 DEF Prepared, Listening
<1>12. CASE tmsbits # << >>
  <2>1. Where' \in Closes("TFR")
    BY <1>1, <1>2, <1>12, OnLater, PathsAre, TmsOutIs
  <2>2. jtag_state' = "TMSOUT" /\ next_state' = "IDLE" /\ ~jtagGo' /\ tmsbits' # << >>
    BY <1>12, TmsOutIs
  <2>3. ClosingRight'
    BY <1>2, <1>5, <1>7, <1>8, <1>10, <2>1, <2>2 DEF ClosingRight, On
  <2> QED
    BY <1>2, <1>9, <1>11, <2>2, <2>3 DEF JtagInv, AtRest, OpeningRight, ResettingRight, ShiftingRight, Told, idle
<1>13. CASE tmsbits = << >>
  <2>1. jtag_state' = "IDLE" /\ ~jtagGo'
    BY <1>13, TmsOutIs
  <2>2. tap = "IDLE"
    BY <1>1, <1>13, TmsOutIs, PathsEnd DEF Ends
  <2>3. ACK_OK # ACK_WAIT
    BY DEF ACK_OK, ACK_WAIT
  <2>4. CommandRight'
    BY <1>2, <1>7, <1>8, <2>3, TakenIs, TmsOutIs DEF CommandRight, TransferTold
  <2>5. AtRest'
    BY <1>5, <2>1, <2>2, <2>4 DEF AtRest, idle
  <2> QED
    BY <1>2, <1>9, <1>11, <2>1, <2>5 DEF JtagInv, OpeningRight, ResettingRight, ShiftingRight, Told, ClosingRight
<1> QED
  BY <1>12, <1>13

\* On the way back from a transfer that broke off.
LEMMA TmsBroken ==
  ASSUME JtagInv, JtagRisingEdge, TmsOut, next_state = "IDLE", jtagReq.cmd = "TFR", jtagReq.answer # ACK_OK
  PROVE  JtagInv'
<1>1. Where \in Breaks /\ jtagAck = jtagReq.answer /\ dap.took = << >>
  BY TmsOutIs DEF JtagInv, ClosingRight, On
<1>2. jtagReq' = jtagReq /\ tap' = TapNext(tap, tms) /\ jtagRising /\ jtagRising' = FALSE
  BY TapMoves, TmsOutIs
<1>3. Listening(jtagReq.dev)
  BY TmsOutIs DEF JtagInv, Prepared, idle
<1>4. tap \in {"SHIFT_DR", "EXIT_DR", "UPD_DR"} /\ tms = IF tap = "UPD_DR" THEN 0 ELSE 1
  BY <1>1, TmsOutIs DEF Breaks
<1>5. tap' \in {"EXIT_DR", "UPD_DR", "IDLE"} /\ (tap = "UPD_DR" => tap' = "IDLE") /\ (tap' = "UPD_DR" => tap = "EXIT_DR")
  BY <1>2, <1>4 DEF TapNext
<1>6. dap'.instr = dap.instr /\ dap'.took = << >>
  BY <1>1, <1>5, TapMoves, TmsOutIs
<1>7. JtagTypes'
  BY <1>6, TmsOutTypes, TmsOutIs
<1>8. Prepared'
  BY <1>2, <1>3, <1>6 DEF Prepared, Listening
<1>9. jtagAck' = jtagReq'.answer /\ jtagReq'.answer # ACK_OK
  BY <1>1, <1>2, TmsOutIs
<1>10. CASE tmsbits # << >>
  <2>1. Where' \in Breaks
    BY <1>1, <1>2, <1>10, OnLater, PathsAre, TmsOutIs
  <2>2. jtag_state' = "TMSOUT" /\ next_state' = "IDLE" /\ ~jtagGo' /\ tmsbits' # << >>
    BY <1>10, TmsOutIs
  <2>3. ClosingRight'
    BY <1>2, <1>6, <1>9, <2>1, <2>2 DEF ClosingRight, On
  <2> QED
    BY <1>2, <1>7, <1>8, <2>2, <2>3 DEF JtagInv, AtRest, OpeningRight, ResettingRight, ShiftingRight, Told, idle
<1>11. CASE tmsbits = << >>
  <2>1. jtag_state' = "IDLE" /\ ~jtagGo'
    BY <1>11, TmsOutIs
  <2>2. tap = "UPD_DR"
    BY <1>1, <1>11, TmsOutIs, PathsEnd DEF Ends
  <2>3. CommandRight'
    BY <1>2, <1>6, <1>9 DEF CommandRight
  <2>4. AtRest'
    BY <1>5, <2>1, <2>2, <2>3 DEF AtRest, idle
  <2> QED
    BY <1>2, <1>7, <1>8, <2>1, <2>4 DEF JtagInv, OpeningRight, ResettingRight, ShiftingRight, Told, ClosingRight
<1> QED
  BY <1>10, <1>11

\* On the way back from the IDs.
LEMMA TmsIdTold ==
  ASSUME JtagInv, JtagRisingEdge, TmsOut, next_state = "IDLE", jtagReq.cmd = "READID"
  PROVE  JtagInv'
<1>1. Where \in Closes("READID") /\ jtagRead = IdOf(ndevs)
  BY TmsOutIs DEF JtagInv, ClosingRight, On
<1>2. jtagReq' = jtagReq /\ tap' = TapNext(tap, tms) /\ jtagRising /\ jtagRising' = FALSE
  BY TapMoves, TmsOutIs
<1>3. Showing
  BY TmsOutIs DEF JtagInv, Prepared, idle
<1>4. tap \in {"SHIFT_DR", "EXIT_DR", "UPD_DR"} /\ tms \in {0, 1} /\ (tap # "SHIFT_DR" => tms = IF tap = "UPD_DR" THEN 0 ELSE 1)
  BY <1>1, TmsOutIs DEF Closes, Breaks
<1>5. tap' \in {"SHIFT_DR", "EXIT_DR", "UPD_DR", "IDLE"} /\ (tap = "UPD_DR" => tap' = "IDLE")
  BY <1>2, <1>4 DEF TapNext
<1>6. dap'.instr = dap.instr
  BY <1>5, TapMoves, TmsOutIs
<1>7. JtagTypes'
  BY <1>6, TmsOutTypes, TmsOutIs
<1>8. Prepared'
  BY <1>2, <1>3, <1>6 DEF Prepared, Showing
<1>9. jtagRead' = IdOf(ndevs)
  BY <1>1, TmsOutIs
<1>10. CASE tmsbits # << >>
  <2>1. Where' \in Closes("READID")
    BY <1>1, <1>2, <1>10, OnLater, PathsAre, TmsOutIs
  <2>2. jtag_state' = "TMSOUT" /\ next_state' = "IDLE" /\ ~jtagGo' /\ tmsbits' # << >>
    BY <1>10, TmsOutIs
  <2>3. ClosingRight'
    BY <1>2, <1>9, <2>1, <2>2 DEF ClosingRight, On
  <2> QED
    BY <1>2, <1>7, <1>8, <2>2, <2>3 DEF JtagInv, AtRest, OpeningRight, ResettingRight, ShiftingRight, Told, idle
<1>11. CASE tmsbits = << >>
  <2>1. jtag_state' = "IDLE" /\ ~jtagGo'
    BY <1>11, TmsOutIs
  <2>2. tap = "UPD_DR"
    BY <1>1, <1>11, TmsOutIs, PathsEnd DEF Ends
  <2>3. CommandRight'
    BY <1>2, <1>9 DEF CommandRight
  <2>4. AtRest'
    BY <1>5, <2>1, <2>2, <2>3 DEF AtRest, idle
  <2> QED
    BY <1>2, <1>7, <1>8, <2>1, <2>4 DEF JtagInv, OpeningRight, ResettingRight, ShiftingRight, Told, ClosingRight
<1> QED
  BY <1>10, <1>11

\* On the way back from the instructions.
LEMMA TmsIrWritten ==
  ASSUME JtagInv, JtagRisingEdge, TmsOut, next_state = "IDLE", jtagReq.cmd = "IR"
  PROVE  JtagInv'
<1> DEFINE instr == [d \in Chained |-> IrOf(d, IF d = jtagReq.dev THEN jtagReq.ir ELSE BYPASS)]
<1>1. Where \in Closes("IR") /\ IF tap = "EXIT_IR" THEN chain = instr ELSE dap.instr = instr
  BY TmsOutIs DEF JtagInv, ClosingRight, On
<1>2. jtagReq' = jtagReq /\ tap' = TapNext(tap, tms) /\ jtagRising /\ jtagRising' = FALSE
  BY TapMoves, TmsOutIs
<1>3. tap \in {"EXIT_IR", "UPD_IR"} /\ tms = IF tap = "UPD_IR" THEN 0 ELSE 1
  BY <1>1, TmsOutIs DEF Closes
<1>4. tap' = IF tap = "EXIT_IR" THEN "UPD_IR" ELSE "IDLE"
  BY <1>2, <1>3 DEF TapNext
<1>5. dap'.instr = instr
  BY <1>1, <1>3, <1>4, TapMoves, TmsOutIs
<1>6. dap'.instr = [d \in Chained |-> dap'.instr[d]]
  BY <1>5
<1>7. JtagTypes'
  BY <1>6, TmsOutTypes, TmsOutIs
<1>8. Prepared'
  BY <1>2 DEF Prepared
<1>9. CASE tmsbits # << >>
  <2>1. Where' \in Closes("IR")
    BY <1>1, <1>2, <1>9, OnLater, PathsAre, TmsOutIs
  <2>2. jtag_state' = "TMSOUT" /\ next_state' = "IDLE" /\ ~jtagGo' /\ tmsbits' # << >>
    BY <1>9, TmsOutIs
  <2>3. ClosingRight'
    BY <1>2, <1>4, <1>5, <2>1, <2>2 DEF ClosingRight, On
  <2> QED
    BY <1>2, <1>7, <1>8, <2>2, <2>3 DEF JtagInv, AtRest, OpeningRight, ResettingRight, ShiftingRight, Told, idle
<1>10. CASE tmsbits = << >>
  <2>1. jtag_state' = "IDLE" /\ ~jtagGo'
    BY <1>10, TmsOutIs
  <2>2. tap = "UPD_IR"
    BY <1>1, <1>10, TmsOutIs, PathsEnd DEF Ends
  <2>3. CommandRight'
    BY <1>2, <1>5 DEF CommandRight
  <2>4. AtRest'
    BY <1>4, <2>1, <2>2, <2>3 DEF AtRest, idle
  <2> QED
    BY <1>2, <1>7, <1>8, <2>1, <2>4 DEF JtagInv, OpeningRight, ResettingRight, ShiftingRight, Told, ClosingRight
<1> QED
  BY <1>9, <1>10

\* A TMS bit keeps the invariant.
LEMMA TmsOutKeeps ==
  ASSUME JtagInv, JtagRisingEdge, TmsOut
  PROVE  JtagInv'
<1>1. jtagReq.cmd \in {"RESET", "IR", "READID", "TFR"}
  BY TmsOutIs DEF ReqOK
<1> QED
  BY <1>1, TmsOpens, TmsResets, TmsTaken, TmsBroken, TmsIdTold, TmsIrWritten

-----------------------------------------------------------------------------
\* A rising edge while registers are shifted.
LEMMA ShiftIs ==
  ASSUME JtagInv, JtagRisingEdge, jtag_state \in {"TRANSFER", "IDDATA", "WRITEIR"}
  PROVE  /\ jtagReq.cmd \in {"IR", "READID", "TFR"} /\ ReqOK(jtagReq) /\ jtag_state = ShiftState(jtagReq)
         /\ jtagRising' = FALSE /\ jtagGo = FALSE /\ jtagReq' = jtagReq /\ tms' = tms
         /\ devcount \in Chained /\ tdxcount \in 0 .. RegLen(jtagReq, devcount) - 1
         /\ tms = IF jtagReq.cmd # "READID" /\ devcount = ndevs /\ tdxcount + 1 = RegLen(jtagReq, devcount)
                  THEN 1 ELSE 0
         /\ tap' = IF tms = 0 THEN ShiftTap(jtagReq) ELSE IF jtagReq.cmd = "IR" THEN "EXIT_IR" ELSE "EXIT_DR"
         /\ dap' = [instr |-> dap'.instr, took |-> dap'.took] /\ dap'.instr = dap.instr /\ dap'.took = dap.took
         /\ tdo = Shown(jtagReq)[devcount][tdxcount + 1]
         /\ chain' = [d \in Chained |-> [i \in 1 .. RegLen(jtagReq, d) |-> chain'[d][i]]]
         /\ After(chain', Lens(jtagReq), ndevs, Offsets(Lens(jtagReq), ndevs + 1)[devcount] + tdxcount + 1,
                  Shown(jtagReq), SentBits(jtagReq))
<1>1. /\ jtagReq.cmd # "RESET" /\ jtag_state = ShiftState(jtagReq) /\ tap = ShiftTap(jtagReq)
      /\ devcount \in Chained /\ tdxcount \in 0 .. RegLen(jtagReq, devcount) - 1
      /\ chain = [d \in Chained |-> [i \in 1 .. RegLen(jtagReq, d) |-> chain[d][i]]]
      /\ After(chain, Lens(jtagReq), ndevs, Offsets(Lens(jtagReq), ndevs + 1)[devcount] + tdxcount,
               Shown(jtagReq), SentBits(jtagReq))
  BY DEF JtagInv, ShiftingRight
<1>2. jtagRising /\ jtagRising' = FALSE /\ UNCHANGED <<tdi, tms, jtagReq>> /\ tap' = TapNext(tap, tms)
  BY TapMoves
<1>3. tdi = SentBits(jtagReq)[devcount][tdxcount + 1]
  BY <1>2 DEF JtagInv, ShiftingRight
<1>4. tms = IF jtagReq.cmd # "READID" /\ devcount = ndevs /\ tdxcount + 1 = RegLen(jtagReq, devcount)
            THEN 1 ELSE 0
  BY <1>2 DEF JtagInv, ShiftingRight
<1>5. ReqOK(jtagReq) /\ jtagGo = FALSE /\ jtagReq.cmd \in {"IR", "READID", "TFR"}
  BY <1>1 DEF JtagInv, JtagTypes, AtRest, idle, ReqOK
<1>6. tap \in {"SHIFT_DR", "SHIFT_IR"} /\ (tap = "SHIFT_IR" <=> jtagReq.cmd = "IR")
  BY <1>1 DEF ShiftTap
<1>7. tap' = IF tms = 0 THEN ShiftTap(jtagReq) ELSE IF jtagReq.cmd = "IR" THEN "EXIT_IR" ELSE "EXIT_DR"
  BY <1>1, <1>2, <1>6 DEF TapNext
<1>8. tap' \in {"SHIFT_DR", "SHIFT_IR", "EXIT_DR", "EXIT_IR"}
  BY <1>1, <1>6, <1>7
<1>9. /\ dap' = [instr |-> dap'.instr, took |-> dap'.took] /\ dap'.instr = dap.instr /\ dap'.took = dap.took
      /\ chain' = Shifted
  BY <1>6, <1>8, TapMoves
<1>10. /\ Lengths(Lens(jtagReq), ndevs) /\ ndevs \in Nat /\ Chained = 0 .. ndevs
       /\ \A d \in Chained : Lens(jtagReq)[d] = RegLen(jtagReq, d) /\ RegLen(jtagReq, d) \in Nat /\ RegLen(jtagReq, d) >= 1
  BY <1>5, LensAre
<1>11. ASSUME NEW d \in Chained
       PROVE  /\ DOMAIN chain[d] = 1 .. RegLen(jtagReq, d) /\ Len(chain[d]) = RegLen(jtagReq, d)
              /\ Shifted[d] = [i \in 1 .. RegLen(jtagReq, d) |->
                   IF i < RegLen(jtagReq, d) THEN chain[d][i + 1]
                   ELSE IF d = ndevs THEN tdi ELSE chain[d + 1][1]]
  <2>1. chain[d] = [i \in 1 .. RegLen(jtagReq, d) |-> chain[d][i]]
    BY <1>1
  <2>2. DOMAIN chain[d] = 1 .. RegLen(jtagReq, d) /\ RegLen(jtagReq, d) \in Nat
    BY <1>10, <2>1
  <2>3. Len(chain[d]) = RegLen(jtagReq, d)
    BY <2>1, <2>2
  <2> QED
    BY <2>2, <2>3 DEF Shifted
<1>12. chain' = [d \in Chained |-> [i \in 1 .. RegLen(jtagReq, d) |-> chain'[d][i]]]
  <2>1. chain' = [d \in Chained |-> chain'[d]]
    BY <1>9 DEF Shifted
  <2>2. \A d \in Chained : chain'[d] = [i \in 1 .. RegLen(jtagReq, d) |-> chain'[d][i]]
    BY <1>9, <1>11
  <2> QED
    BY <2>1, <2>2
<1>13. Passed(chain, chain', Lens(jtagReq), ndevs, SentBits(jtagReq)[devcount][tdxcount + 1])
  <2>1. ASSUME NEW d \in Chained, NEW i \in 1 .. RegLen(jtagReq, d)
        PROVE  chain'[d][i] = IF i < RegLen(jtagReq, d) THEN chain[d][i + 1]
                              ELSE IF d = ndevs THEN tdi ELSE chain[d + 1][1]
    BY <1>9, <1>11
  <2>2. ASSUME NEW d \in 0 .. ndevs, NEW i \in 1 .. Lens(jtagReq)[d]
        PROVE  chain'[d][i] = IF i < Lens(jtagReq)[d] THEN chain[d][i + 1]
                 ELSE IF d = ndevs THEN SentBits(jtagReq)[devcount][tdxcount + 1] ELSE chain[d + 1][1]
    <3>1. d \in Chained /\ Lens(jtagReq)[d] = RegLen(jtagReq, d)
      BY <1>10
    <3> QED
      BY <1>3, <2>1, <3>1
  <2> QED
    BY <2>2 DEF Passed
<1>14. tdxcount \in Nat /\ tdxcount < Lens(jtagReq)[devcount]
  BY <1>1, <1>10
<1>15. /\ After(chain', Lens(jtagReq), ndevs, Offsets(Lens(jtagReq), ndevs + 1)[devcount] + tdxcount + 1,
                Shown(jtagReq), SentBits(jtagReq))
       /\ chain[0][1] = Shown(jtagReq)[devcount][tdxcount + 1]
  <2>1. devcount \in 0 .. ndevs
    BY <1>1, <1>10
  <2>2. Lengths(Lens(jtagReq), ndevs) /\ ndevs \in Nat
    BY <1>10
  <2>3. After(chain, Lens(jtagReq), ndevs, Offsets(Lens(jtagReq), ndevs + 1)[devcount] + tdxcount,
              Shown(jtagReq), SentBits(jtagReq))
    BY <1>1
  <2> QED
    <3> DEFINE L == Lens(jtagReq)
               bit == SentBits(jtagReq)[devcount][tdxcount + 1]
               n == Offsets(L, ndevs + 1)[devcount] + tdxcount
    <3>1. ShiftFacts(ndevs, L, chain, Shown(jtagReq), SentBits(jtagReq), chain', devcount, tdxcount, n, bit)
      BY <1>13, <1>14, <2>1, <2>2, <2>3 DEF ShiftFacts
    <3>2. After(chain', L, ndevs, n + 1, Shown(jtagReq), SentBits(jtagReq)) /\ chain[0][1] = Shown(jtagReq)[devcount][tdxcount + 1]
      <4> HIDE DEF L, n, bit
      <4> QED
        BY <3>1, AfterShift
    <3> QED
      BY <3>2
<1>16. tdo = Shown(jtagReq)[devcount][tdxcount + 1]
  BY <1>6, <1>15 DEF tdo
<1> QED
  BY <1>1, <1>2, <1>4, <1>5, <1>7, <1>9, <1>12, <1>15, <1>16

\* The next bit, or the first of the next device.
LEMMA ShiftGoesOn ==
  ASSUME JtagInv, JtagRisingEdge, jtag_state \in {"TRANSFER", "IDDATA", "WRITEIR"}, jtag_state' = jtag_state,
         \/ tdxcount + 1 # RegLen(jtagReq, devcount) /\ tdxcount' = tdxcount + 1 /\ devcount' = devcount
         \/ tdxcount + 1 = RegLen(jtagReq, devcount) /\ devcount # ndevs /\ tdxcount' = 0 /\ devcount' = devcount + 1
  PROVE  ShiftingRight'
<1>1. /\ jtagReq.cmd \in {"IR", "READID", "TFR"} /\ ReqOK(jtagReq) /\ jtag_state = ShiftState(jtagReq)
      /\ jtagRising' = FALSE /\ jtagReq' = jtagReq /\ tms' = tms
      /\ devcount \in Chained /\ tdxcount \in 0 .. RegLen(jtagReq, devcount) - 1
      /\ tms = IF jtagReq.cmd # "READID" /\ devcount = ndevs /\ tdxcount + 1 = RegLen(jtagReq, devcount)
               THEN 1 ELSE 0
      /\ tap' = IF tms = 0 THEN ShiftTap(jtagReq) ELSE IF jtagReq.cmd = "IR" THEN "EXIT_IR" ELSE "EXIT_DR"
      /\ chain' = [d \in Chained |-> [i \in 1 .. RegLen(jtagReq, d) |-> chain'[d][i]]]
      /\ After(chain', Lens(jtagReq), ndevs, Offsets(Lens(jtagReq), ndevs + 1)[devcount] + tdxcount + 1,
               Shown(jtagReq), SentBits(jtagReq))
  BY ShiftIs
<1>2. tms = 0 /\ tap' = ShiftTap(jtagReq)
  BY <1>1
<1>3. /\ Lengths(Lens(jtagReq), ndevs) /\ ndevs \in Nat /\ Chained = 0 .. ndevs
      /\ \A d \in Chained : Lens(jtagReq)[d] = RegLen(jtagReq, d) /\ RegLen(jtagReq, d) \in Nat /\ RegLen(jtagReq, d) >= 1
  BY <1>1, LensAre
<1>4. /\ devcount' \in Chained /\ tdxcount' \in 0 .. RegLen(jtagReq, devcount') - 1
      /\ After(chain', Lens(jtagReq), ndevs, Offsets(Lens(jtagReq), ndevs + 1)[devcount'] + tdxcount',
               Shown(jtagReq), SentBits(jtagReq))
  <2>1. CASE tdxcount + 1 # RegLen(jtagReq, devcount) /\ tdxcount' = tdxcount + 1 /\ devcount' = devcount
    <3>1. Offsets(Lens(jtagReq), ndevs + 1)[devcount] \in Nat
      <4>1. \A n \in 0 .. ndevs + 1 : Offsets(Lens(jtagReq), ndevs + 1)[n] \in Nat
        <5>1. Lengths(Lens(jtagReq), ndevs) /\ ndevs \in Nat
          BY <1>3
        <5> QED
          BY <5>1, OffsetsAre
      <4>2. devcount \in 0 .. ndevs + 1
        BY <1>1, <1>3
      <4> QED
        BY <4>1, <4>2
    <3>2. Offsets(Lens(jtagReq), ndevs + 1)[devcount] + tdxcount + 1
            = Offsets(Lens(jtagReq), ndevs + 1)[devcount'] + tdxcount'
      <4> DEFINE off == Offsets(Lens(jtagReq), ndevs + 1)
      <4>1. tdxcount \in Nat /\ off[devcount] \in Nat
        BY <1>1, <1>3, <3>1
      <4> HIDE DEF off
      <4>2. off[devcount] + tdxcount + 1 = off[devcount'] + tdxcount'
        BY <2>1, <4>1
      <4> QED
        BY <4>2 DEF off
    <3> QED
      BY <1>1, <1>3, <2>1, <3>2
  <2>2. CASE tdxcount + 1 = RegLen(jtagReq, devcount) /\ devcount # ndevs /\ tdxcount' = 0 /\ devcount' = devcount + 1
    <3>1. tdxcount \in Nat /\ tdxcount + 1 = Lens(jtagReq)[devcount] /\ devcount \in 0 .. ndevs
      BY <1>1, <1>3, <2>2
    <3>2. After(chain', Lens(jtagReq), ndevs, Offsets(Lens(jtagReq), ndevs + 1)[devcount + 1] + 0,
                Shown(jtagReq), SentBits(jtagReq))
      BY <1>1, <1>3, <2>2, <3>1, AfterDevice
    <3>3. devcount + 1 \in Chained /\ 0 \in 0 .. RegLen(jtagReq, devcount + 1) - 1
      BY <1>1, <1>3, <2>2
    <3> QED
      BY <2>2, <3>2, <3>3
  <2> QED
    BY <2>1, <2>2
<1> QED
  BY <1>1, <1>2, <1>4 DEF ShiftingRight

\* After the last bit of the last device each register holds what was sent to it.
LEMMA ShiftEnds ==
  ASSUME JtagInv, JtagRisingEdge, jtag_state \in {"TRANSFER", "IDDATA", "WRITEIR"},
         tdxcount + 1 = RegLen(jtagReq, devcount), devcount = ndevs
  PROVE  chain' = [d \in Chained |-> [i \in 1 .. RegLen(jtagReq, d) |-> SentBits(jtagReq)[d][i]]]
<1>1. /\ ReqOK(jtagReq) /\ devcount \in Chained /\ tdxcount \in 0 .. RegLen(jtagReq, devcount) - 1
      /\ chain' = [d \in Chained |-> [i \in 1 .. RegLen(jtagReq, d) |-> chain'[d][i]]]
      /\ After(chain', Lens(jtagReq), ndevs, Offsets(Lens(jtagReq), ndevs + 1)[devcount] + tdxcount + 1,
               Shown(jtagReq), SentBits(jtagReq))
  BY ShiftIs
<1>2. /\ Lengths(Lens(jtagReq), ndevs) /\ ndevs \in Nat /\ Chained = 0 .. ndevs
      /\ \A d \in Chained : Lens(jtagReq)[d] = RegLen(jtagReq, d) /\ RegLen(jtagReq, d) \in Nat /\ RegLen(jtagReq, d) >= 1
  BY <1>1, LensAre
<1>3. tdxcount \in Nat /\ tdxcount + 1 = Lens(jtagReq)[devcount] /\ devcount \in 0 .. ndevs
  BY <1>1, <1>2
<1>4. Holding(chain', Lens(jtagReq), ndevs, SentBits(jtagReq))
  BY <1>1, <1>2, <1>3, AfterDevice
<1>5. \A d \in Chained : \A i \in 1 .. RegLen(jtagReq, d) : chain'[d][i] = SentBits(jtagReq)[d][i]
  BY <1>2, <1>4 DEF Holding
<1> QED
  BY <1>1, <1>5

\* A bit of the instructions.
LEMMA WriteIrKeeps ==
  ASSUME JtagInv, JtagRisingEdge, WriteIr
  PROVE  JtagInv'
<1>1. jtag_state = "WRITEIR" /\ UNCHANGED <<jtagAck, jtagRead, jtagGo>>
  BY DEF WriteIr
<1>2. /\ jtagReq.cmd = "IR" /\ ReqOK(jtagReq) /\ jtagRising' = FALSE /\ jtagGo = FALSE /\ jtagReq' = jtagReq
      /\ devcount \in Chained /\ tdxcount \in 0 .. RegLen(jtagReq, devcount) - 1
      /\ tms = (IF devcount = ndevs /\ tdxcount + 1 = RegLen(jtagReq, devcount) THEN 1 ELSE 0)
      /\ tap' = (IF tms = 0 THEN "SHIFT_IR" ELSE "EXIT_IR")
      /\ dap' = [instr |-> dap'.instr, took |-> dap'.took] /\ dap'.instr = dap.instr
  BY <1>1, ShiftIs DEF ShiftState, ShiftTap
<1>3. \A d \in Chained : RegLen(jtagReq, d) = IrLen(d)
  BY <1>2 DEF RegLen
<1>4. LastIr <=> tdxcount + 1 = RegLen(jtagReq, devcount)
  BY <1>2, <1>3 DEF LastIr
<1>5. Prepared'
  BY <1>2 DEF Prepared
<1>6. ASSUME jtag_state' \in {"WRITEIR", "TMSOUT"} PROVE JtagTypes' /\ ResettingRight' /\ AtRest'
  <2>1. JtagTypes'
    BY <1>1, <1>2, <1>6 DEF JtagInv, JtagTypes
  <2>2. ResettingRight' /\ AtRest'
    BY <1>1, <1>2, <1>6 DEF ResettingRight, AtRest, idle
  <2> QED
    BY <2>1, <2>2
<1>7. CASE LastIr /\ devcount = ndevs
  <2>1. jtag_state' = "TMSOUT" /\ tmsbits' = <<1, 0>> /\ next_state' = "IDLE"
    BY <1>7 DEF WriteIr, DeviceDone
  <2>2. tap' = "EXIT_IR"
    BY <1>2, <1>4, <1>7
  <2>3. Where' = <<"EXIT_IR", 1, <<0>>>> /\ tmsbits' # << >>
    BY <1>2, <2>1, <2>2, TmsBits DEF Where
  <2>4. On(Closes("IR"))'
    BY <2>3, PathsList DEF On
  <2>5. chain' = [d \in Chained |-> [i \in 1 .. RegLen(jtagReq, d) |-> SentBits(jtagReq)[d][i]]]
    BY <1>1, <1>4, <1>7, ShiftEnds
  <2>6. ASSUME NEW d \in Chained
        PROVE  [i \in 1 .. RegLen(jtagReq, d) |-> SentBits(jtagReq)[d][i]]
                 = IrOf(d, IF d = jtagReq.dev THEN jtagReq.ir ELSE BYPASS)
    <3>1. \A i \in 1 .. IrLen(d) : SentBits(jtagReq)[d][i] = IF d = jtagReq.dev THEN jtagReq.ir[i] ELSE 1
      BY <1>2, <1>3 DEF SentBits
    <3>2. jtagReq.ir \in {APACC, DPACC}
      BY <1>2 DEF ReqOK
    <3>3. CASE d = jtagReq.dev
      <4>1. IrOf(d, jtagReq.ir) = [i \in 1 .. IrLen(d) |-> jtagReq.ir[i]]
        BY <3>2, InstructionsAre, ZenonT(60)
      <4> QED
        BY <1>3, <3>1, <3>3, <4>1
    <3>4. CASE d # jtagReq.dev
      <4>1. IrOf(d, BYPASS) = [i \in 1 .. IrLen(d) |-> BYPASS[i]] /\ \A i \in 1 .. IrLen(d) : BYPASS[i] = 1
        BY InstructionsAre
      <4> QED
        BY <1>3, <3>1, <3>4, <4>1
    <3> QED
      BY <3>3, <3>4
  <2>7. chain' = [d \in Chained |-> IrOf(d, IF d = jtagReq.dev THEN jtagReq.ir ELSE BYPASS)]
    BY <2>5, <2>6
  <2>8. ClosingRight'
    BY <1>2, <2>1, <2>2, <2>4, <2>7 DEF ClosingRight
  <2> QED
    BY <1>2, <1>5, <1>6, <2>1, <2>8 DEF JtagInv, OpeningRight, ShiftingRight, Told
<1>8. CASE ~(LastIr /\ devcount = ndevs)
  <2>1. /\ jtag_state' = "WRITEIR"
        /\ IF LastIr THEN tdxcount' = 0 /\ devcount' = devcount + 1 ELSE tdxcount' = tdxcount + 1 /\ devcount' = devcount
    BY <1>1, <1>8 DEF WriteIr, DeviceDone, MoreBits
  <2>2. ShiftingRight'
    BY <1>1, <1>4, <1>8, <2>1, ShiftGoesOn
  <2>3. Told' /\ OpeningRight' /\ ClosingRight'
    BY <2>1 DEF Told, OpeningRight, ClosingRight
  <2> QED
    BY <1>5, <1>6, <2>1, <2>2, <2>3 DEF JtagInv
<1> QED
  BY <1>7, <1>8

\* A bit of the IDs.
LEMMA IdDataKeeps ==
  ASSUME JtagInv, JtagRisingEdge, IdData
  PROVE  JtagInv'
<1>1. /\ jtag_state = "IDDATA" /\ jtagRead' = [jtagRead EXCEPT ![tdxcount + 1] = tdo] /\ UNCHANGED <<jtagAck, jtagGo>>
  BY DEF IdData
<1>2. /\ jtagReq.cmd = "READID" /\ ReqOK(jtagReq) /\ jtagRising' = FALSE /\ jtagGo = FALSE /\ jtagReq' = jtagReq
      /\ tms' = tms /\ devcount \in Chained /\ tdxcount \in 0 .. RegLen(jtagReq, devcount) - 1
      /\ tms = 0 /\ tap' = "SHIFT_DR"
      /\ dap' = [instr |-> dap'.instr, took |-> dap'.took] /\ dap'.instr = dap.instr
      /\ tdo = Shown(jtagReq)[devcount][tdxcount + 1]
  BY <1>1, ShiftIs DEF ShiftState, ShiftTap
<1>3. \A d \in Chained : RegLen(jtagReq, d) = JtagBits
  BY <1>2 DEF RegLen
<1>4. JtagBits \in Nat /\ JtagBits >= 1 /\ tdxcount \in 0 .. JtagBits - 1 /\ tdxcount + 1 \in 1 .. JtagBits
  BY <1>2, <1>3, JtagConstants
<1>5. Showing
  BY <1>1 DEF JtagInv, Prepared, idle, ShiftingRight, ShiftState
<1>6. Prepared'
  BY <1>2, <1>5 DEF Prepared, Showing
<1>7. /\ jtagRead' = [i \in 1 .. JtagBits |-> jtagRead'[i]]
      /\ jtagRead'[tdxcount + 1] = IdOf(devcount)[tdxcount + 1]
      /\ \A i \in 1 .. JtagBits : i # tdxcount + 1 => jtagRead'[i] = jtagRead[i]
  <2>1. jtagRead = [i \in 1 .. JtagBits |-> jtagRead[i]]
    BY DEF JtagInv, JtagTypes
  <2>2. tdo = IdOf(devcount)[tdxcount + 1]
    BY <1>2, <1>3, <1>4 DEF Shown
  <2> QED
    BY <1>1, <1>4, <2>1, <2>2
<1>8. \A i \in 1 .. JtagBits : i <= tdxcount => jtagRead[i] = IdOf(devcount)[i]
  BY <1>1 DEF JtagInv, Told
<1>9. \A i \in 1 .. JtagBits : i <= tdxcount + 1 => jtagRead'[i] = IdOf(devcount)[i]
  BY <1>4, <1>7, <1>8
<1>10. ASSUME jtag_state' \in {"IDDATA", "READID_DONE"}
       PROVE  JtagTypes' /\ ResettingRight' /\ AtRest' /\ OpeningRight' /\ ClosingRight'
  <2>1. JtagTypes'
    BY <1>1, <1>2, <1>7, <1>10 DEF JtagInv, JtagTypes
  <2>2. ResettingRight' /\ AtRest' /\ OpeningRight' /\ ClosingRight'
    BY <1>1, <1>2, <1>10 DEF ResettingRight, AtRest, OpeningRight, ClosingRight, idle
  <2> QED
    BY <2>1, <2>2
<1>11. CASE tdxcount = JtagBits - 1 /\ devcount = ndevs
  <2>1. jtag_state' = "READID_DONE"
    BY <1>11 DEF IdData
  <2>2. IdOf(ndevs) = [i \in 1 .. JtagBits |-> IdOf(ndevs)[i]]
    BY DEF IdOf
  <2>3. jtagRead' = IdOf(ndevs)
    BY <1>4, <1>7, <1>9, <1>11, <2>2
  <2>4. Told'
    BY <1>2, <2>1, <2>3 DEF Told
  <2> QED
    BY <1>6, <1>10, <2>1, <2>4 DEF JtagInv, ShiftingRight
<1>12. CASE ~(tdxcount = JtagBits - 1 /\ devcount = ndevs)
  <2>1. /\ jtag_state' = "IDDATA"
        /\ IF tdxcount = JtagBits - 1 THEN tdxcount' = 0 /\ devcount' = devcount + 1
           ELSE tdxcount' = tdxcount + 1 /\ devcount' = devcount
    BY <1>1, <1>12 DEF IdData, DeviceDone, MoreBits
  <2>2. tdxcount = JtagBits - 1 <=> tdxcount + 1 = RegLen(jtagReq, devcount)
    BY <1>2, <1>3, <1>4
  <2>3. ShiftingRight'
    BY <1>1, <1>12, <2>1, <2>2, ShiftGoesOn
  <2>4. \A i \in 1 .. JtagBits : i <= tdxcount' => jtagRead'[i] = IdOf(devcount')[i]
    BY <1>4, <1>9, <2>1
  <2>5. Told'
    BY <2>1, <2>4 DEF Told
  <2> QED
    BY <1>6, <1>10, <2>1, <2>3, <2>5 DEF JtagInv
<1> QED
  BY <1>11, <1>12

\* A bit of the transfer.
LEMMA TransferKeeps ==
  ASSUME JtagInv, JtagRisingEdge, Transfer
  PROVE  JtagInv'
<1> DEFINE dev == jtagReq.dev
<1>1. /\ jtag_state = "TRANSFER" /\ UNCHANGED jtagGo
      /\ jtagAck' = IF tdxcount < 3 THEN [jtagAck EXCEPT ![tdxcount + 1] = tdo] ELSE jtagAck
      /\ jtagRead' = IF tdxcount < 3 THEN jtagRead ELSE [jtagRead EXCEPT ![tdxcount - 2] = tdo]
  BY DEF Transfer
<1>2. /\ jtagReq.cmd = "TFR" /\ ReqOK(jtagReq) /\ jtagRising' = FALSE /\ jtagGo = FALSE /\ jtagReq' = jtagReq
      /\ tms' = tms /\ devcount \in Chained /\ tdxcount \in 0 .. RegLen(jtagReq, devcount) - 1
      /\ tms = (IF devcount = ndevs /\ tdxcount + 1 = RegLen(jtagReq, devcount) THEN 1 ELSE 0)
      /\ tap' = (IF tms = 0 THEN "SHIFT_DR" ELSE "EXIT_DR")
      /\ dap' = [instr |-> dap'.instr, took |-> dap'.took] /\ dap'.instr = dap.instr /\ dap'.took = dap.took
      /\ tdo = Shown(jtagReq)[devcount][tdxcount + 1]
  BY <1>1, ShiftIs DEF ShiftState, ShiftTap
<1>3. /\ JtagBits \in Nat /\ JtagBits >= 1 /\ ndevs \in Nat /\ devcount \in Nat /\ dev \in Nat
      /\ RegLen(jtagReq, devcount) = IF devcount = dev THEN JtagBits + 3 ELSE 1
  BY <1>2, JtagConstants DEF RegLen, Chained, ReqOK
<1>4. tdxcount \in Nat /\ IF devcount = dev THEN tdxcount <= JtagBits + 2 ELSE tdxcount = 0
  BY <1>2, <1>3
<1>5. /\ dap.took = << >>
      /\ devcount = dev =>
           /\ \A i \in 1 .. 3 : i <= tdxcount => jtagAck[i] = jtagReq.answer[i]
           /\ \A i \in 1 .. JtagBits : i + 3 <= tdxcount => jtagRead[i] = jtagReq.sent[i]
           /\ tdxcount >= 3 => jtagReq.answer = ACK_OK
      /\ devcount > dev => TransferTold /\ jtagReq.answer = ACK_OK
  BY <1>1 DEF JtagInv, Told
<1>6. jtagAck = [i \in 1 .. 3 |-> jtagAck[i]] /\ jtagRead = [i \in 1 .. JtagBits |-> jtagRead[i]]
  BY DEF JtagInv, JtagTypes
<1>7. tdo = IF devcount = dev THEN IF tdxcount < 3 THEN jtagReq.answer[tdxcount + 1] ELSE jtagReq.sent[tdxcount - 2]
            ELSE 0
  BY <1>2, <1>3, <1>4, SMTT(30) DEF Shown
<1>8. jtagAck' = [i \in 1 .. 3 |-> jtagAck'[i]] /\ jtagRead' = [i \in 1 .. JtagBits |-> jtagRead'[i]]
  BY <1>1, <1>6
<1>9. /\ jtagReq.answer \in {ACK_OK, ACK_WAIT}
      /\ jtagReq.answer = [i \in 1 .. 3 |-> jtagReq.answer[i]]
      /\ jtagReq.sent = [i \in 1 .. JtagBits |-> jtagReq.sent[i]]
      /\ ACK_OK[1] = 0 /\ ACK_OK # ACK_WAIT
  <2>1. jtagReq.answer \in {ACK_OK, ACK_WAIT} /\ jtagReq.sent \in [1 .. JtagBits -> JtagBit]
    BY <1>2 DEF ReqOK, JtagWord
  <2>2. ACK_OK = [i \in 1 .. 3 |-> ACK_OK[i]] /\ ACK_WAIT = [i \in 1 .. 3 |-> ACK_WAIT[i]]
    BY DEF ACK_OK, ACK_WAIT
  <2>3. ACK_OK[1] = 0 /\ ACK_OK # ACK_WAIT
    BY DEF ACK_OK, ACK_WAIT
  <2> QED
    BY <2>1, <2>2, <2>3
<1>10. ASSUME devcount = dev
       PROVE  /\ \A i \in 1 .. 3 : i <= tdxcount + 1 => jtagAck'[i] = jtagReq.answer[i]
              /\ \A i \in 1 .. JtagBits : i + 3 <= tdxcount + 1 => jtagRead'[i] = jtagReq.sent[i]
  <2>1. CASE tdxcount < 3
    BY <1>1, <1>4, <1>5, <1>6, <1>7, <1>10, <2>1
  <2>2. CASE tdxcount >= 3
    BY <1>1, <1>3, <1>4, <1>5, <1>6, <1>7, <1>10, <2>2, SMTT(30)
  <2> QED
    BY <1>4, <2>1, <2>2
<1>11. ASSUME devcount > dev PROVE TransferTold'
  <2>1. jtagAck' = jtagAck
    <3>1. jtagAck[1] = 0 /\ tdxcount = 0 /\ tdo = 0
      BY <1>3, <1>4, <1>5, <1>7, <1>9, <1>11 DEF TransferTold
    <3>2. jtagAck' = [jtagAck EXCEPT ![1] = 0]
      BY <1>1, <3>1
    <3> QED
      BY <1>6, <3>1, <3>2
  <2>2. jtagRead' = jtagRead
    BY <1>1, <1>3, <1>4, <1>11
  <2> QED
    BY <1>2, <1>5, <1>11, <2>1, <2>2 DEF TransferTold
<1>12. Listening(dev)
  BY <1>1, <1>2 DEF JtagInv, Prepared, idle
<1>13. Prepared'
  BY <1>2, <1>12 DEF Prepared, Listening
<1>14. ASSUME jtag_state' \in {"TRANSFER", "TMSOUT"} PROVE JtagTypes' /\ ResettingRight' /\ AtRest'
  <2>1. JtagTypes'
    BY <1>1, <1>2, <1>8, <1>14 DEF JtagInv, JtagTypes
  <2>2. ResettingRight' /\ AtRest'
    BY <1>1, <1>2, <1>14 DEF ResettingRight, AtRest, idle
  <2> QED
    BY <2>1, <2>2
<1>15. LastTdx <=> tdxcount + 1 = RegLen(jtagReq, devcount)
  BY <1>3, <1>4 DEF LastTdx
<1>16. ASSUME devcount = dev, tdxcount >= 2 PROVE jtagAck' = jtagReq.answer
  BY <1>4, <1>8, <1>9, <1>10, <1>16
<1>17. CASE tdxcount = 2 /\ jtagAck' # ACK_OK
  <2>1. jtag_state' = "TMSOUT" /\ tmsbits' = <<1, 1, 0>> /\ next_state' = "IDLE"
    <3>1. ~LastTdx
      BY <1>3, <1>4, <1>15, <1>17
    <3> QED
      BY <1>17, <3>1 DEF Transfer, TransferAbort
  <2>2. devcount = dev /\ jtagAck' = jtagReq.answer
    BY <1>4, <1>16, <1>17
  <2>3. tap' = "SHIFT_DR"
    BY <1>2, <1>3, <1>17, <2>2
  <2>4. Where' = <<"SHIFT_DR", 1, <<1, 0>>>> /\ tmsbits' # << >>
    BY <1>2, <2>1, <2>3, TmsBits DEF Where
  <2>5. On(Breaks)'
    BY <2>4, PathsList DEF On
  <2>6. ClosingRight'
    BY <1>2, <1>5, <1>17, <2>1, <2>2, <2>5 DEF ClosingRight
  <2> QED
    BY <1>2, <1>13, <1>14, <2>1, <2>6 DEF JtagInv, OpeningRight, ShiftingRight, Told
<1>18. CASE ~(tdxcount = 2 /\ jtagAck' # ACK_OK) /\ LastTdx /\ devcount = ndevs
  <2>1. jtag_state' = "TMSOUT" /\ tmsbits' = <<1, 0, 0>> /\ next_state' = "IDLE"
    BY <1>18 DEF Transfer, DeviceDone
  <2>2. tap' = "EXIT_DR"
    BY <1>2, <1>15, <1>18
  <2>3. Where' = <<"EXIT_DR", 1, <<0, 0>>>> /\ tmsbits' # << >>
    BY <1>2, <2>1, <2>2, TmsBits DEF Where
  <2>4. On(Closes("TFR"))'
    BY <2>3, PathsList DEF On
  <2>5. chain' = [d \in Chained |-> [i \in 1 .. RegLen(jtagReq, d) |-> SentBits(jtagReq)[d][i]]]
    BY <1>1, <1>15, <1>18, ShiftEnds
  <2>6. chain'[dev] = Taken'
    <3>1. dev \in Chained /\ RegLen(jtagReq, dev) = JtagBits + 3
      BY <1>2 DEF ReqOK, RegLen
    <3> QED
      BY <1>2, <2>5, <3>1 DEF Taken
  <2>7. TransferTold' /\ jtagReq.answer = ACK_OK
    <3>1. CASE devcount = dev
      <4>1. tdxcount = JtagBits + 2
        BY <1>3, <1>4, <1>15, <1>18, <3>1
      <4>2. jtagAck' = jtagReq.answer /\ jtagReq.answer = ACK_OK
        BY <1>3, <1>5, <1>16, <3>1, <4>1
      <4>3. jtagRead' = jtagReq.sent
        BY <1>3, <1>8, <1>9, <1>10, <3>1, <4>1
      <4> QED
        BY <1>2, <4>2, <4>3 DEF TransferTold
    <3>2. CASE devcount # dev
      <4>1. devcount > dev
        BY <1>2, <1>3, <1>18, <3>2 DEF ReqOK, Chained
      <4> QED
        BY <1>5, <1>11, <4>1
    <3> QED
      BY <3>1, <3>2
  <2>8. ClosingRight'
    BY <1>2, <2>1, <2>2, <2>4, <2>6, <2>7 DEF ClosingRight
  <2> QED
    BY <1>2, <1>13, <1>14, <2>1, <2>8 DEF JtagInv, OpeningRight, ShiftingRight, Told
<1>19. CASE ~(tdxcount = 2 /\ jtagAck' # ACK_OK) /\ ~(LastTdx /\ devcount = ndevs)
  <2>1. /\ jtag_state' = "TRANSFER"
        /\ IF LastTdx THEN tdxcount' = 0 /\ devcount' = devcount + 1 ELSE tdxcount' = tdxcount + 1 /\ devcount' = devcount
    BY <1>1, <1>19 DEF Transfer, DeviceDone, MoreBits
  <2>2. ShiftingRight'
    BY <1>1, <1>15, <1>19, <2>1, ShiftGoesOn
  <2>3. ASSUME devcount' = dev
        PROVE  /\ \A i \in 1 .. 3 : i <= tdxcount' => jtagAck'[i] = jtagReq.answer[i]
               /\ \A i \in 1 .. JtagBits : i + 3 <= tdxcount' => jtagRead'[i] = jtagReq.sent[i]
               /\ tdxcount' >= 3 => jtagReq.answer = ACK_OK
    <3>1. CASE LastTdx
      BY <1>3, <2>1, <3>1
    <3>2. CASE ~LastTdx
      <4>1. devcount = dev /\ tdxcount' = tdxcount + 1
        BY <2>1, <2>3, <3>2
      <4>2. tdxcount = 2 => jtagReq.answer = ACK_OK
        BY <1>4, <1>16, <1>19, <4>1
      <4> QED
        BY <1>4, <1>5, <1>10, <4>1, <4>2
    <3> QED
      BY <3>1, <3>2
  <2>4. ASSUME devcount' > dev PROVE TransferTold' /\ jtagReq.answer = ACK_OK
    <3>1. CASE devcount = dev
      <4>1. tdxcount = JtagBits + 2
        BY <1>3, <1>4, <1>15, <2>1, <2>4, <3>1
      <4>2. jtagAck' = jtagReq.answer /\ jtagReq.answer = ACK_OK
        BY <1>3, <1>5, <1>16, <3>1, <4>1
      <4>3. jtagRead' = jtagReq.sent
        BY <1>3, <1>8, <1>9, <1>10, <3>1, <4>1
      <4> QED
        BY <1>2, <4>2, <4>3 DEF TransferTold
    <3>2. CASE devcount # dev
      <4>1. devcount > dev
        BY <1>3, <2>1, <2>4, <3>2
      <4> QED
        BY <1>5, <1>11, <4>1
    <3> QED
      BY <3>1, <3>2
  <2>5. Told'
    BY <1>2, <1>5, <2>1, <2>3, <2>4 DEF Told
  <2>6. OpeningRight' /\ ClosingRight'
    BY <2>1 DEF OpeningRight, ClosingRight
  <2> QED
    BY <1>13, <1>14, <2>1, <2>2, <2>5, <2>6 DEF JtagInv
<1> QED
  BY <1>17, <1>18, <1>19

-----------------------------------------------------------------------------
\* A falling edge sets TDI and TMS for the bit that comes.
LEMMA FallingShift ==
  ASSUME JtagInv, JtagFallingEdge, jtag_state \in {"TRANSFER", "IDDATA", "WRITEIR"}
  PROVE  ShiftingRight' /\ Told' /\ UNCHANGED jtag_state
<1>1. /\ jtagReq.cmd # "RESET" /\ jtag_state = ShiftState(jtagReq) /\ tap = ShiftTap(jtagReq)
      /\ devcount \in Chained /\ tdxcount \in 0 .. RegLen(jtagReq, devcount) - 1
      /\ chain = [d \in Chained |-> [i \in 1 .. RegLen(jtagReq, d) |-> chain[d][i]]]
      /\ After(chain, Lens(jtagReq), ndevs, Offsets(Lens(jtagReq), ndevs + 1)[devcount] + tdxcount,
               Shown(jtagReq), SentBits(jtagReq))
      /\ ReqOK(jtagReq)
  BY DEF JtagInv, ShiftingRight, JtagTypes
<1>2. /\ jtagRising = FALSE /\ jtagRising' = TRUE /\ tdi' = TdiNext /\ tms' = TmsNext /\ UNCHANGED jtag_state
      /\ UNCHANGED <<tdxcount, devcount, jtagAck, jtagRead, jtagReq, tap, chain, dap>>
  BY DEF JtagFallingEdge, JtagInv, JtagTypes
<1>3. tms = 0
  BY <1>2 DEF JtagInv, ShiftingRight
<1>4. /\ jtagReq.cmd \in {"IR", "READID", "TFR"}
      /\ jtag_state = "TRANSFER" <=> jtagReq.cmd = "TFR"
      /\ jtag_state = "IDDATA" <=> jtagReq.cmd = "READID"
      /\ jtag_state = "WRITEIR" <=> jtagReq.cmd = "IR"
  BY <1>1 DEF ReqOK, ShiftState
<1>5. /\ RegLen(jtagReq, devcount) \in Nat /\ tdxcount \in Nat /\ tdxcount + 1 \in 1 .. RegLen(jtagReq, devcount)
      /\ JtagBits \in Nat
  <2>1. RegLen(jtagReq, devcount) \in Nat /\ JtagBits \in Nat
    BY <1>1, LensAre, JtagConstants
  <2> QED
    BY <1>1, <2>1
<1>6. tdi' = SentBits(jtagReq)[devcount][tdxcount + 1]
  <2> DEFINE j == tdxcount + 1
  <2>1. CASE jtagReq.cmd = "IR"
    <3>1. SentBits(jtagReq)[devcount][j] = IF devcount = jtagReq.dev THEN jtagReq.ir[j] ELSE 1
      BY <1>1, <1>5, <2>1 DEF SentBits
    <3>2. jtag_state = "WRITEIR"
      BY <1>4, <2>1
    <3> QED
      BY <1>2, <3>1, <3>2 DEF TdiNext
  <2>2. CASE jtagReq.cmd = "READID"
    <3>1. SentBits(jtagReq)[devcount][j] = IF devcount = jtagReq.dev /\ jtagReq.rnw = 0 THEN jtagReq.dwrite[j] ELSE 0
      BY <1>1, <1>5, <2>2 DEF SentBits
    <3>2. jtag_state = "IDDATA"
      BY <1>4, <2>2
    <3> QED
      BY <1>2, <3>1, <3>2 DEF TdiNext
  <2>3. CASE jtagReq.cmd = "TFR"
    <3>1. SentBits(jtagReq)[devcount][j] =
            IF devcount # jtagReq.dev THEN 1
            ELSE IF j = 1 THEN jtagReq.rnw
            ELSE IF j <= 3 THEN jtagReq.addr[j - 1]
            ELSE IF jtagReq.rnw = 1 THEN 1 ELSE jtagReq.dwrite[j - 3]
      BY <1>1, <1>5, <2>3 DEF SentBits
    <3>2. jtag_state = "TRANSFER"
      BY <1>4, <2>3
    <3>3. tdi' = IF devcount # jtagReq.dev THEN 1
                 ELSE IF tdxcount = 0 THEN jtagReq.rnw
                 ELSE IF tdxcount < 3 THEN jtagReq.addr[tdxcount]
                 ELSE IF jtagReq.rnw = 1 THEN 1 ELSE jtagReq.dwrite[tdxcount - 2]
      BY <1>2, <3>2 DEF TdiNext
    <3>4. (j = 1 <=> tdxcount = 0) /\ (j <= 3 <=> tdxcount < 3) /\ j - 1 = tdxcount /\ j - 3 = tdxcount - 2
      BY <1>5
    <3> QED
      BY <3>1, <3>3, <3>4
  <2> QED
    BY <1>4, <2>1, <2>2, <2>3
<1>7. tms' = IF jtagReq.cmd # "READID" /\ devcount = ndevs /\ tdxcount + 1 = RegLen(jtagReq, devcount) THEN 1 ELSE 0
  <2>1. CASE jtagReq.cmd = "TFR"
    <3>1. LastTdx <=> tdxcount + 1 = RegLen(jtagReq, devcount)
      BY <1>5, <2>1 DEF LastTdx, RegLen
    <3> QED
      BY <1>2, <1>3, <1>4, <2>1, <3>1 DEF TmsNext
  <2>2. CASE jtagReq.cmd = "IR"
    <3>1. LastIr <=> tdxcount + 1 = RegLen(jtagReq, devcount)
      BY <2>2 DEF LastIr, RegLen
    <3> QED
      BY <1>2, <1>3, <1>4, <2>2, <3>1 DEF TmsNext
  <2>3. CASE jtagReq.cmd = "READID"
    BY <1>2, <1>3, <1>4, <2>3 DEF TmsNext
  <2> QED
    BY <1>4, <2>1, <2>2, <2>3
<1>8. ShiftingRight'
  BY <1>1, <1>2, <1>6, <1>7 DEF ShiftingRight
<1>9. Told'
  BY <1>2 DEF JtagInv, Told, TransferTold
<1> QED
  BY <1>2, <1>8, <1>9

\* A falling edge keeps the invariant.
LEMMA JtagFallingKeeps ==
  ASSUME JtagInv, JtagFallingEdge
  PROVE  JtagInv'
<1>1. /\ jtagRising = FALSE /\ jtagRising' = TRUE /\ tdi' = TdiNext /\ tms' = TmsNext
      /\ UNCHANGED <<tdxcount, devcount, jtagAck, jtagRead, jtagGo, jtagReq, tap, chain, dap>>
      /\ IF jtag_state = "READID_DONE"
         THEN jtag_state' = "TMSOUT" /\ tmsbits' = <<1, 1, 0>> /\ next_state' = "IDLE"
         ELSE /\ tmsbits' = (IF jtag_state = "TMSOUT" /\ tmsbits # << >> THEN Tail(tmsbits) ELSE tmsbits)
              /\ UNCHANGED <<jtag_state, next_state>>
  BY DEF JtagFallingEdge, JtagInv, JtagTypes
<1>2. jtag_state \in {"IDLE", "TMSOUT", "TRANSFER", "IDDATA", "WRITEIR", "READID_DONE"}
  BY DEF JtagInv, JtagTypes
<1>3. JtagTypes'
  BY <1>1, <1>2 DEF JtagInv, JtagTypes
<1>4. jtag_state' = "IDLE" <=> jtag_state = "IDLE"
  BY <1>1
<1>5. Prepared'
  BY <1>1, <1>4 DEF JtagInv, Prepared, Listening, Showing, idle
<1>6. AtRest'
  BY <1>1, <1>4 DEF JtagInv, AtRest, CommandRight, Showing, idle
<1>7. CASE jtag_state \in {"TRANSFER", "IDDATA", "WRITEIR"}
  <2>1. ShiftingRight' /\ Told' /\ jtag_state' = jtag_state
    BY <1>7, FallingShift
  <2>2. OpeningRight' /\ ResettingRight' /\ ClosingRight'
    BY <1>7, <2>1 DEF OpeningRight, ResettingRight, ClosingRight
  <2> QED
    BY <1>3, <1>5, <1>6, <2>1, <2>2 DEF JtagInv
<1>8. CASE jtag_state = "IDLE"
  BY <1>3, <1>4, <1>5, <1>6, <1>8 DEF JtagInv, OpeningRight, ResettingRight, ShiftingRight, Told, ClosingRight
<1>9. CASE jtag_state = "READID_DONE"
  <2>1. jtagReq.cmd = "READID" /\ tap = "SHIFT_DR" /\ tms = 0 /\ jtagRead = IdOf(ndevs)
    BY <1>9 DEF JtagInv, Told
  <2>2. tms' = 0
    BY <1>1, <1>9, <2>1 DEF TmsNext
  <2>3. Where' = <<"SHIFT_DR", 0, <<1, 1, 0>>>>
    BY <1>1, <1>9, <2>1, <2>2 DEF Where
  <2>4. On(Closes("READID"))'
    BY <1>1, <2>3, PathsList DEF On
  <2>5. ClosingRight'
    BY <1>1, <2>1, <2>4 DEF ClosingRight
  <2>6. OpeningRight' /\ ResettingRight' /\ ShiftingRight' /\ Told'
    BY <1>1, <1>9, <2>1 DEF OpeningRight, ResettingRight, ShiftingRight, Told
  <2> QED
    BY <1>3, <1>5, <1>6, <2>5, <2>6 DEF JtagInv
<1>10. CASE jtag_state = "TMSOUT"
  <2>1. tmsbits # << >>
    <3>1. jtagReq.cmd \in {"RESET", "IR", "READID", "TFR"}
      BY DEF JtagInv, JtagTypes, ReqOK
    <3> QED
      BY <1>1, <1>10, <3>1 DEF JtagInv, OpeningRight, ResettingRight, ClosingRight, On
  <2>2. tms' = Head(tmsbits) /\ tmsbits' = Tail(tmsbits) /\ UNCHANGED <<jtag_state, next_state>>
    BY <1>1, <1>10, <2>1 DEF TmsNext
  <2>3. Where' = Where
    BY <1>1, <2>2 DEF Where
  <2>4. \A path : On(path) => Where' \in path
    BY <2>3 DEF On
  <2>5. OpeningRight'
    BY <1>1, <1>10, <2>2, <2>3 DEF JtagInv, OpeningRight, On
  <2>6. ResettingRight'
    BY <1>1, <1>10, <2>2, <2>3 DEF JtagInv, ResettingRight, On, Showing
  <2>7. ClosingRight'
    <3>1. Taken' = Taken /\ TransferTold' = TransferTold
      BY <1>1 DEF Taken, TransferTold
    <3>2. ASSUME next_state = "IDLE", jtagReq.cmd = "TFR", jtagReq.answer = ACK_OK PROVE ClosingRight'
      BY <1>1, <1>10, <2>2, <2>3, <3>1, <3>2 DEF JtagInv, ClosingRight, On, TransferTold
    <3>3. ASSUME next_state = "IDLE", jtagReq.cmd = "TFR", jtagReq.answer # ACK_OK PROVE ClosingRight'
      BY <1>1, <1>10, <2>2, <2>3, <3>3 DEF JtagInv, ClosingRight, On
    <3>4. ASSUME next_state = "IDLE", jtagReq.cmd = "READID" PROVE ClosingRight'
      BY <1>1, <1>10, <2>2, <2>3, <3>4 DEF JtagInv, ClosingRight, On
    <3>5. ASSUME next_state = "IDLE", jtagReq.cmd = "IR" PROVE ClosingRight'
      BY <1>1, <1>10, <2>2, <2>3, <3>5 DEF JtagInv, ClosingRight, On
    <3>6. ASSUME next_state # "IDLE" \/ jtagReq.cmd = "RESET" PROVE ClosingRight'
      BY <1>1, <2>2, <3>6 DEF ClosingRight
    <3>7. jtagReq.cmd \in {"RESET", "IR", "READID", "TFR"}
      BY DEF JtagInv, JtagTypes, ReqOK
    <3> QED
      BY <3>2, <3>3, <3>4, <3>5, <3>6, <3>7
  <2>8. ShiftingRight' /\ Told'
    BY <1>10, <2>2 DEF ShiftingRight, Told
  <2> QED
    BY <1>3, <1>5, <1>6, <2>5, <2>6, <2>7, <2>8 DEF JtagInv
<1> QED
  BY <1>2, <1>7, <1>8, <1>9, <1>10

\* The invariant holds at first.
LEMMA JtagStartsRight == JtagInit => JtagInv
<1> SUFFICES ASSUME JtagInit PROVE JtagInv
  OBVIOUS
<1>1. /\ jtag_state = "IDLE" /\ jtagRising = TRUE /\ jtagGo = FALSE /\ jtagReq = NoReq /\ tap = "IDLE"
      /\ jtagAck = ACK_OK /\ jtagRead = JtagZeros
      /\ dap = [instr |-> [d \in Chained |-> IrOf(d, IDCODE)], took |-> << >>]
  BY DEF JtagInit
<1>2. ReqOK(NoReq)
  BY RequestsAreOK DEF JtagRequests
<1>3. ACK_OK = [i \in 1 .. 3 |-> ACK_OK[i]] /\ JtagZeros = [i \in 1 .. JtagBits |-> JtagZeros[i]]
  BY DEF ACK_OK, JtagZeros
<1>4. dap.instr = [d \in Chained |-> IrOf(d, IDCODE)] /\ dap.took = << >>
  BY <1>1
<1>5. JtagTypes
  BY <1>1, <1>2, <1>3, <1>4 DEF JtagTypes
<1>6. AtRest
  BY <1>1, <1>4 DEF AtRest, idle, CommandRight, NoReq, Showing
<1> QED
  BY <1>1, <1>5, <1>6 DEF JtagInv, Prepared, idle, OpeningRight, ResettingRight, ShiftingRight, Told, ClosingRight

\* Nothing changes while another part moves.
LEMMA JtagStutters ==
  ASSUME JtagInv, UNCHANGED jtagVars
  PROVE  JtagInv'
<1>1. UNCHANGED <<jtag_state, next_state, tmsbits, tdxcount, devcount, tdi, tms, jtagAck, jtagRead,
                  jtagRising, jtagGo, jtagReq, tap, chain, dap>>
  BY DEF jtagVars, jtagEngine
<1>2. Where' = Where /\ Taken' = Taken /\ TransferTold' = TransferTold
  BY <1>1 DEF Where, Taken, TransferTold
<1>3. JtagTypes' /\ Prepared' /\ AtRest'
  BY <1>1 DEF JtagInv, JtagTypes, Prepared, AtRest, CommandRight, Listening, Showing, idle
<1>4. OpeningRight' /\ ResettingRight'
  BY <1>1, <1>2 DEF JtagInv, OpeningRight, ResettingRight, On, Showing
<1>5. ShiftingRight' /\ Told'
  BY <1>1, <1>2 DEF JtagInv, ShiftingRight, Told, TransferTold
<1>6. ClosingRight'
  BY <1>1, <1>2 DEF JtagInv, ClosingRight, On, TransferTold
<1> QED
  BY <1>3, <1>4, <1>5, <1>6 DEF JtagInv

\* JtagInv always holds.
LEMMA JtagInvHolds == JtagSpec => []JtagInv
<1>1. JtagInit => JtagInv
  BY JtagStartsRight
<1>2. JtagInv /\ [JtagNext]_jtagVars => JtagInv'
  <2> SUFFICES ASSUME JtagInv, [JtagNext]_jtagVars PROVE JtagInv'
    OBVIOUS
  <2>1. CASE JtagRequest
    BY <2>1, JtagRequestKeeps
  <2>2. CASE JtagRisingEdge
    <3>1. JtagStart \/ Transfer \/ IdData \/ WriteIr \/ TmsOut \/ Waiting
      BY <2>2 DEF JtagRisingEdge
    <3> QED
      BY <2>2, <3>1, JtagStartKeeps, TransferKeeps, IdDataKeeps, WriteIrKeeps, TmsOutKeeps, JtagWaitingKeeps
  <2>3. CASE JtagFallingEdge
    BY <2>3, JtagFallingKeeps
  <2>4. CASE UNCHANGED jtagVars
    BY <2>4, JtagStutters
  <2> QED
    BY <2>1, <2>2, <2>3, <2>4 DEF JtagNext
<1> QED
  BY <1>1, <1>2, PTL DEF JtagSpec

\* A JTAG command that is over did what it says: the instruction went to its device and
\* bypass to all others, a transfer reached its device in place, past the devices before and
\* behind it, its word and answer came back, a transfer answered WAIT left nothing behind,
\* and the TAP controllers stand in Run-Test/Idle, where the next command starts its TMS bits.
THEOREM JtagIsRight == JtagSpec => []JtagRight
<1>1. ASSUME JtagInv PROVE JtagRight
  <2>1. (idle => tap = "IDLE") /\ (idle /\ ~jtagGo => CommandRight)
    BY <1>1 DEF JtagInv, AtRest
  <2>2. ~(idle /\ ~jtagGo) => CommandRight
    BY DEF CommandRight
  <2> QED
    BY <2>1, <2>2 DEF JtagRight, Parked
<1> QED
  BY <1>1, JtagInvHolds, PTL
=============================================================================
