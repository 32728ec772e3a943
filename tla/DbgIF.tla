------------------------------- MODULE DbgIF -------------------------------
(***************************************************************************)
(* verilog/dbgIF.v: the debug interface, one step per clock of the debug    *)
(* domain.  It takes a command while go is up, lets the SWD or the JTAG      *)
(* interface below run it, and answers by done.                            *)
(*                                                                         *)
(* The interfaces below are SwdIF and JtagIF: here they start some time      *)
(* after go and end some time later.  The falling edges of the target clock *)
(* and the ticks of the microsecond counter come when they like.  Of the     *)
(* pins only nRST is kept.                                                  *)
(*                                                                         *)
(* chainIr and ran are history: the instruction each JTAG device holds, and  *)
(* how often the transfer that was asked for reached its device, up to 2.   *)
(***************************************************************************)
EXTENDS Integers

CONSTANTS
  Devs,       \* JTAG devices a command may address
  Times,      \* values of dwrite that are times
  Clocks,     \* values of dwrite that are clocks
  Nrsts,      \* what may be written to nRST: "low", "high", or "masked"
  ClkFreq,    \* CLK_FREQ
  CdivLog2,   \* CDIV_LOG2
  DefaultDiv, \* DEFAULT_IF_TICKS_PER_CLK
  ModeSteps,  \* bits of the sequence that establishes a mode, less one (127)
  Commands,   \* the commands the layer above gives
  AnyModeId   \* TRUE: it asks for an ID in other modes than JTAG, too

\* The slowest clock that is accepted is not 0 (100 MHz and 9 in the source).
ASSUME DbgAssumption ==
  /\ Devs # {} /\ Devs \subseteq Nat
  /\ Times \subseteq Nat /\ Clocks \subseteq Nat
  /\ {ClkFreq, CdivLog2, DefaultDiv, ModeSteps} \subseteq Nat
  /\ 2^CdivLog2 \in 1 .. ClkFreq
  /\ AnyModeId \in BOOLEAN

VARIABLES
  dbg,                              \* registers of the state machine
  cdc_go,
  pinw_nreset, local_tgt_reset, reset_triggered,
  busy,                             \* the interface below that is not idle, or "none"
  go, in,                           \* the registers the layer above sets
  chainIr, ran

resetVars == <<pinw_nreset, local_tgt_reset, reset_triggered>>
vars == <<dbg, cdc_go, resetVars, busy, go, in, chainIr, ran>>

NoDev == -1
UNKNOWN == "unknown"
MIN_CLOCK == ClkFreq \div 2^CdivLog2
MAX_CLOCK == ClkFreq \div 4

done == dbg.state = "IDLE"
if_go == dbg.state = "WAIT_INFERIOR_START"

\* Only what the command uses differs from command to command.
Timed == {"PINS_WRITE", "WAIT", "SET_RST_TMR"}

NoIn == [command |-> "CLR_ERR", dev |-> CHOOSE d \in Devs : TRUE, apndp |-> "DPACC",
         dwrite |-> 0, nrst |-> "masked"]

Inputs ==
  [command : Commands \ (Timed \cup {"TRANSACT", "SET_CLK"}), dev : {NoIn.dev},
   apndp : {"DPACC"}, dwrite : {0}, nrst : {"masked"}]
    \cup [command : Timed, dev : {NoIn.dev}, apndp : {"DPACC"}, dwrite : Times, nrst : Nrsts]
    \cup [command : {"SET_CLK"}, dev : {NoIn.dev}, apndp : {"DPACC"}, dwrite : Clocks,
          nrst : {"masked"}]
    \cup [command : {"TRANSACT"}, dev : Devs, apndp : {"APACC", "DPACC"}, dwrite : {0},
          nrst : {"masked"}]

Init ==
  /\ dbg = [state |-> "IDLE", active |-> "LOCAL", commanded |-> "SWD", jtag_cmd |-> "IR",
            trans_os |-> FALSE, current_dev |-> NoDev, ir |-> "BYPASS", perr |-> FALSE,
            usecsdown |-> 0, rst_timeout |-> 1, step |-> 0, clkDiv |-> DefaultDiv]
  /\ cdc_go = FALSE
  /\ pinw_nreset = 1 /\ local_tgt_reset = 1 /\ reset_triggered = FALSE
  /\ busy = "none" /\ go = FALSE
  /\ in = NoIn
  /\ chainIr = [d \in Devs |-> UNKNOWN]
  /\ ran = 0

-----------------------------------------------------------------------------
\* The layer above.
Raise ==
  /\ done /\ ~go
  /\ in' \in Inputs
  /\ in'.command = "JTAG_GET_ID" => AnyModeId \/ dbg.commanded = "JTAG"
  /\ go' = TRUE
  /\ ran' = 0
  /\ UNCHANGED <<dbg, cdc_go, resetVars, busy, chainIr>>

Lower ==
  /\ ~done /\ go
  /\ go' = FALSE
  /\ UNCHANGED <<dbg, cdc_go, resetVars, busy, in, chainIr, ran>>

\* A JTAG transfer reaches its device when that one has the instruction for the
\* access and the others are in bypass.
Reaches ==
  /\ chainIr[in.dev] = in.apndp
  /\ \A d \in Devs \ {in.dev} : chainIr[d] = "BYPASS"

\* The interfaces below, told by if_go and the mode.
InferiorStart ==
  /\ if_go /\ busy = "none" /\ dbg.active \in {"SWD", "JTAG"}
  /\ busy' = dbg.active
  /\ LET cmd == IF dbg.active = "SWD" THEN "SWD" ELSE dbg.jtag_cmd
     IN  /\ chainIr' =
              CASE cmd = "IR" ->
                     [d \in Devs |-> IF d = in.dev THEN dbg.ir ELSE "BYPASS"]
                [] cmd = "RESET" -> [d \in Devs |-> "IDCODE"]
                [] OTHER -> chainIr
         /\ ran' = IF ran < 2 /\ (cmd = "SWD" \/ (cmd = "TFR" /\ Reaches)) THEN ran + 1 ELSE ran
  /\ UNCHANGED <<dbg, cdc_go, resetVars, go, in>>

InferiorFinish ==
  /\ busy # "none" /\ dbg.state = "WAIT_INFERIOR_FINISH"
  /\ busy' = "none"
  /\ UNCHANGED <<dbg, cdc_go, resetVars, go, in, chainIr, ran>>

-----------------------------------------------------------------------------
\* The commands, from IDLE.  Those that touch the pins start at a falling edge
\* of the target clock, the others at once.
AtEdge ==
  {"PINS_WRITE", "RESET", "JTAG_REG", "TRANSACT", "SET_SWD", "SET_JTAG"}

\* Mutant of IrStale: another device is not noticed.
IrStaleOneDev == dbg.commanded = "JTAG" /\ dbg.ir # in.apndp

\* The IR has to be set first: the device changed, or its instruction.
IrStale ==
  /\ dbg.commanded = "JTAG"
  /\ dbg.current_dev # in.dev \/ dbg.ir # in.apndp

\* The sequence that establishes a mode; the mode is taken by the next command.
Establish(d, mode) ==
  [d EXCEPT !.active = "LOCAL", !.commanded = mode, !.ir = UNKNOWN, !.step = 0,
            !.state = "ESTABLISH_MODE"]

Refuse(d) == [d EXCEPT !.perr = TRUE, !.state = "WAIT_GOCLEAR"]

Dispatch(d) ==
  CASE in.command = "PINS_WRITE" ->
         [d EXCEPT !.ir = UNKNOWN, !.active = "SWJ",
                   !.usecsdown = IF in.dwrite > 0 THEN in.dwrite ELSE @,
                   !.state = IF in.dwrite > 0 THEN "WAIT_TIMEOUT" ELSE "WAIT_CLKCHANGE"]
    [] in.command = "RESET" ->
         [d EXCEPT !.ir = UNKNOWN, !.active = d.commanded, !.usecsdown = d.rst_timeout,
                   !.state = "RESETTING"]
    [] in.command = "JTAG_REG" ->
         [d EXCEPT !.ir = UNKNOWN, !.active = d.commanded, !.jtag_cmd = "IR",
                   !.state = "WAIT_INFERIOR_START"]
    [] in.command = "TRANSACT" ->
         [d EXCEPT !.jtag_cmd = IF IrStale THEN "IR" ELSE "TFR",
                   !.trans_os = IF IrStale THEN TRUE ELSE @,
                   !.current_dev = IF IrStale THEN in.dev ELSE @,
                   !.active = d.commanded, !.ir = in.apndp,
                   !.state = "WAIT_INFERIOR_START"]
    [] in.command = "SET_SWD" -> Establish(d, "SWD")
    [] in.command = "SET_JTAG" -> Establish(d, "JTAG")
    [] in.command = "JTAG_GET_ID" ->
         [d EXCEPT !.commanded = "JTAG", !.jtag_cmd = "READID",
                   !.state = "WAIT_INFERIOR_START"]
    [] in.command = "JTAG_RESET" ->
         [d EXCEPT !.commanded = "JTAG", !.jtag_cmd = "RESET", !.ir = UNKNOWN,
                   !.state = "WAIT_INFERIOR_START"]
    [] in.command = "SET_SWJ" ->
         [d EXCEPT !.commanded = "LOCAL", !.ir = UNKNOWN, !.state = "WAIT_GOCLEAR"]
    [] in.command = "SET_CLK" ->
         IF in.dwrite < MIN_CLOCK \/ in.dwrite > MAX_CLOCK THEN Refuse(d)
         ELSE [d EXCEPT !.clkDiv = 0, !.state = "CALC_DIV"]
    [] in.command \in {"SET_SWD_CFG", "SET_JTAG_CFG"} ->
         [d EXCEPT !.ir = UNKNOWN, !.state = "WAIT_GOCLEAR"]
    [] in.command = "WAIT" -> [d EXCEPT !.usecsdown = in.dwrite, !.state = "WAIT_TIMEOUT"]
    [] in.command \in {"SET_TFR_CFG", "CLR_ERR"} -> [d EXCEPT !.state = "WAIT_GOCLEAR"]
    [] in.command = "SET_RST_TMR" ->
         [d EXCEPT !.rst_timeout = in.dwrite, !.state = "WAIT_GOCLEAR"]
    [] OTHER -> Refuse(d)

Idle(fallingedge) ==
  IF ~(go /\ cdc_go) THEN dbg
  ELSE LET d == [dbg EXCEPT !.perr = FALSE]
       IN  IF in.command \in AtEdge /\ ~fallingedge THEN d ELSE Dispatch(d)

\* Mutant of GoClear: go is not waited for.
GoClearAtOnce ==
  [dbg EXCEPT !.state = IF dbg.trans_os THEN "HANDLE_TRANSACT" ELSE "IDLE"]

GoClear ==
  IF go \/ cdc_go THEN dbg
  ELSE [dbg EXCEPT !.state = IF dbg.trans_os THEN "HANDLE_TRANSACT" ELSE "IDLE"]

\* divreg: what is left of the system clock while clkDiv counts how often twice the
\* target clock goes into it.
divreg == ClkFreq - 1 - 2 * in.dwrite * dbg.clkDiv

\* Mutant of CalcDiv: it stops one subtraction early.
CalcDivShort ==
  IF divreg >= 4 * in.dwrite THEN [dbg EXCEPT !.clkDiv = @ + 1]
  ELSE [dbg EXCEPT !.state = "WAIT_GOCLEAR"]

CalcDiv ==
  IF divreg >= 2 * in.dwrite THEN [dbg EXCEPT !.clkDiv = @ + 1]
  ELSE [dbg EXCEPT !.state = "WAIT_GOCLEAR"]

\* Mutant of HandleTransact: the pending transfer stays pending.
HandleTransactKept ==
  [dbg EXCEPT !.jtag_cmd = "TFR", !.state = "WAIT_INFERIOR_START"]

HandleTransact ==
  [dbg EXCEPT !.trans_os = FALSE, !.jtag_cmd = "TFR", !.state = "WAIT_INFERIOR_START"]

WaitStart ==
  IF dbg.active \notin {"SWD", "JTAG"} THEN Refuse(dbg)
  ELSE IF busy = dbg.active THEN [dbg EXCEPT !.state = "WAIT_INFERIOR_FINISH"]
  ELSE dbg

\* perr is the parity error of a transfer over SWD.
WaitFinish ==
  IF busy # "none" THEN {dbg}
  ELSE {[dbg EXCEPT !.state = "WAIT_GOCLEAR", !.perr = p] :
          p \in IF dbg.active = "SWD" THEN BOOLEAN ELSE {dbg.perr}}

EstablishMode(fallingedge) ==
  IF ~fallingedge THEN dbg
  ELSE [dbg EXCEPT !.step = @ + 1,
                   !.state = IF dbg.step = ModeSteps THEN "WAIT_GOCLEAR" ELSE @]

\* What a clock makes of the registers.  The target's reset input may be up or
\* down at the end of a reset.
Steps(fallingedge) ==
  CASE dbg.state = "IDLE" -> {Idle(fallingedge)}
    [] dbg.state = "WAIT_GOCLEAR" -> {GoClear}
    [] dbg.state = "CALC_DIV" -> {CalcDiv}
    [] dbg.state = "WAIT_INFERIOR_FINISH" -> WaitFinish
    [] dbg.state = "HANDLE_TRANSACT" -> {HandleTransact}
    [] dbg.state = "WAIT_INFERIOR_START" -> {WaitStart}
    [] dbg.state = "WAIT_TIMEOUT" ->
         {IF dbg.usecsdown = 0 THEN [dbg EXCEPT !.state = "WAIT_GOCLEAR"] ELSE dbg}
    [] dbg.state = "WAIT_CLKCHANGE" ->
         {IF fallingedge THEN [dbg EXCEPT !.state = "WAIT_GOCLEAR"] ELSE dbg}
    [] dbg.state = "RESETTING" ->
         {IF dbg.usecsdown = 0
          THEN [dbg EXCEPT !.usecsdown = dbg.rst_timeout, !.state = "RESET_GUARD"] ELSE dbg}
    [] dbg.state = "RESET_GUARD" ->
         {IF dbg.usecsdown = 0 \/ up THEN [dbg EXCEPT !.state = "WAIT_GOCLEAR"] ELSE dbg :
            up \in BOOLEAN}
    [] dbg.state = "ESTABLISH_MODE" -> {EstablishMode(fallingedge)}

\* The microsecond counter goes down unless the state machine loads it.
Counted(d, tick) ==
  IF tick /\ d.usecsdown = dbg.usecsdown /\ d.usecsdown > 0
  THEN [d EXCEPT !.usecsdown = @ - 1] ELSE d

\* nRST: the level written to the pin, but for a reset, which sets and releases it.
TgtReset ==
  /\ pinw_nreset' = CASE in.nrst = "low" -> 0 [] in.nrst = "high" -> 1 [] OTHER -> pinw_nreset
  /\ IF dbg.active # "SWJ" /\ dbg.state = "RESETTING"
     THEN local_tgt_reset' = 0 /\ reset_triggered' = TRUE
     ELSE IF dbg.active # "SWJ" /\ reset_triggered
     THEN local_tgt_reset' = 1 /\ reset_triggered' = FALSE
     ELSE local_tgt_reset' = 1 - pinw_nreset /\ UNCHANGED reset_triggered

Clock(edge, tick) ==
  /\ cdc_go' = go
  /\ dbg' \in {Counted(d, tick) : d \in Steps(edge)}
  /\ TgtReset
  /\ UNCHANGED <<busy, go, in, chainIr, ran>>

Next ==
  \/ Raise \/ Lower
  \/ InferiorStart \/ InferiorFinish
  \/ \E edge, tick \in BOOLEAN : Clock(edge, tick)

Spec == Init /\ [][Next]_vars

\* The clocks run, the interfaces below end what they start, and the layer above
\* takes go back.
FairSpec ==
  /\ Spec
  /\ SF_vars(\E tick \in BOOLEAN : Clock(TRUE, tick))
  /\ SF_vars(\E edge \in BOOLEAN : Clock(edge, TRUE))
  /\ WF_vars(InferiorStart) /\ WF_vars(InferiorFinish) /\ WF_vars(Lower)

-----------------------------------------------------------------------------
\* A transfer that ends without an error was run once and reached the device it
\* named, over JTAG with that device's instruction the one for the access: no
\* command in between left the interface with a stale idea of the chain.
TransferOnce ==
  done /\ ~go /\ in.command = "TRANSACT" /\ ~dbg.perr /\ dbg.trans_os = FALSE => ran = 1

\* The clock that was asked for is not exceeded, and the divisor fits its register.
ClockRight ==
  dbg.state = "WAIT_GOCLEAR" /\ in.command = "SET_CLK" /\ ~dbg.perr =>
    /\ ClkFreq <= 2 * in.dwrite * (dbg.clkDiv + 1)
    /\ dbg.clkDiv < 2^CdivLog2

\* A target reset pulls the target's reset low: tgt_reset_pin is up, the level it has
\* when nRST is written low, and with which dbgIF.py enables its open-drain driver.
ResetPulls ==
  dbg.state = "RESETTING" /\ reset_triggered => local_tgt_reset = 1

\* The command is over when the state machine waits for go to be taken back with
\* no transfer pending.
Over ==
  CASE dbg.state = "IDLE" -> ~go
    [] dbg.state = "WAIT_GOCLEAR" -> ~dbg.trans_os
    [] OTHER -> FALSE

Abstract == INSTANCE GoDone WITH ready <- done, ran <- Over

\* The interface keeps what GoDone promises, whatever the command, and although a
\* transfer over JTAG may take two turns of the interface below.
GoDoneSpec == Abstract!Spec

\* Every command ends, also one for a mode that is not there.
CommandEnds == go ~> done
=============================================================================
