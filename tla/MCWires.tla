------------------------------ MODULE MCWires ------------------------------
(***************************************************************************)
(* The debug interface and the two wire interfaces below it, each by        *)
(* itself: part says which one runs, the others rest in an initial state.   *)
(***************************************************************************)
EXTENDS DbgIF, SwdIF, JtagIF

CONSTANTS Parts

VARIABLES part

wiresVars == <<part, vars, swdVars, jtagVars>>

MCCommands ==
  {"PINS_WRITE", "RESET", "JTAG_REG", "TRANSACT", "SET_SWD", "SET_JTAG", "JTAG_GET_ID",
   "JTAG_RESET", "SET_SWJ", "SET_CLK", "WAIT", "SET_TFR_CFG", "SET_RST_TMR", "other"}

\* OK, WAIT and FAULT in the order of the wire.  The answers and the turnarounds are those
\* the cooling of swdIF.v leaves the target time for (CoolingCovers of WireProofs): after
\* a WAIT it is 3 clocks, or a data phase and 1, whatever the turnaround is, and after a
\* FAULT there is always a data phase.
MCAnswers ==
  {<<<<1, 0, 0>>, FALSE>>, <<<<0, 1, 0>>, FALSE>>, <<<<0, 1, 0>>, TRUE>>, <<<<0, 0, 1>>, TRUE>>}

\* Devices of two and three bits of instruction, words with an odd and an even parity.
MCIrLens == <<2, 3, 2>>
MCInstructions ==
  [i \in {"APACC", "DPACC", "IDCODE", "BYPASS"} |->
     CASE i = "APACC" -> <<1, 0, 1>> [] i = "DPACC" -> <<0, 1, 1>> [] i = "IDCODE" -> <<0, 0, 1>> [] OTHER -> <<1, 1, 1>>]
MCSents == {<<1, 0, 1>>, <<0, 1, 0>>}

WiresInit == part \in Parts /\ Init /\ SwdInit /\ JtagInit

WiresNext ==
  \/ part = "dbg" /\ Next /\ UNCHANGED <<part, swdVars, jtagVars>>
  \/ part = "swd" /\ SwdNext /\ UNCHANGED <<part, vars, jtagVars>>
  \/ part = "jtag" /\ JtagNext /\ UNCHANGED <<part, vars, swdVars>>

\* The fairness of DbgIF, asked for while it runs.
WiresSpec ==
  /\ WiresInit /\ [][WiresNext]_wiresVars
  /\ SF_vars(part = "dbg" /\ \E tick \in BOOLEAN : Clock(TRUE, tick))
  /\ SF_vars(part = "dbg" /\ \E edge \in BOOLEAN : Clock(edge, TRUE))
  /\ WF_vars(part = "dbg" /\ InferiorStart)
  /\ WF_vars(part = "dbg" /\ InferiorFinish)
  /\ WF_vars(part = "dbg" /\ Lower)

=============================================================================
