------------------------------ MODULE GoDone ------------------------------
(***************************************************************************)
(* What the debug interface promises the layer above by go and done, as the *)
(* heads of verilog/dbgIF.v and orbtrace/debug/cmsis_dap.py tell it: go      *)
(* starts a command, done falls, go is taken back, and done rises when the  *)
(* command has run.  A command is run once for every rise of go.            *)
(***************************************************************************)
EXTENDS Naturals

VARIABLES
  go,
  ready,  \* done
  ran     \* the command that go started has been run, or refused

goDoneVars == <<go, ready, ran>>

Init == go = FALSE /\ ready = TRUE /\ ran = TRUE

\* The layer above.
Raise == ~go /\ ready /\ go' = TRUE /\ ran' = FALSE /\ UNCHANGED ready

Lower == go /\ ~ready /\ go' = FALSE /\ UNCHANGED <<ready, ran>>

\* The interface.
Accept == go /\ ready /\ ready' = FALSE /\ ran' \in {ran, TRUE} /\ UNCHANGED go

Run == ~ready /\ ~ran /\ ran' = TRUE /\ UNCHANGED <<go, ready>>

Finish == ~go /\ ~ready /\ ran /\ ready' = TRUE /\ UNCHANGED <<go, ran>>

Next == Raise \/ Lower \/ Accept \/ Run \/ Finish

Spec == Init /\ [][Next]_goDoneVars
=============================================================================
