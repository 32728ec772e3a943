------------------------------ MODULE GapStream ------------------------------
(***************************************************************************)
(* What nack_rx.py promises to the decoder behind it, with no sequence     *)
(* numbers, dictionaries or retries: from the first packet that arrives on *)
(* the packets of the stream come out one by one, in order, each once,     *)
(* with its own payload.  A packet that has not arrived may be replaced by *)
(* a mark (data None), and only while a later packet has arrived.          *)
(***************************************************************************)
EXTENDS Integers

CONSTANT Index   \* the packets of the stream

VARIABLES
  started,   \* a packet has arrived
  arrived,   \* the packets that arrived and have not come out
  next,      \* the packet to come out next
  data       \* what came out for packet next - 1

gapVars == <<started, arrived, next, data>>

NoData == -1

GapInit ==
  /\ started = FALSE
  /\ arrived = {}
  /\ next = 0
  /\ data = NoData

First(i) ==
  /\ ~started
  /\ started' = TRUE
  /\ arrived' = {i}
  /\ next' = i
  /\ UNCHANGED data

Arrive(i) ==
  /\ started
  /\ i >= next
  /\ arrived' = arrived \cup {i}
  /\ UNCHANGED <<started, next, data>>

Emit ==
  /\ next \in arrived
  /\ data' = next
  /\ arrived' = arrived \ {next}
  /\ next' = next + 1
  /\ UNCHANGED started

Skip ==
  /\ next \notin arrived
  /\ \E i \in arrived : i > next
  /\ data' = NoData
  /\ next' = next + 1
  /\ UNCHANGED <<started, arrived>>

GapNext ==
  \/ \E i \in Index : First(i) \/ Arrive(i)
  \/ Emit
  \/ Skip

GapSpec == GapInit /\ [][GapNext]_gapVars
=============================================================================
