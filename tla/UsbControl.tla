------------------------------ MODULE UsbControl ------------------------------
(***************************************************************************)
(* The settings a host makes over the control endpoint: trace/usb_handler.py *)
(* (input format and baud rate), power/usb_handler.py (the supplies of the   *)
(* target), cdc_acm.py (a line coding that changes nothing), and the divider *)
(* that makes the length of a bit from the baud rate (trace/util.py, wired   *)
(* in trace/core.py and soc.py).                                             *)
(*                                                                         *)
(* Every handler sees every request, data packet and status stage; the one   *)
(* whose interface the request names answers.  A request that comes while    *)
(* another is under way replaces it.                                         *)
(***************************************************************************)
EXTENDS Naturals, Sequences

CONSTANTS
  Base, Bytes,      \* a baud rate is so many digits of this base (256, 4)
  Num, ResMax,      \* 8_000_000_000, and the largest result (2^16 - 1)
  Rates, InputFormats,          \* sequences of Bytes digits; formats the host sets
  Remains,          \* what may arrive of a damaged packet
  MaxRequests, MaxAborts, MaxDamage     \* bounds

ASSUME ControlAssumption ==
  /\ {Num, ResMax} \subseteq Nat /\ {Base, Bytes} \subseteq Nat \ {0}
  /\ Rates \subseteq [1 .. Bytes -> 0 .. Base - 1]
  /\ Remains \subseteq Seq(0 .. Base - 1)

VARIABLES
  setup, stage,                 \* the request, and what the host does next
  fsm,                          \* of each handler
  input_format, async_baudrate, idx,    \* TraceUSBHandler
  en, sel,                      \* PowerUSBHandler: of each channel
  start, acc, res, done,        \* Divider
  want, unsure,                 \* history: the settings made by requests that were answered,
                                \* and those a request that was given up, or that came in
                                \* pieces or too early, may have left otherwise
  damaged,                      \* history: bytes of the rate came before the packet that counts
  requests, aborts, damage      \* bounds

counts == <<requests, aborts, damage>>
traceVars == <<input_format, async_baudrate, idx>>
powerVars == <<en, sel>>
dividerVars == <<start, acc, res, done>>
controlVars == <<setup, stage, fsm, traceVars, powerVars, dividerVars, want, unsure, damaged, counts>>

Handlers == {"trace", "power", "acm"}
Channels == 0 .. 1                              \* VTREF, VTPWR
AllChannels == 255

\* The voltages of a channel in mV, and the bit that selects each.
Voltages == <<[v \in {3300, 1800} |-> IF v = 3300 THEN 0 ELSE 1],
              [v \in {3300, 5000} |-> IF v = 3300 THEN 0 ELSE 1]>>

Request(to, op, channel, value, data) ==
  [to |-> to, op |-> op, channel |-> channel, value |-> value, data |-> data]

Requests ==
  {Request("trace", "SET_INPUT_FORMAT", 0, v, << >>) : v \in InputFormats}
    \cup {Request("trace", "SET_INTERFACE", 0, 0, << >>)}
    \cup {Request("trace", "SET_ASYNC_BAUDRATE", 0, 0, d) : d \in Rates}
    \cup {Request("power", "SET_ENABLE", c, v, << >>) : c \in Channels \cup {2, AllChannels}, v \in 0 .. 1}
    \cup {Request("power", "SET_VOLTAGE", c, v, << >>) : c \in Channels, v \in {1800, 3300, 5000}}
    \cup {Request("acm", "SET_LINE_CODING", 0, 0, <<0>>)}
    \cup {Request(h, "UNHANDLED", 0, 0, d) : h \in Handlers, d \in {<< >>, <<0>>}}

ControlInit ==
  /\ setup = Request("none", "UNHANDLED", 0, 0, << >>) /\ stage = "done"
  /\ fsm = [h \in Handlers |-> "IDLE"]
  /\ input_format = 0 /\ async_baudrate = [i \in 1 .. Bytes |-> 0] /\ idx = 0
  /\ en = [c \in Channels |-> 0] /\ sel = [c \in Channels |-> 0]
  /\ start = FALSE /\ acc = 0 /\ res = 0 /\ done = FALSE
  /\ want = [format |-> 0, rate |-> async_baudrate, en |-> en, sel |-> sel] /\ unsure = {} /\ damaged = FALSE
  /\ requests = 0 /\ aborts = 0 /\ damage = 0

-----------------------------------------------------------------------------
\* What the settings become in a clock of the handler's state, which looks at the
\* fields of the request that came last.
Format(f, s, old) == IF f = "SET_INPUT_FORMAT" THEN s.value ELSE old

Named(s, c) == s.channel \in {c, AllChannels}

Enables(f, s, old) ==
  [c \in Channels |-> IF f = "SET_ENABLE" /\ Named(s, c) THEN s.value % 2 ELSE old[c]]
Selects(f, s, old) ==
  [c \in Channels |-> IF f = "SET_VOLTAGE" /\ s.channel = c /\ s.value \in DOMAIN Voltages[c + 1]
                      THEN Voltages[c + 1][s.value] ELSE old[c]]

\* The states of a handler that has to answer, and whether it takes the request.
Accepts(s) ==
  CASE s.op = "SET_ENABLE" -> \E c \in Channels : Named(s, c)
    [] s.op = "SET_VOLTAGE" -> s.channel \in Channels /\ s.value \in DOMAIN Voltages[s.channel + 1]
    [] OTHER -> s.op # "UNHANDLED"

\* What a request makes, and what a handler in the state for such a request may change.
Changes(s) ==
  CASE s.op = "SET_INPUT_FORMAT" -> {<<"format", 0>>}
    [] s.op = "SET_ASYNC_BAUDRATE" -> {<<"rate", 0>>}
    [] s.op = "SET_ENABLE" -> {<<"en", c>> : c \in {d \in Channels : Named(s, d)}}
    [] s.op = "SET_VOLTAGE" -> {<<"sel", c>> : c \in {d \in Channels : s.channel = d /\ s.value \in DOMAIN Voltages[d + 1]}}
    [] OTHER -> {}

Touched(op) ==
  CASE op = "SET_INPUT_FORMAT" -> {<<"format", 0>>}
    [] op = "SET_ASYNC_BAUDRATE" -> {<<"rate", 0>>}
    [] op = "SET_ENABLE" -> {<<"en", c>> : c \in Channels}
    [] op = "SET_VOLTAGE" -> {<<"sel", c>> : c \in Channels}
    [] OTHER -> {}

\* Mutant of Dispatched: a handler that is not idle does not look at a request.
DispatchedIdle(h, s) == IF s.to = h /\ fsm[h] = "IDLE" THEN s.op ELSE fsm[h]

\* A request to its interface takes a handler to the state for it, from any state.
Dispatched(h, s) == IF s.to = h THEN s.op ELSE fsm[h]

\* Mutant of FirstByte: the index stays where a request that was given up left it.
FirstByteNot == idx

FirstByte == 0

\* A request comes: the next, or the same or another when the host gave one up.  For a
\* clock a handler has the new fields in its old state.
Setup(s) ==
  /\ IF stage = "done" THEN requests < MaxRequests /\ requests' = requests + 1 /\ UNCHANGED aborts
     ELSE aborts < MaxAborts /\ aborts' = aborts + 1 /\ UNCHANGED requests
  /\ setup' = s /\ damaged' = FALSE
  /\ unsure' = IF stage # "done" /\ s # setup THEN unsure \cup Touched(setup.op) ELSE unsure
  /\ stage' = IF s.data = << >> THEN "status" ELSE "data"
  /\ fsm' = [h \in Handlers |-> Dispatched(h, s)]
  /\ idx' = IF s.to = "trace" THEN FirstByte ELSE idx
  /\ input_format' = Format(fsm'["trace"], s, Format(fsm["trace"], s, input_format))
  /\ en' = Enables(fsm'["power"], s, Enables(fsm["power"], s, en))
  /\ sel' = Selects(fsm'["power"], s, Selects(fsm["power"], s, sel))
  /\ UNCHANGED <<async_baudrate, dividerVars, want, damage>>

\* The bytes of a packet go where idx says, as they come.
Bytewise(data) ==
  IF fsm["trace"] = "SET_ASYNC_BAUDRATE"
  THEN /\ async_baudrate' = [i \in 1 .. Bytes |->
             IF i > idx /\ i - idx <= Len(data) THEN data[i - idx] ELSE async_baudrate[i]]
       /\ idx' = idx + Len(data)
  ELSE UNCHANGED <<async_baudrate, idx>>

\* Handlers that refuse a packet have ended the request.
Stalled == [h \in Handlers |-> IF fsm[h] = "UNHANDLED" THEN "IDLE" ELSE fsm[h]]

\* A packet arrives: acknowledged, or refused and the request is over.
Data ==
  /\ stage = "data" /\ fsm[setup.to] \in {"SET_ASYNC_BAUDRATE", "SET_LINE_CODING", "UNHANDLED"}
  /\ Bytewise(setup.data)
  /\ stage' = IF fsm[setup.to] = "UNHANDLED" THEN "done" ELSE "status"
  /\ fsm' = Stalled
  /\ UNCHANGED <<setup, input_format, powerVars, dividerVars, want, unsure, damaged, counts>>

\* A packet arrives damaged: nobody answers, and the host sends it again.
DamagedData ==
  /\ stage = "data" /\ damage < MaxDamage /\ damage' = damage + 1
  /\ \E d \in Remains :
       Bytewise(d) /\ damaged' = (damaged \/ (fsm["trace"] = "SET_ASYNC_BAUDRATE" /\ d # << >>))
  /\ UNCHANGED <<setup, stage, fsm, input_format, powerVars, dividerVars, want, unsure, requests, aborts>>

\* The settings after a request that was answered.
Settings(s) ==
  [format |-> Format(s.op, s, want.format),
   rate |-> IF s.op = "SET_ASYNC_BAUDRATE" THEN s.data ELSE want.rate,
   en |-> Enables(s.op, s, want.en), sel |-> Selects(s.op, s, want.sel)]

\* A rate that came in pieces, and a length of a bit of which the divider did not begin anew.
Pieces == IF setup.op = "SET_ASYNC_BAUDRATE" /\ damaged THEN {<<"rate", 0>>} ELSE {}
TooEarly == IF fsm["trace"] = "SET_ASYNC_BAUDRATE" /\ (start \/ ~done) THEN {<<"bits", 0>>} ELSE {}
Restarted == IF fsm["trace"] = "SET_ASYNC_BAUDRATE" THEN {<<"bits", 0>>} ELSE {}

\* The status stage ends the request in every handler that has one.  The handler the
\* request names answers, with an empty packet or a refusal.
Status ==
  /\ stage = "status" /\ fsm[setup.to] # "IDLE"
  /\ stage' = "done"
  /\ fsm' = [h \in Handlers |-> "IDLE"]
  /\ start' = (start \/ fsm["trace"] = "SET_ASYNC_BAUDRATE")
  /\ want' = IF Accepts(setup) THEN Settings(setup) ELSE want
  /\ unsure' = (unsure \ (Changes(setup) \cup Restarted)) \cup Pieces \cup TooEarly
  /\ UNCHANGED <<setup, traceVars, powerVars, acc, res, done, damaged, counts>>

-----------------------------------------------------------------------------
\* A number from its digits, the lowest first.
ValueOf(d) ==
  LET above[n \in 0 .. Bytes] == IF n = 0 THEN 0 ELSE d[Bytes - n + 1] + Base * above[n - 1]
  IN  above[Bytes]

Saturated == res = ResMax

\* A clock of the divider.  While it works its own assignments come last, and those of
\* a start are lost.
Divide ==
  /\ start \/ ~done
  /\ start' = FALSE
  /\ LET den == ValueOf(async_baudrate)
         goes == ~done /\ acc >= den /\ ~Saturated
     IN  /\ acc' = IF goes THEN acc - den ELSE IF start THEN Num ELSE acc
         /\ res' = IF goes THEN (res + 1) % (ResMax + 1) ELSE IF start THEN 0 ELSE res
         /\ done' = IF done THEN ~start ELSE ~goes
  /\ UNCHANGED <<setup, stage, fsm, traceVars, powerVars, want, unsure, damaged, counts>>

ControlNext == (\E s \in Requests : Setup(s)) \/ Data \/ DamagedData \/ Status \/ Divide

ControlSpec == ControlInit /\ [][ControlNext]_controlVars

\* The host goes on with what it began, and the divider's clock runs.
ControlFairSpec == ControlSpec /\ WF_controlVars(Data) /\ WF_controlVars(Status) /\ WF_controlVars(Divide)

-----------------------------------------------------------------------------
Quotient(n, d) == IF d = 0 \/ n \div d > ResMax THEN ResMax ELSE n \div d

Sure(setting) == setting \notin unsure

\* The divider makes of the last baud rate that was set the length of a bit.
BaudrateTaken ==
  done /\ ~start /\ stage = "done" /\ Sure(<<"rate", 0>>) /\ Sure(<<"bits", 0>>)
    => res = Quotient(Num, ValueOf(want.rate))

\* Between requests every setting is what the requests that were answered made it,
\* although requests were given up halfway and made again, and although every handler
\* sees every request.  A request given up for another leaves its handler in its state,
\* which takes the fields of the other for its own until a status stage comes: what such
\* requests make is promised again when the next for it is answered.  So is a rate of which
\* bytes came before the packet was sent again, and the length of a bit when a rate was
\* set while the divider worked on the one before.
SettingsRight ==
  /\ stage = "done" =>
       /\ Sure(<<"format", 0>>) => input_format = want.format
       /\ Sure(<<"rate", 0>>) => async_baudrate = want.rate
       /\ \A c \in Channels : /\ Sure(<<"en", c>>) => en[c] = want.en[c]
                              /\ Sure(<<"sel", c>>) => sel[c] = want.sel[c]
  /\ BaudrateTaken
=============================================================================
