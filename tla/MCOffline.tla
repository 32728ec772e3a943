----------------------------- MODULE MCOffline -----------------------------
(***************************************************************************)
(* The host's offline and bench tools, each by itself: part says which one  *)
(* runs, the others rest in their initial state.  "coalesce" is one call of *)
(* coalesce_gaps() on a set of missing numbers and a span limit.            *)
(***************************************************************************)
EXTENDS TraceWidth, TimeBase, Bench, NackProtocol

CONSTANTS Parts, MaxSeq, MaxSpan

VARIABLES part, gaps, span, runs, returned

callVars == <<gaps, span, runs, returned>>
vars == <<part, etmVars, deframeVars, widthVars, timeVars, benchVars, callVars>>

\* 0x08005B56 and 0x08015956, which differ in the second and third limb.
MCAddresses == {134241110, 134306134}
MCAtoms == {<<"E", "N">>, <<"N", "E">>, <<"N", "N">>, <<"E", "E", "E", "N">>}
\* Stream 2 carries ETM: an I-sync at 0x08005B56 with the atoms EE, then bytes that look
\* like syncs; stream 1 other bytes of both parities.
MCSource == [id \in {0, 1, 2} |->
    CASE id = 0 -> <<0>>
      [] id = 1 -> <<255, 127, 3, 254>>
      [] id = 2 -> <<8, 0, 86, 91, 0, 8, 136, 255, 127>>]
\* Two bitstreams of the same kind (snapshot and stream), the pin tester, and one whose
\* DEPTH is not in the list.
MCKind(b) == CASE b \in {"clktap", "clktap_stream"} -> "clktap" [] b = "pin_la" -> "pin_la" [] OTHER -> "unknown"

\* A frame of stream 2 alone, the payload from place o, and two of them with full syncs,
\* with a half sync before pair `half` of the first one (8: none).
MCPayload == <<0, 0, 128, 8, 0, 86, 91, 0, 8, 136, 255, 127>>
MCFrame(o) ==
    LET b(k) == MCPayload[((o + k) % Len(MCPayload)) + 1]
        low(p) == IF p = 0 THEN 0 ELSE b(2 * p - 1) % 2
        aux == FoldLeft(LAMBDA acc, p : acc + low(p) * 2^p, 0, <<0, 1, 2, 3, 4, 5, 6, 7>>)
    IN  <<5, b(0)>> \o [k \in 1 .. 13 |-> IF k % 2 = 1 THEN b(k) - (b(k) % 2) ELSE b(k)] \o <<aux>>
MCSent == {FSYNC \o SubSeq(MCFrame(o), 1, 2 * half) \o (IF half = 8 THEN <<>> ELSE HSYNC)
             \o SubSeq(MCFrame(o), 2 * half + 1, 16) \o FSYNC \o MCFrame(o + 14) :
             o \in 0 .. 11, half \in {3, 8}}
MCHalves == <<4, 3, 5>>
\* Two invocations are alike.
Invocations == Permutations(Procs)

-----------------------------------------------------------------------------
CallInit ==
  /\ gaps \in (IF part = "coalesce" THEN SUBSET (0 .. MaxSeq) ELSE {{}})
  /\ span \in (IF part = "coalesce" THEN 1 .. MaxSpan ELSE {1})
  /\ runs = << >>
  /\ returned = FALSE

Call ==
  /\ ~returned
  /\ runs' = CoalesceGaps(gaps, span)
  /\ returned' = TRUE
  /\ UNCHANGED <<gaps, span>>

Init ==
  /\ part \in Parts /\ EtmInit /\ DeframeInit /\ TimeInit /\ BenchInit /\ CallInit
  /\ part # "bench" => stm.pattern
  /\ IF part = "width" THEN WidthInit ELSE line = <<>> /\ read = Unread

Next ==
  \/ part = "etm" /\ EtmNext /\ UNCHANGED <<part, deframeVars, widthVars, timeVars, benchVars, callVars>>
  \/ part = "deframe" /\ SendFrame /\ UNCHANGED <<part, etmVars, widthVars, timeVars, benchVars, callVars>>
  \/ part = "width" /\ WidthNext /\ UNCHANGED <<part, etmVars, deframeVars, timeVars, benchVars, callVars>>
  \/ part = "time" /\ TimeNext /\ UNCHANGED <<part, etmVars, deframeVars, widthVars, benchVars, callVars>>
  \/ part = "bench" /\ BenchNext /\ UNCHANGED <<part, etmVars, deframeVars, widthVars, timeVars, callVars>>
  \/ part = "coalesce" /\ Call /\ UNCHANGED <<part, etmVars, deframeVars, widthVars, timeVars, benchVars>>

Spec == Init /\ [][Next]_vars

-----------------------------------------------------------------------------
\* From a capture of the trace pins come the bytes of each stream, whichever way the
\* capture was made and whichever deframer reads it, and each byte's time (etm35lib.py,
\* tpiu_official.py, opencsd_etm4_run.py, dsl_parse.py, fpga_timebase.py).
CapturesRight == StreamsRight /\ AlignedRight /\ TimesRight

\* The requests name exactly the missing packets, each in one request, in ascending
\* order: nothing missing is forgotten, nothing present resent.  And they are as few as
\* max_span allows: none exceeds it, and one that the next follows directly is full
\* (coalesce_gaps).
RunsRight ==
  returned =>
    /\ UNION {RunSeqs(runs[k]) : k \in DOMAIN runs} = gaps
    /\ \A k \in DOMAIN runs : runs[k][2] \in 1 .. span
    /\ \A k \in 1 .. Len(runs) - 1 :
         /\ runs[k][1] + runs[k][2] <= runs[k + 1][1]
         /\ runs[k][1] + runs[k][2] = runs[k + 1][1] => runs[k][2] = span
=============================================================================
