---------------------------- MODULE NackProtocol ----------------------------
(***************************************************************************)
(* coalesce_gaps of syn/artix7/bringup/scripts/nack_protocol.py: a set of  *)
(* missing sequence numbers becomes a list of NACK requests, each a        *)
(* <<start, count>> run of at most maxSpan packets.                        *)
(*                                                                         *)
(* The order is that of the plain integers, so a hole that straddles the   *)
(* wrap of the sequence counter is requested as two runs.                  *)
(***************************************************************************)
EXTENDS Integers, Sequences, FiniteSets, SequencesExt

\* The packets a run asks for; range(start, start + count) on the FPGA side.
RunSeqs(run) == run[1] .. run[1] + run[2] - 1

\* sorted(set(S))
SortedSeq(S) ==
  [k \in 1 .. Cardinality(S) |->
     CHOOSE x \in S : Cardinality({y \in S : y <= x}) = k]

\* Mutant of CoalesceStep: a number right after a full run is lost.
CoalesceStepDrops(acc, x, maxSpan) ==
  IF x = acc.prev + 1
  THEN IF acc.prev - acc.start + 1 < maxSpan THEN [acc EXCEPT !.prev = x] ELSE acc
  ELSE [runs  |-> Append(acc.runs, <<acc.start, acc.prev - acc.start + 1>>),
        start |-> x,
        prev  |-> x]

\* One turn of the loop over the sorted numbers: x prolongs the open run
\* acc.start .. acc.prev, or closes it and opens its own.
CoalesceStep(acc, x, maxSpan) ==
  IF x = acc.prev + 1 /\ acc.prev - acc.start + 1 < maxSpan
  THEN [acc EXCEPT !.prev = x]
  ELSE [runs  |-> Append(acc.runs, <<acc.start, acc.prev - acc.start + 1>>),
        start |-> x,
        prev  |-> x]

CoalesceGaps(missingSeqs, maxSpan) ==
  IF missingSeqs = {}
  THEN << >>
  ELSE LET s   == SortedSeq(missingSeqs)
           acc == FoldLeft(LAMBDA a, x : CoalesceStep(a, x, maxSpan),
                           [runs |-> << >>, start |-> s[1], prev |-> s[1]],
                           Tail(s))
       IN  Append(acc.runs, <<acc.start, acc.prev - acc.start + 1>>)
=============================================================================
