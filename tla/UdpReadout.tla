----------------------------- MODULE UdpReadout -----------------------------
(* Reading the FPGA over UDP port 5001: a request names a register or a page   *)
(* of the capture, the reply carries what it holds.  The readers are commands  *)
(* that end (`trace_doctor fpga-id`, trace_dump.py, the ddr3 and blackbox      *)
(* checks of fpga_health.py); each has a socket of its own and waits for one   *)
(* reply at a time, whose first two bytes, the echo of the address, nobody     *)
(* looks at.  The network loses requests and replies or is later than the      *)
(* timeout; meanwhile the FPGA goes on and may be power cycled.                *)
EXTENDS Integers, Sequences, FiniteSets, SequencesExt

CONSTANTS
    Readers,        \* of {"fpga_id", "ddr3", "blackbox", "dump"}, those that may be run
    Builds,         \* BUILD_IDs of the bitstreams: sequences of bytes, low first
    Depth, CHUNK,   \* bytes of the capture, and of a page
    PrevGens,       \* generations the caller may ask to be past; 0: none is given
    Retries,        \* 6 in cmd_fpga_id
    Late,           \* whether a reply may come after the timeout
    MaxEvents, MaxGen

VARIABLES
    fpga,           \* [build, calib, errs, bursts, tck, words]: what the registers show
    shot,           \* [gen, fill]: the one-shot capture
    net,            \* requests under way and replies under way
    inbox,          \* replies that have reached the socket
    r,              \* the reader; see Start
    past            \* [events, late, moved]: power cycles and re-arms, late replies

readoutVars == <<fpga, shot, net, inbox, r, past>>

Pages == [k \in 1 .. (Depth + CHUNK - 1) \div CHUNK |-> [base |-> (k - 1) * CHUNK,
                                                         n |-> IF k * CHUNK > Depth THEN Depth - (k - 1) * CHUNK ELSE CHUNK]]
IdLen == CHOOSE n \in 1 .. 4 : \E b \in Builds : Len(b) = n
Regs(prog) ==
    CASE prog = "fpga_id" -> [k \in 1 .. IdLen |-> [reg |-> "id", k |-> k]]
      [] prog = "ddr3" -> <<[reg |-> "calib", k |-> 0], [reg |-> "errs", k |-> 0], [reg |-> "bursts", k |-> 0]>>
      [] prog = "blackbox" -> <<[reg |-> "calib", k |-> 0], [reg |-> "tck", k |-> 0], [reg |-> "words", k |-> 0]>>
      [] prog = "dump" -> <<[reg |-> "status", k |-> 0]>> \o [k \in 1 .. Len(Pages) |-> [reg |-> "page", k |-> k]]

\* The byte at an offset of the capture; past the fill the memory has something older.
Byte(o) == [gen |-> IF o < shot.fill THEN shot.gen ELSE shot.gen - 1, off |-> o]

\* What the FPGA answers.  The capture memory is a clock late, so a page starts with its
\* first byte twice; the status is not read from that memory.
Answer(q) ==
    CASE q.reg = "id" -> fpga.build[q.k]
      [] q.reg = "status" -> [full |-> shot.fill = Depth, gen |-> shot.gen]
      [] q.reg = "page" -> [j \in 1 .. Pages[q.k].n + 1 |->
                              Byte(Pages[q.k].base + (IF j = 1 THEN 0 ELSE j - 2))]
      [] OTHER -> fpga[q.reg]

Start ==
    /\ r.state = "idle"
    /\ \E prog \in Readers, w \in Builds, g \in PrevGens :
        /\ prog = "fpga_id" \/ w = CHOOSE b \in Builds : TRUE
        /\ prog = "dump" \/ g = 0
        /\ r' = [state |-> "send", prog |-> prog, want |-> w, prev |-> g, k |-> 1, tries |-> 0,
                 got |-> <<>>, rc |-> 0]
    /\ past' = [past EXCEPT !.moved = FALSE, !.late = FALSE]
    /\ UNCHANGED <<fpga, shot, net, inbox>>

\* req, rd: one request, one wait.
sendto ==
    /\ r.state = "send"
    /\ r' = [r EXCEPT !.state = "wait", !.tries = @ + 1]
    /\ net' = [net EXCEPT !.req = Append(@, Regs(r.prog)[r.k])]
    /\ UNCHANGED <<fpga, shot, inbox, past>>

End(rc) == [r EXCEPT !.state = "done", !.rc = rc]

\* Mutant: the first byte of a page is taken as it comes.
CutNot(q, a) == IF q.reg = "page" THEN SubSeq(a, 1, Len(a) - 1) ELSE a

\* A page is asked for with one byte more and the first one is dropped.
Cut(q, a) == IF q.reg = "page" THEN Tail(a) ELSE a

\* The exit code.  It is 0 too when there is only a warning: nothing verified yet, no trace
\* clock, nothing written yet, the capture not full.
Verdict(prog, got) ==
    CASE prog = "fpga_id" -> IF got = r.want THEN 0 ELSE 1
      [] prog = "ddr3" -> IF ~got[1] \/ got[2] # 0 THEN 2 ELSE 0
      [] prog = "blackbox" -> IF ~got[1] THEN 2 ELSE 0
      [] prog = "dump" -> 0

\* trace_dump waits for a full capture of another generation, but only so long.
Stale(a) == r.prog = "dump" /\ r.k = 1 /\ r.prev # 0 /\ ~(a.full /\ a.gen # r.prev)

recvfrom ==
    /\ r.state = "wait" /\ inbox # <<>>
    /\ inbox' = Tail(inbox)
    /\ LET q == Regs(r.prog)[r.k]
           a == Cut(q, Head(inbox))
           got == Append(r.got, a)
       IN  \/ Stale(a) /\ r' = [r EXCEPT !.state = "send", !.tries = 0]
           \/ r' = IF r.k = Len(Regs(r.prog)) THEN [End(Verdict(r.prog, got)) EXCEPT !.got = got]
                   ELSE [r EXCEPT !.state = "send", !.tries = 0, !.k = @ + 1, !.got = got]
    /\ UNCHANGED <<fpga, shot, net, past>>

\* Only cmd_fpga_id asks again.
timeout ==
    /\ r.state = "wait" /\ inbox = <<>>
    /\ Late \/ (net.rep = <<>> /\ net.req = <<>>)
    /\ r' = IF r.prog = "fpga_id" /\ r.tries < Retries THEN [r EXCEPT !.state = "send"] ELSE End(2)
    /\ past' = [past EXCEPT !.late = @ \/ net.rep # <<>> \/ net.req # <<>>]
    /\ UNCHANGED <<fpga, shot, net, inbox>>

\* The next command has a socket of its own: nothing of this one reaches it.
close ==
    /\ r.state = "done"
    /\ r' = [r EXCEPT !.state = "idle"]
    /\ net' = [req |-> <<>>, rep |-> <<>>] /\ inbox' = <<>>
    /\ UNCHANGED <<fpga, shot, past>>

(***************************************************************************)
(* The network and the FPGA.                                               *)
(***************************************************************************)
Serve ==
    /\ net.req # <<>>
    /\ net' = [req |-> Tail(net.req), rep |-> Append(net.rep, Answer(Head(net.req)))]
    /\ UNCHANGED <<fpga, shot, inbox, r, past>>
Arrive == net.rep # <<>> /\ net' = [net EXCEPT !.rep = Tail(@)] /\ inbox' = Append(inbox, Head(net.rep))
          /\ UNCHANGED <<fpga, shot, r, past>>
Lose ==
    /\ \/ net.req # <<>> /\ net' = [net EXCEPT !.req = Tail(@)]
       \/ net.rep # <<>> /\ net' = [net EXCEPT !.rep = Tail(@)]
    /\ UNCHANGED <<fpga, shot, inbox, r, past>>

Booted(b) == [build |-> b, calib |-> FALSE, errs |-> 0, bursts |-> 0, tck |-> FALSE, words |-> 0]
Run ==
    /\ \/ ~fpga.calib /\ fpga' = [fpga EXCEPT !.calib = TRUE]
       \/ fpga.calib /\ fpga.bursts < 1 /\ fpga' = [fpga EXCEPT !.bursts = @ + 1]
       \/ fpga.calib /\ fpga.errs < 1 /\ fpga' = [fpga EXCEPT !.errs = @ + 1]
       \/ ~fpga.tck /\ fpga' = [fpga EXCEPT !.tck = TRUE]
       \/ fpga.tck /\ fpga.calib /\ fpga.words < 1 /\ fpga' = [fpga EXCEPT !.words = @ + 1]
    /\ "ddr3" \in Readers
    /\ UNCHANGED <<shot, net, inbox, r, past>>
Fill ==
    /\ shot.fill < Depth /\ shot' = [shot EXCEPT !.fill = @ + 1]
    /\ UNCHANGED <<fpga, net, inbox, r, past>>
Event ==
    /\ past.events < MaxEvents
    /\ \/ \E b \in Builds : fpga' = Booted(b) /\ shot' = [gen |-> 1, fill |-> 0]
       \/ shot.gen < MaxGen /\ shot' = [gen |-> shot.gen + 1, fill |-> 0] /\ UNCHANGED fpga
    /\ past' = [past EXCEPT !.events = @ + 1, !.moved = TRUE]
    /\ UNCHANGED <<net, inbox, r>>

ReadoutInit ==
    /\ \E b \in Builds : fpga = Booted(b)
    /\ shot = [gen |-> 1, fill |-> 0]
    /\ net = [req |-> <<>>, rep |-> <<>>] /\ inbox = <<>>
    /\ r = [state |-> "idle", prog |-> "dump", want |-> <<>>, prev |-> 0, k |-> 1, tries |-> 0,
            got |-> <<>>, rc |-> 0]
    /\ past = [events |-> 0, late |-> FALSE, moved |-> FALSE]

ReadoutNext == Start \/ sendto \/ recvfrom \/ timeout \/ close \/ Serve \/ Arrive \/ Lose \/ Run \/ Fill \/ Event
ReadoutSpec == ReadoutInit /\ [][ReadoutNext]_readoutVars

(***************************************************************************)
(* Properties.                                                             *)
(***************************************************************************)
Green(prog) == r.state = "done" /\ r.prog = prog /\ r.rc = 0
File == FlattenSeq(Tail(r.got))

\* With no power cycle and no re-arm since it was started, and no reply later than the
\* timeout, a reader's verdict is right: the identity matches exactly when that bitstream
\* runs, a memory test passes only when calibrated and errors were not counted before, and
\* a dump of a full capture is each byte of that capture once and in order.
ReadoutRight == (~past.moved /\ ~past.late) =>
    /\ Green("fpga_id") => fpga.build = r.want
    /\ (r.state = "done" /\ r.prog = "fpga_id" /\ r.rc = 1) => fpga.build # r.want
    /\ (Green("ddr3") /\ r.got[3] > 0) => fpga.calib /\ fpga.bursts > 0 /\ r.got[2] = 0
    /\ (Green("blackbox") /\ r.got[2] /\ r.got[3] > 0) => fpga.calib /\ fpga.words > 0
    /\ (Green("dump") /\ r.got[1].full) =>
          File = [k \in 1 .. Depth |-> [gen |-> r.got[1].gen, off |-> k - 1]]
==============================================================================
